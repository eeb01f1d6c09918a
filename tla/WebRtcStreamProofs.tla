-------------------------- MODULE WebRtcStreamProofs --------------------------
(***************************************************************************)
(* Type correctness of two WebRtcStream objects over any number of data    *)
(* channels, the bound of the counted bytes, and: a stream that has ended  *)
(* leaves nobody waiting.  The order in which the chunks reach the reader, *)
(* and that an eof is complete.  The flow-control account: no byte that    *)
(* the other side's consumer has not acknowledged is missing from it, and  *)
(* on a channel that was never lost the window bounds those bytes.  For    *)
(* every window, all chunk sizes, every number of channels and every       *)
(* choice of which sides send, close, abort.                               *)
(***************************************************************************)
EXTENDS WebRtcStream, SumsProofs

\* A reader waits only while the read side is open.
ReaderOf(e) == e.readClosed => e.reader # "waiting"

\* What 'closed' implies for the rest of the object.
EndedOf(e) ==
    e.status = "closed" =>
        /\ e.readClosed
        /\ e.writeStatus = "closed"
        /\ e.link = 0
        /\ e.writer \notin {"waitPeer", "waitFlow"}

\* A buffered chunk is one of the submitted ones.
WorkOf(e) == e.writer = "buffering" => e.sent < e.submitted

BoundOf(e) ==
    \/ e.inFlight <= Window
    \/ \E k \in 1 .. MaxChunks : e.inFlight <= SizeOf[k]

Good(e) ==
    /\ e \in Endpoint
    /\ ReaderOf(e)
    /\ EndedOf(e)
    /\ BoundOf(e)
    /\ WorkOf(e)

IInv == TypeOK /\ \A s \in Side : Good(ep[s])

-----------------------------------------------------------------------------
(* Facts about the constants and the sides.                                 *)

\* The two sides and the generations the initial state mentions.
LEMMA ConstantFacts ==
    /\ 0 \in Gen /\ 1 \in Gen
    /\ "client" \in Side /\ "server" \in Side
    /\ \A s \in Side : Other(s) \in Side /\ Other(s) # s
  BY GenAssumption DEF Gen, Side, Other

\* A chunk has a positive size.
LEMMA SizeFacts == \A n \in 1 .. MaxChunks : SizeOf[n] \in Nat /\ SizeOf[n] > 0
  BY ChunkAssumption

\* Control frames are frames.
LEMMA CtlFrames == \A t \in {"ready", "flow", "resume", "eof", "abort"} : Ctl(t) \in Frame
  BY DEF Ctl, Frame

-----------------------------------------------------------------------------
(* The methods keep the object good.                                        *)

\* The fields that decide whether an object is good, except the writer's and
\* the link.
Same(e, f) ==
    /\ f.status = e.status
    /\ f.writeStatus = e.writeStatus
    /\ f.readClosed = e.readClosed
    /\ f.reader = e.reader
    /\ f.inFlight = e.inFlight
    /\ f.sent = e.sent /\ f.submitted = e.submitted

\* Waking the writer touches the writer only, and it is no longer waiting.
LEMMA WakeWriterFacts ==
    ASSUME NEW e \in Endpoint, NEW w \in {"run", "failed"}
    PROVE  /\ WakeWriter(e, w) \in Endpoint
           /\ Same(e, WakeWriter(e, w))
           /\ WakeWriter(e, w).link = e.link
           /\ WakeWriter(e, w).writer \notin {"waitPeer", "waitFlow"}
           /\ WakeWriter(e, w).writer \in {e.writer, w}
<1>1. CASE e.writer \in {"waitFlow", "waitPeer"}
  <2>1. WakeWriter(e, w) = [e EXCEPT !.writer = w]
    BY <1>1 DEF WakeWriter
  <2> QED
    BY <2>1 DEF Endpoint, Same
<1>2. CASE e.writer \notin {"waitFlow", "waitPeer"}
  <2>1. WakeWriter(e, w) = e
    BY <1>2 DEF WakeWriter
  <2> QED
    BY <1>2, <2>1 DEF Same
<1> QED
  BY <1>1, <1>2

\* #finalize touches the writer and the link only.
LEMMA FinalizeFacts ==
    ASSUME NEW e \in Endpoint
    PROVE  /\ Finalize(e) \in Endpoint
           /\ Same(e, Finalize(e))
           /\ Finalize(e).link = 0
           /\ Finalize(e).writer \notin {"waitPeer", "waitFlow"}
           /\ Finalize(e).writer \in {e.writer, "failed"}
<1> DEFINE f == WakeWriter(e, "failed")
<1>1. /\ f \in Endpoint /\ Same(e, f)
      /\ f.writer \notin {"waitPeer", "waitFlow"} /\ f.writer \in {e.writer, "failed"}
  BY WakeWriterFacts
<1>2. Finalize(e) = [f EXCEPT !.link = 0]
  BY DEF Finalize
<1> HIDE DEF f
<1>3. [f EXCEPT !.link = 0] \in Endpoint
  BY <1>1, ConstantFacts DEF Endpoint
<1>4. /\ [f EXCEPT !.link = 0].link = 0
      /\ [f EXCEPT !.link = 0].writer = f.writer
      /\ Same(f, [f EXCEPT !.link = 0])
  BY <1>1 DEF Endpoint, Same
<1> QED
  BY <1>1, <1>2, <1>3, <1>4 DEF Same

\* Finalising an object whose status, write side and read side are closed.
LEMMA FinalizeGood ==
    ASSUME NEW e \in Endpoint, ReaderOf(e), BoundOf(e), WorkOf(e),
           e.readClosed, e.writeStatus = "closed"
    PROVE  Good(Finalize(e))
  BY FinalizeFacts DEF Good, Same, ReaderOf, EndedOf, BoundOf, WorkOf

\* MaybeFinalize ends the object consistently.
LEMMA MaybeFinalizeGood ==
    ASSUME NEW e, Good(e)
    PROVE  Good(MaybeFinalize(e))
<1>1. CASE e.readClosed /\ e.writeStatus = "closed"
  <2> DEFINE f == [e EXCEPT !.status = "closed"]
  <2>1. f \in Endpoint /\ f.readClosed /\ f.writeStatus = "closed"
        /\ f.reader = e.reader /\ f.inFlight = e.inFlight
        /\ f.writer = e.writer /\ f.sent = e.sent /\ f.submitted = e.submitted
    BY <1>1 DEF Good, Endpoint
  <2>2. ReaderOf(f) /\ BoundOf(f) /\ WorkOf(f)
    BY <1>1, <2>1 DEF Good, ReaderOf, BoundOf, WorkOf
  <2>3. MaybeFinalize(e) = Finalize(f)
    BY <1>1 DEF MaybeFinalize
  <2> HIDE DEF f
  <2> QED
    BY <2>1, <2>2, <2>3, FinalizeGood
<1>2. CASE ~(e.readClosed /\ e.writeStatus = "closed")
  BY <1>2 DEF MaybeFinalize
<1> QED
  BY <1>1, <1>2

\* All fields but those of the read side are the same.
Beside(e, f) ==
    /\ f.status = e.status /\ f.writeStatus = e.writeStatus /\ f.conn = e.conn
    /\ f.flowEnabled = e.flowEnabled /\ f.inFlight = e.inFlight
    /\ f.submitted = e.submitted /\ f.sent = e.sent
    /\ f.writer = e.writer /\ f.bufGen = e.bufGen /\ f.link = e.link
    /\ f.items = e.items /\ f.consumed = e.consumed /\ f.eof = e.eof

\* EndRead and Fail change no other field, and no reader waits behind them.
LEMMA EndReadFields ==
    ASSUME NEW e \in Endpoint
    PROVE  \A f \in {EndRead(e), Fail(e)} :
              f \in Endpoint /\ f.readClosed /\ f.reader # "waiting" /\ Beside(e, f)
<1>1. ASSUME NEW x \in {"busy", "done", "error"}, NEW f,
             f = [e EXCEPT !.readClosed = TRUE, !.reader = x]
      PROVE  f \in Endpoint /\ f.readClosed /\ f.reader # "waiting" /\ Beside(e, f)
  <2>1. f \in Endpoint
    BY <1>1 DEF Endpoint
  <2>2. f.readClosed /\ f.reader = x
    BY <1>1 DEF Endpoint
  <2>3. Beside(e, f)
    BY <1>1 DEF Endpoint, Beside
  <2> QED
    BY <2>1, <2>2, <2>3
<1>2. e.reader \in {"busy", "waiting", "done", "error"}
  BY DEF Endpoint
<1>3. PICK x \in {"busy", "done", "error"} :
        x = IF e.reader = "waiting" THEN "done" ELSE e.reader
  BY <1>2
<1>4. PICK y \in {"busy", "done", "error"} :
        y = IF e.reader = "waiting" THEN "error" ELSE e.reader
  BY <1>2
<1>5. /\ EndRead(e) = [e EXCEPT !.readClosed = TRUE, !.reader = x]
      /\ Fail(e) = [e EXCEPT !.readClosed = TRUE, !.reader = y]
  BY <1>3, <1>4 DEF EndRead, Fail
<1> QED
  BY ONLY <1>1, <1>5

\* The end of the read side, followed by MaybeFinalize.
LEMMA EndReadGood ==
    ASSUME NEW e, Good(e)
    PROVE  Good(EndRead(e)) /\ Good(MaybeFinalize(EndRead(e)))
<1>1. Good(EndRead(e))
  <2> DEFINE f == EndRead(e)
  <2>1. f \in Endpoint /\ f.readClosed /\ f.reader # "waiting" /\ Beside(e, f)
    BY EndReadFields DEF Good
  <2> HIDE DEF f
  <2>2. Good(f)
    BY <2>1 DEF Good, ReaderOf, EndedOf, BoundOf, WorkOf, Beside
  <2> QED
    BY <2>2 DEF f
<1> QED
  BY <1>1, MaybeFinalizeGood

\* close() sets two fields.
LEMMA EofFields ==
    ASSUME NEW e \in Endpoint, NEW d, d = [e EXCEPT !.writeStatus = "closed", !.eof = "sent"]
    PROVE  /\ d \in Endpoint /\ d.writeStatus = "closed" /\ d.eof = "sent"
           /\ d.status = e.status /\ d.link = e.link /\ d.items = e.items
           /\ d.readClosed = e.readClosed /\ d.reader = e.reader /\ d.inFlight = e.inFlight
           /\ d.writer = e.writer /\ d.sent = e.sent /\ d.submitted = e.submitted
<1>1. d \in Endpoint
  BY DEF Endpoint
<1>2. d.writeStatus = "closed" /\ d.eof = "sent"
  BY DEF Endpoint
<1>3. /\ d.status = e.status /\ d.link = e.link /\ d.items = e.items
      /\ d.readClosed = e.readClosed /\ d.reader = e.reader /\ d.inFlight = e.inFlight
      /\ d.writer = e.writer /\ d.sent = e.sent /\ d.submitted = e.submitted
  BY DEF Endpoint
<1> QED
  BY <1>1, <1>2, <1>3

\* The end of the write side, followed by MaybeFinalize.
LEMMA EofSentGood ==
    ASSUME NEW e, Good(e)
    PROVE  Good(MaybeFinalize([e EXCEPT !.writeStatus = "closed", !.eof = "sent"]))
<1> DEFINE d == [e EXCEPT !.writeStatus = "closed", !.eof = "sent"]
<1>1. /\ d \in Endpoint /\ d.writeStatus = "closed"
      /\ d.status = e.status /\ d.link = e.link
      /\ d.readClosed = e.readClosed /\ d.reader = e.reader /\ d.inFlight = e.inFlight
      /\ d.writer = e.writer /\ d.sent = e.sent /\ d.submitted = e.submitted
  BY EofFields DEF Good
<1>2. Good(d)
  <2> HIDE DEF d
  <2> QED
    BY <1>1 DEF Good, ReaderOf, EndedOf, BoundOf, WorkOf
<1> HIDE DEF d
<1>3. Good(MaybeFinalize(d))
  BY <1>2, MaybeFinalizeGood
<1> QED
  BY <1>3 DEF d

\* The read and the write side end together, for abort() and peerLeft().
LEMMA BothEndedGood ==
    ASSUME NEW e, Good(e)
    PROVE  Good(Finalize(Fail(ShutDown(e)))) /\ Good(PeerLeft(e))
<1> DEFINE d == ShutDown(e)
           p == [d EXCEPT !.conn = "disconnected"]
<1>1. /\ d \in Endpoint /\ d.writeStatus = "closed"
      /\ d.readClosed = e.readClosed /\ d.reader = e.reader /\ d.inFlight = e.inFlight
      /\ d.writer = e.writer /\ d.sent = e.sent /\ d.submitted = e.submitted
  BY DEF Good, Endpoint, ShutDown
<1>2. /\ p \in Endpoint /\ p.writeStatus = "closed"
      /\ p.readClosed = e.readClosed /\ p.reader = e.reader /\ p.inFlight = e.inFlight
      /\ p.writer = e.writer /\ p.sent = e.sent /\ p.submitted = e.submitted
  <2> HIDE DEF d
  <2> QED
    BY <1>1 DEF Endpoint
<1>3. Good(Finalize(Fail(d)))
  <2> HIDE DEF d
  <2>1. /\ Fail(d) \in Endpoint /\ Fail(d).writeStatus = "closed"
        /\ Fail(d).readClosed /\ Fail(d).inFlight = d.inFlight
        /\ Fail(d).reader # "waiting" /\ Fail(d).writer = d.writer
        /\ Fail(d).sent = d.sent /\ Fail(d).submitted = d.submitted
    BY <1>1 DEF Endpoint, Fail
  <2>2. ReaderOf(Fail(d)) /\ BoundOf(Fail(d)) /\ WorkOf(Fail(d))
    BY <1>1, <2>1 DEF Good, ReaderOf, BoundOf, WorkOf
  <2> QED
    BY <2>1, <2>2, FinalizeGood
<1>4. Good(Finalize(EndRead(p)))
  <2> HIDE DEF p
  <2>1. /\ EndRead(p) \in Endpoint /\ EndRead(p).writeStatus = "closed"
        /\ EndRead(p).readClosed /\ EndRead(p).inFlight = p.inFlight
        /\ EndRead(p).reader # "waiting" /\ EndRead(p).writer = p.writer
        /\ EndRead(p).sent = p.sent /\ EndRead(p).submitted = p.submitted
    BY <1>2 DEF Endpoint, EndRead
  <2>2. ReaderOf(EndRead(p)) /\ BoundOf(EndRead(p)) /\ WorkOf(EndRead(p))
    BY <1>2, <2>1 DEF Good, ReaderOf, BoundOf, WorkOf
  <2> QED
    BY <2>1, <2>2, FinalizeGood
<1> QED
  BY <1>3, <1>4 DEF PeerLeft

\* peerDisconnected().
LEMMA PeerDisconnectedGood ==
    ASSUME NEW e, Good(e)
    PROVE  Good(PeerDisconnected(e)) /\ PeerDisconnected(e).link = e.link
  BY DEF Good, Endpoint, ReaderOf, EndedOf, BoundOf, WorkOf, PeerDisconnected

\* peerReconnected(), on an open stream that gets a channel.
LEMMA ReboundGood ==
    ASSUME NEW e, Good(e), e.status = "open", NEW g \in Gen
    PROVE  Good(PeerReconnected([e EXCEPT !.link = g]))
<1> DEFINE f == [e EXCEPT !.link = g]
<1>1. Good(f)
  BY DEF Good, Endpoint, ReaderOf, EndedOf, BoundOf, WorkOf
<1>2. f.status = "open"
  BY DEF Good, Endpoint
<1>3. BoundOf([f EXCEPT !.conn = "connected", !.inFlight = 0])
  BY <1>1, WindowAssumption DEF Good, Endpoint, BoundOf
<1>4. Good(PeerReconnected(f))
  <2> HIDE DEF f
  <2> DEFINE h == [f EXCEPT !.conn = "connected", !.inFlight = 0]
  <2>1. CASE f.conn = "reconnecting"
    <3>1. h \in Endpoint /\ h.status = "open" /\ ReaderOf(h) /\ WorkOf(h)
      <4>1. f \in Endpoint /\ ReaderOf(f)
        BY <1>1 DEF Good
      <4>2. h \in Endpoint
        <5>2. [f EXCEPT !.conn = "connected"] \in Endpoint
          BY <4>1 DEF Endpoint
        <5>3. h = [[f EXCEPT !.conn = "connected"] EXCEPT !.inFlight = 0]
          OBVIOUS
        <5> DEFINE k == [f EXCEPT !.conn = "connected"]
        <5> HIDE DEF k
        <5>1. k \in Endpoint => [k EXCEPT !.inFlight = 0] \in Endpoint
          BY DEF Endpoint
        <5> QED
          BY <5>1, <5>2, <5>3 DEF k
      <4>3. h.status = f.status /\ h.readClosed = f.readClosed /\ h.reader = f.reader
            /\ h.writer = f.writer /\ h.sent = f.sent /\ h.submitted = f.submitted
        BY <4>1 DEF Endpoint
      <4> QED
        BY <1>1, <1>2, <4>1, <4>2, <4>3 DEF Good, ReaderOf, WorkOf
    <3>2. PeerReconnected(f) = WakeWriter(h, "run")
      BY <2>1 DEF PeerReconnected
    <3> HIDE DEF h
    <3>3. WakeWriter(h, "run") \in Endpoint /\ Same(h, WakeWriter(h, "run"))
          /\ WakeWriter(h, "run").writer \in {h.writer, "run"}
      BY <3>1, WakeWriterFacts
    <3> QED
      BY <1>3, <3>1, <3>2, <3>3 DEF Good, Same, ReaderOf, EndedOf, BoundOf, WorkOf, h
  <2>2. CASE f.conn # "reconnecting"
    BY <1>1, <2>2 DEF PeerReconnected
  <2> QED
    BY <2>1, <2>2
<1> QED
  BY <1>4

\* An acknowledgement, and the resume frame.
LEMMA AcknowledgeGood ==
    ASSUME NEW e, Good(e), NEW b \in Nat
    PROVE  /\ Good(Acknowledge(e, b)) /\ Acknowledge(e, b).link = e.link
           /\ Good(WakeFlow([e EXCEPT !.inFlight = 0]))
           /\ WakeFlow([e EXCEPT !.inFlight = 0]).link = e.link
<1> DEFINE less(i) == [e EXCEPT !.inFlight = i]
<1>1. ASSUME NEW i \in Int, i = 0 \/ i <= e.inFlight
      PROVE  Good(WakeFlow(less(i))) /\ WakeFlow(less(i)).link = e.link
  <2>1. Good(less(i)) /\ less(i).link = e.link
    <3>1. BoundOf(less(i))
      BY <1>1, WindowAssumption, SizeFacts DEF Good, Endpoint, BoundOf
    <3> QED
      BY <1>1, <3>1 DEF Good, Endpoint, ReaderOf, EndedOf, WorkOf
  <2>2. CASE less(i).writer = "waitFlow"
    <3> DEFINE f == less(i)
    <3>1. WakeFlow(f) = [f EXCEPT !.writer = "run"]
      BY <2>2 DEF WakeFlow
    <3> HIDE DEF f
    <3>2. Good(f) /\ f.link = e.link
      BY <2>1 DEF f
    <3>3. Good([f EXCEPT !.writer = "run"]) /\ [f EXCEPT !.writer = "run"].link = f.link
      <4> DEFINE h == [f EXCEPT !.writer = "run"]
      <4>1. f \in Endpoint
        BY <3>2 DEF Good
      <4>2. h \in Endpoint /\ h.writer = "run" /\ h.link = f.link /\ Same(f, h)
        BY <4>1 DEF Endpoint, Same
      <4> HIDE DEF h
      <4>3. Good(h)
        BY <3>2, <4>2 DEF Good, Same, ReaderOf, EndedOf, BoundOf, WorkOf
      <4> QED
        BY <4>2, <4>3 DEF h
    <3> QED
      BY <3>1, <3>2, <3>3 DEF f
  <2>3. CASE less(i).writer # "waitFlow"
    BY <2>1, <2>3 DEF WakeFlow
  <2> QED
    BY <2>2, <2>3
<1>2. e.inFlight \in Int
  BY DEF Good, Endpoint
<1>3. (IF e.inFlight > b THEN e.inFlight - b ELSE 0) \in Int
  BY <1>2
<1>4. (IF e.inFlight > b THEN e.inFlight - b ELSE 0) = 0 \/
      (IF e.inFlight > b THEN e.inFlight - b ELSE 0) <= e.inFlight
  BY <1>2
<1>5. 0 \in Int
  OBVIOUS
<1> QED
  BY <1>1, <1>3, <1>4, <1>5 DEF Acknowledge

\* A change of fields that none of the three conditions reads.
LEMMA SameGood ==
    ASSUME NEW e, Good(e), NEW f \in Endpoint, Same(e, f),
           f.link = e.link, f.writer \in {e.writer, "run", "failed"}
    PROVE  Good(f)
  BY DEF Good, Same, ReaderOf, EndedOf, BoundOf, WorkOf

-----------------------------------------------------------------------------
(* The state around an object.                                              *)

\* The initial state satisfies the invariant.
LEMMA InitIInv == Init => IInv
<1> SUFFICES ASSUME Init PROVE IInv
  OBVIOUS
<1>1. Good(NewEndpoint)
  <2>1. NewEndpoint \in Endpoint
    BY ConstantFacts, ChunkAssumption DEF NewEndpoint, Endpoint
  <2> QED
    BY <2>1, WindowAssumption DEF NewEndpoint, Good, ReaderOf, EndedOf, BoundOf, WorkOf
<1>2. TypeOK
  <2>1. ep \in [Side -> Endpoint]
    BY <1>1 DEF Init, Good
  <2>2. wire \in [Side -> [Gen -> Seq(Frame)]]
    <3>1. <<Ctl("flow")>> \in Seq(Frame) /\ <<>> \in Seq(Frame)
      BY CtlFrames
    <3> QED
      BY <3>1 DEF Init
  <2>3. got \in [Side -> Seq(Item)]
    BY DEF Init
  <2> QED
    BY <2>1, <2>2, <2>3, ConstantFacts DEF Init, TypeOK
<1> QED
  BY <1>1, <1>2 DEF IInv, Init

\* Replacing one object by a good one.
LEMMA UpdateGood ==
    ASSUME IInv, NEW s \in Side, NEW e, Good(e), ep' = [ep EXCEPT ![s] = e]
    PROVE  ep' \in [Side -> Endpoint] /\ \A t \in Side : Good(ep'[t])
  BY DEF IInv, TypeOK, Good

\* The types around an object that another step leaves alone.
Rest ==
    /\ got' \in [Side -> Seq(Item)]
    /\ early' \in [Side -> Int]
    /\ forgiven' \in [Side -> Int]

\* A step that replaces one object and touches no channel.
LEMMA QuietIInv ==
    ASSUME IInv, NEW s \in Side, NEW e, Good(e), ep' = [ep EXCEPT ![s] = e],
           UNCHANGED <<wire, dead>>, Rest
    PROVE  IInv'
<1>1. ep' \in [Side -> Endpoint] /\ \A t \in Side : Good(ep'[t])
  BY UpdateGood
<1> QED
  BY <1>1 DEF IInv, TypeOK, Rest

\* A step that goes through a channel.
LEMMA ExchangeIInv ==
    ASSUME IInv, NEW s \in Side, NEW g \in Gen, NEW e, Good(e),
           NEW out \in Seq(Frame), NEW taken \in BOOLEAN,
           taken => wire[Other(s)][g] # <<>>,
           Exchange(s, g, e, out, taken), Rest
    PROVE  IInv'
<1> DEFINE o == Other(s)
           lost == ep[s].link # e.link
           mine == IF g \in dead[o] THEN wire[s][g] ELSE wire[s][g] \o out
           theirs == IF lost THEN <<>>
                     ELSE IF taken THEN Tail(wire[o][g]) ELSE wire[o][g]
<1>1. ep' \in [Side -> Endpoint] /\ \A t \in Side : Good(ep'[t])
  BY UpdateGood DEF Exchange
<1>2. o \in Side /\ o # s
  BY ConstantFacts
<1>3. dead' \in [Side -> SUBSET Gen]
  BY DEF Exchange, IInv, TypeOK
<1>4. wire' \in [Side -> [Gen -> Seq(Frame)]]
  <2>1. wire[s][g] \in Seq(Frame) /\ wire[o][g] \in Seq(Frame)
    BY <1>2 DEF IInv, TypeOK
  <2>2. mine \in Seq(Frame)
    BY <2>1
  <2>3. theirs \in Seq(Frame)
    BY <2>1
  <2>4. wire' = [wire EXCEPT ![s][g] = mine, ![o][g] = theirs]
    BY <1>2 DEF Exchange, IInv, TypeOK
  <2> HIDE DEF mine, theirs
  <2> QED
    BY <1>2, <2>2, <2>3, <2>4 DEF IInv, TypeOK
<1> QED
  BY <1>1, <1>3, <1>4 DEF IInv, TypeOK, Rest
-----------------------------------------------------------------------------
(* The application's steps.                                                 *)

\* The chunk in the buffer of a channel is one of the constants.
LEMMA NextChunk ==
    ASSUME NEW e, Good(e), e.writer = "buffering"
    PROVE  e.sent + 1 \in 1 .. MaxChunks
<1>1. e.sent \in 0 .. MaxChunks /\ e.submitted \in 0 .. MaxChunks /\ e.sent < e.submitted
  BY DEF Good, Endpoint, WorkOf
<1>2. MaxChunks \in Nat
  BY ChunkAssumption
<1>3. ASSUME NEW x \in 0 .. MaxChunks, NEW y \in 0 .. MaxChunks, x < y
      PROVE  x + 1 \in 1 .. MaxChunks
  BY ONLY <1>2, <1>3
<1> QED
  BY ONLY <1>1, <1>3

\* Facts about one object that every step of its side starts from.
LEMMA ObjectFacts ==
    ASSUME IInv, NEW s \in Side
    PROVE  /\ Good(ep[s]) /\ ep[s] \in Endpoint /\ ep \in [Side -> Endpoint]
           /\ ep[s].link \in Gen /\ got[s] \in Seq(Item)
           /\ <<>> \in Seq(Frame)
           /\ \A t \in {"ready", "flow", "resume", "eof", "abort"} : <<Ctl(t)>> \in Seq(Frame)
           /\ UNCHANGED <<got, early, forgiven>> => Rest
<1>1. Good(ep[s]) /\ ep[s] \in Endpoint /\ ep \in [Side -> Endpoint] /\ got[s] \in Seq(Item)
  BY DEF IInv, TypeOK
<1>2. ep[s].link \in Gen
  BY <1>1 DEF Endpoint
<1>3. \A t \in {"ready", "flow", "resume", "eof", "abort"} : <<Ctl(t)>> \in Seq(Frame)
  BY CtlFrames
<1>4. UNCHANGED <<got, early, forgiven>> => Rest
  BY DEF IInv, TypeOK, Rest
<1> QED
  BY <1>1, <1>2, <1>3, <1>4

\* send() and the first half of close().
LEMMA AppSendIInv ==
    ASSUME IInv, NEW s \in Side, AppSend(s) \/ AppClose(s)
    PROVE  IInv'
<1>0. Good(ep[s]) /\ ep[s] \in Endpoint /\ ep \in [Side -> Endpoint]
      /\ (UNCHANGED <<got, early, forgiven>> => Rest)
  BY ObjectFacts
<1>1. CASE AppSend(s)
  <2> DEFINE e == [ep[s] EXCEPT !.submitted = @ + 1]
  <2>1. ep[s].submitted + 1 \in 0 .. MaxChunks
    <3>1. ep[s].submitted \in 0 .. MaxChunks /\ Submits[s] \in 0 .. MaxChunks
      BY <1>0, ChunkAssumption DEF Endpoint
    <3>2. ep[s].submitted < Submits[s] /\ MaxChunks \in Nat
      BY <1>1, ChunkAssumption DEF AppSend
    <3> QED
      BY <3>1, <3>2
  <2>2. e \in Endpoint /\ e.submitted = ep[s].submitted + 1 /\ e.sent = ep[s].sent
    BY <1>0, <2>1 DEF Endpoint
  <2>6. /\ e.status = ep[s].status /\ e.writeStatus = ep[s].writeStatus
        /\ e.readClosed = ep[s].readClosed /\ e.reader = ep[s].reader
        /\ e.inFlight = ep[s].inFlight /\ e.link = ep[s].link /\ e.writer = ep[s].writer
    BY <1>0 DEF Endpoint
  <2>3. ep' = [ep EXCEPT ![s] = e]
    BY <1>0, <1>1 DEF AppSend
  <2>4. UNCHANGED <<wire, dead>> /\ Rest
    BY <1>0, <1>1 DEF AppSend, account
  <2>7. ep[s].sent \in Nat /\ ep[s].submitted \in Nat
    BY <1>0 DEF Endpoint
  <2> HIDE DEF e
  <2>5. Good(e)
    BY <1>0, <2>2, <2>6, <2>7 DEF Good, ReaderOf, EndedOf, BoundOf, WorkOf
  <2> QED
    BY <2>3, <2>4, <2>5, QuietIInv
<1>2. CASE AppClose(s)
  <2> DEFINE e == [ep[s] EXCEPT !.writeStatus = "closing"]
  <2>1. e \in Endpoint /\ ep[s].writeStatus = "writable"
    BY <1>0, <1>2 DEF Endpoint, AppClose
  <2>2. ep[s].status = "open"
    BY <1>0, <2>1 DEF Good, EndedOf, Endpoint
  <2>3. Good(e)
    <3>1. e.status = "open" /\ e.readClosed = ep[s].readClosed /\ e.reader = ep[s].reader
          /\ e.inFlight = ep[s].inFlight /\ e.writer = ep[s].writer
          /\ e.sent = ep[s].sent /\ e.submitted = ep[s].submitted
      BY <1>0, <2>2 DEF Endpoint
    <3> QED
      BY <1>0, <2>1, <3>1 DEF Good, ReaderOf, EndedOf, BoundOf, WorkOf
  <2>4. ep' = [ep EXCEPT ![s] = e]
    BY <1>0, <1>2 DEF AppClose
  <2>5. UNCHANGED <<wire, dead>> /\ Rest
    BY <1>0, <1>2 DEF AppClose, account
  <2> QED
    BY <2>3, <2>4, <2>5, QuietIInv
<1> QED
  BY <1>1, <1>2

\* The second half of close().
LEMMA CloseIInv ==
    ASSUME IInv, NEW s \in Side, CloseCompletes(s) \/ CloseRejects(s)
    PROVE  IInv'
<1>0. Good(ep[s]) /\ ep[s] \in Endpoint /\ ep \in [Side -> Endpoint]
      /\ ep[s].link \in Gen /\ <<Ctl("eof")>> \in Seq(Frame)
      /\ (UNCHANGED <<got, early, forgiven>> => Rest)
  BY ObjectFacts
<1>1. CASE CloseCompletes(s)
  <2> DEFINE e == MaybeFinalize([ep[s] EXCEPT !.writeStatus = "closed", !.eof = "sent"])
  <2>1. Good(e)
    BY <1>0, EofSentGood
  <2>2. Exchange(s, ep[s].link, e, <<Ctl("eof")>>, FALSE) /\ Rest
    BY <1>0, <1>1 DEF CloseCompletes, Local, account
  <2> HIDE DEF e
  <2> QED
    BY <1>0, <2>1, <2>2, ExchangeIInv
<1>2. CASE CloseRejects(s)
  <2> DEFINE e == [ep[s] EXCEPT !.eof = "rejected"]
  <2>1. e \in Endpoint /\ Same(ep[s], e) /\ e.link = ep[s].link /\ e.writer = ep[s].writer
    <3>1. e \in Endpoint
      BY <1>0 DEF Endpoint
    <3>2. Same(ep[s], e) /\ e.link = ep[s].link /\ e.writer = ep[s].writer
      BY <1>0 DEF Endpoint, Same
    <3> QED
      BY <3>1, <3>2
  <2>2. ep' = [ep EXCEPT ![s] = e] /\ UNCHANGED <<wire, dead>> /\ Rest
    BY <1>0, <1>2 DEF CloseRejects, account
  <2> HIDE DEF e
  <2>3. Good(e)
    BY <1>0, <2>1, SameGood
  <2> QED
    BY <2>2, <2>3, QuietIInv
<1> QED
  BY <1>1, <1>2

\* abort().
LEMMA AbortIInv ==
    ASSUME IInv, NEW s \in Side, AppAbort(s)
    PROVE  IInv'
<1> DEFINE e == Finalize(Fail(ShutDown(ep[s])))
<1>0. Good(e) /\ ep[s].link \in Gen /\ <<>> \in Seq(Frame) /\ <<Ctl("abort")>> \in Seq(Frame)
      /\ (UNCHANGED <<got, early, forgiven>> => Rest)
  BY ObjectFacts, BothEndedGood
<1>1. PICK out \in {<<>>, <<Ctl("abort")>>} : Exchange(s, ep[s].link, e, out, FALSE)
  BY DEF AppAbort, Local
<1>2. Rest
  BY <1>0 DEF AppAbort, account
<1> HIDE DEF e
<1> QED
  BY <1>0, <1>1, <1>2, ExchangeIInv

\* The iterator's next().
LEMMA NextCallIInv ==
    ASSUME IInv, NEW s \in Side, NextCall(s)
    PROVE  IInv'
<1> DEFINE e == ep[s]
           acks == Acks(e)
<1>0. Good(e) /\ e \in Endpoint /\ e.link \in Gen /\ got[s] \in Seq(Item)
      /\ got \in [Side -> Seq(Item)]
      /\ (UNCHANGED <<got, early, forgiven>> => Rest)
  BY ObjectFacts DEF IInv, TypeOK
<1>1. acks \in Seq(Frame)
  <2>1. e.consumed > 0 => [t |-> "ack", bytes |-> e.consumed] \in Frame
    BY <1>0 DEF Endpoint, Frame
  <2> HIDE DEF e
  <2> QED
    BY <2>1 DEF Acks
<1>2. e.reader = "busy" /\ UNCHANGED <<early, forgiven>>
  BY DEF NextCall, account
<1>3. CASE e.items # <<>>
  <2> DEFINE n == SizeOf[Head(e.items).n]
             f == [e EXCEPT !.items = Tail(@), !.consumed = n]
  <2>1. e.items \in Seq(Item) /\ Head(e.items) \in Item /\ Tail(e.items) \in Seq(Item)
    BY <1>0, <1>3 DEF Endpoint
  <2>2. n \in Nat
    BY <2>1, SizeFacts DEF Item
  <2>3. Exchange(s, e.link, f, acks, FALSE) /\ got' = [got EXCEPT ![s] = Append(@, Head(e.items))]
    BY <1>3 DEF NextCall, Local
  <2>4. Rest
    BY <1>0, <1>2, <2>1, <2>3 DEF Rest, IInv, TypeOK
  <2>5. Good(f)
    <3> HIDE DEF e, n
    <3>1. [e EXCEPT !.items = Tail(@)] \in Endpoint
      BY <1>0, <2>1 DEF Endpoint
    <3>2. f = [[e EXCEPT !.items = Tail(@)] EXCEPT !.consumed = n]
      BY <1>0 DEF Endpoint
    <3> DEFINE h == [e EXCEPT !.items = Tail(@)]
    <3>3. /\ Same(e, f) /\ f.link = e.link /\ f.writer = e.writer
      BY <1>0 DEF Endpoint, Same
    <3> HIDE DEF h
    <3>4. h \in Endpoint => [h EXCEPT !.consumed = n] \in Endpoint
      BY <2>2 DEF Endpoint
    <3>5. f \in Endpoint
      BY <3>1, <3>2, <3>4 DEF h
    <3> HIDE DEF f
    <3> QED
      BY <1>0, <3>3, <3>5, SameGood
  <2> HIDE DEF e, f, acks
  <2> QED
    BY <1>0, <1>1, <2>3, <2>4, <2>5, ExchangeIInv DEF e
<1>4. CASE e.items = <<>>
  <2> DEFINE r == IF e.readClosed THEN "done" ELSE "waiting"
             f == [e EXCEPT !.consumed = 0, !.reader = r]
  <2>1. Exchange(s, e.link, f, acks, FALSE) /\ UNCHANGED got
    BY <1>4 DEF NextCall, Local
  <2>2. Rest
    BY <1>0, <1>2, <2>1
  <2>3. Good(f)
    <3> HIDE DEF e
    <3>1. [e EXCEPT !.consumed = 0] \in Endpoint
      BY <1>0 DEF Endpoint
    <3>2. f = [[e EXCEPT !.consumed = 0] EXCEPT !.reader = r]
      BY <1>0 DEF Endpoint
    <3>3. /\ f.status = e.status /\ f.writeStatus = e.writeStatus /\ f.link = e.link
          /\ f.writer = e.writer /\ f.inFlight = e.inFlight
          /\ f.readClosed = e.readClosed /\ f.reader = r
          /\ f.sent = e.sent /\ f.submitted = e.submitted
      BY <1>0 DEF Endpoint
    <3> DEFINE h == [e EXCEPT !.consumed = 0]
    <3>4. h \in Endpoint => [h EXCEPT !.reader = r] \in Endpoint
      <4> HIDE DEF h
      <4> QED
        BY DEF Endpoint
    <3>5. f \in Endpoint
      BY <3>1, <3>2, <3>4
    <3> HIDE DEF f
    <3> QED
      BY <1>0, <3>3, <3>5 DEF Good, ReaderOf, EndedOf, BoundOf, WorkOf
  <2> HIDE DEF e, f, acks
  <2> QED
    BY <1>0, <1>1, <2>1, <2>2, <2>3, ExchangeIInv DEF e
<1> QED
  BY <1>3, <1>4
-----------------------------------------------------------------------------
(* The writer's steps.                                                      *)

\* The writer fails, or starts to wait, while the stream allows it.
LEMMA WriterWaitsIInv ==
    ASSUME IInv, NEW s \in Side,
           WriterFails(s) \/ WaitForPeer(s) \/ WaitForFlowWindow(s)
    PROVE  IInv'
<1> DEFINE e(w) == [ep[s] EXCEPT !.writer = w]
<1>0. Good(ep[s]) /\ ep[s] \in Endpoint /\ ep \in [Side -> Endpoint]
      /\ (UNCHANGED <<got, early, forgiven>> => Rest)
  BY ObjectFacts
<1>1. PICK w \in {"failed", "waitPeer", "waitFlow"} :
        /\ ep' = [ep EXCEPT ![s].writer = w]
        /\ w # "failed" => ep[s].status = "open"
        /\ UNCHANGED <<wire, dead, got, early, forgiven>>
  BY DEF WriterFails, WaitForPeer, WaitForFlowWindow, account
<1>2. ep' = [ep EXCEPT ![s] = e(w)]
  BY <1>0, <1>1
<1>3. e(w) \in Endpoint /\ Same(ep[s], e(w)) /\ e(w).link = ep[s].link /\ e(w).writer = w
  BY <1>0, <1>1 DEF Endpoint, Same
<1> HIDE DEF e
<1>4. Good(e(w))
  BY <1>0, <1>1, <1>3 DEF Good, Same, ReaderOf, EndedOf, BoundOf, WorkOf
<1> QED
  BY <1>0, <1>1, <1>2, <1>4, QuietIInv

\* The writer's next chunk has a size.
LEMMA ChunkSizeFacts ==
    ASSUME IInv, NEW s \in Side, HasWork(s)
    PROVE  /\ ep[s].sent + 1 \in 1 .. MaxChunks
           /\ ChunkSize(s) \in Nat /\ ChunkSize(s) = SizeOf[ep[s].sent + 1]
           /\ Credit(ep[s], ChunkSize(s)) \in Nat
           /\ Credit(ep[s], ChunkSize(s)) <= ChunkSize(s)
<1>1. ep[s].sent \in 0 .. MaxChunks /\ ep[s].submitted \in 0 .. MaxChunks
      /\ ep[s].sent < ep[s].submitted /\ MaxChunks \in Nat
  BY ObjectFacts, ChunkAssumption DEF HasWork, Endpoint
<1>2. ep[s].sent + 1 \in 1 .. MaxChunks
  BY <1>1
<1> QED
  BY <1>2, SizeFacts DEF ChunkSize, Credit

\* An admitted chunk keeps the counted bytes within their bound: that is what
\* the window loop waits for.
LEMMA TakenGood ==
    ASSUME IInv, NEW s \in Side, Admitted(s)
    PROVE  /\ Good(Taken(s)) /\ Taken(s).link = ep[s].link
           /\ Taken(s).sent = ep[s].sent /\ Taken(s).status = "open"
<1> DEFINE e == ep[s]
           b == ChunkSize(s)
           i == e.inFlight + Credit(e, b)
<1>1. HasWork(s) /\ e.status = "open" /\ ~MustWait(e, b)
  BY DEF Admitted
<1>2. b \in Nat /\ b = SizeOf[e.sent + 1] /\ e.sent + 1 \in 1 .. MaxChunks
      /\ Credit(e, b) \in Nat
  BY <1>1, ChunkSizeFacts
<1>3. e \in Endpoint /\ e.inFlight \in Int /\ Good(e)
  BY ObjectFacts DEF Endpoint
<1>4. i \in Int
  BY <1>2, <1>3
<1>5. i <= Window \/ \E k \in 1 .. MaxChunks : i <= SizeOf[k]
  <2>1. CASE ~e.flowEnabled
    BY <1>3, <2>1 DEF Good, BoundOf, Credit
  <2>2. CASE e.flowEnabled /\ e.inFlight > 0
    BY <1>1, <1>2, <1>3, <2>2, WindowAssumption DEF MustWait, Credit
  <2>3. CASE e.flowEnabled /\ ~(e.inFlight > 0)
    <3>1. i <= SizeOf[e.sent + 1]
      BY <1>2, <1>3, <2>3 DEF Credit
    <3> QED
      BY <1>2, <3>1
  <2> QED
    BY <2>1, <2>2, <2>3
<1>6. Taken(s) = [e EXCEPT !.inFlight = i]
  BY <1>3 DEF Taken
<1> HIDE DEF e, i
<1>7. /\ [e EXCEPT !.inFlight = i] \in Endpoint
      /\ [e EXCEPT !.inFlight = i].inFlight = i
      /\ [e EXCEPT !.inFlight = i].link = e.link
      /\ [e EXCEPT !.inFlight = i].sent = e.sent
      /\ [e EXCEPT !.inFlight = i].status = e.status
      /\ [e EXCEPT !.inFlight = i].readClosed = e.readClosed
      /\ [e EXCEPT !.inFlight = i].reader = e.reader
      /\ [e EXCEPT !.inFlight = i].writer = e.writer
      /\ [e EXCEPT !.inFlight = i].submitted = e.submitted
  BY <1>3, <1>4 DEF Endpoint
<1>8. Good([e EXCEPT !.inFlight = i])
  BY <1>1, <1>3, <1>5, <1>7 DEF Good, ReaderOf, EndedOf, BoundOf, WorkOf
<1> QED
  BY <1>1, <1>6, <1>7, <1>8 DEF e

\* The channel accepts the chunk of a good object.
LEMMA AcceptIInv ==
    ASSUME IInv, NEW s \in Side, NEW e, Good(e), e.link = ep[s].link,
           e.sent + 1 \in 1 .. MaxChunks, Accept(s, e), Rest
    PROVE  IInv'
<1> DEFINE f == [e EXCEPT !.sent = @ + 1, !.writer = "run", !.bufGen = 0]
           x == [e EXCEPT !.sent = @ + 1]
           y == [x EXCEPT !.writer = "run"]
           z == [y EXCEPT !.bufGen = 0]
<1>1. e \in Endpoint /\ e.sent + 1 \in 0 .. MaxChunks
  BY DEF Good, Endpoint
<1>2. x \in Endpoint
  BY <1>1 DEF Endpoint
<1>3. f = z
  BY <1>1 DEF Endpoint
<1>4. y \in Endpoint
  <2> HIDE DEF x
  <2> QED
    BY <1>2 DEF Endpoint
<1>5. z \in Endpoint
  <2> HIDE DEF y
  <2> QED
    BY <1>4, ConstantFacts DEF Endpoint
<1>6. /\ f.status = e.status /\ f.writeStatus = e.writeStatus
      /\ f.readClosed = e.readClosed /\ f.reader = e.reader
      /\ f.inFlight = e.inFlight /\ f.link = e.link /\ f.writer = "run"
  BY <1>1 DEF Endpoint
<1> HIDE DEF f, z
<1>7. Good(f)
  BY <1>3, <1>5, <1>6 DEF Good, ReaderOf, EndedOf, BoundOf, WorkOf
<1>8. <<[t |-> "data", n |-> e.sent + 1]>> \in Seq(Frame)
  BY DEF Frame
<1>9. Exchange(s, ep[s].link, f, <<[t |-> "data", n |-> e.sent + 1]>>, FALSE)
  BY DEF Accept, Local, f
<1> QED
  BY <1>7, <1>8, <1>9, ObjectFacts, ExchangeIInv

\* The writer hands the chunk to the channel at once.
LEMMA SendNowIInv ==
    ASSUME IInv, NEW s \in Side, SendNow(s)
    PROVE  IInv'
<1>1. HasWork(s) /\ Good(Taken(s)) /\ Taken(s).link = ep[s].link
      /\ Taken(s).sent = ep[s].sent
  BY TakenGood DEF SendNow, Admitted
<1>2. Taken(s).sent + 1 \in 1 .. MaxChunks
  BY <1>1, ChunkSizeFacts
<1>3. Accept(s, Taken(s))
  BY DEF SendNow
<1>4. Rest
  <2>1. Uncounted(ep[s], ChunkSize(s)) \in Int
    BY <1>1, ChunkSizeFacts DEF Uncounted
  <2> QED
    BY <2>1 DEF SendNow, Rest, IInv, TypeOK
<1> QED
  BY <1>1, <1>2, <1>3, <1>4, AcceptIInv

\* The channel's buffer is full: the writer waits inside sendFrame.
LEMMA SendBuffersIInv ==
    ASSUME IInv, NEW s \in Side, SendBuffers(s)
    PROVE  IInv'
<1> DEFINE t == Taken(s)
           x == [t EXCEPT !.writer = "buffering"]
           f == [t EXCEPT !.writer = "buffering", !.bufGen = ep[s].link]
<1>1. HasWork(s) /\ Good(t) /\ t \in Endpoint /\ t.sent = ep[s].sent
      /\ t.status = "open"
  BY TakenGood DEF SendBuffers, Admitted, Good
<1>2. t.submitted = ep[s].submitted
  BY ObjectFacts DEF Taken, Endpoint
<1>3. ep[s].link \in Gen /\ ep[s].sent < ep[s].submitted
  BY <1>1, ObjectFacts DEF HasWork
<1> HIDE DEF t
<1>4. x \in Endpoint
  BY <1>1 DEF Endpoint
<1>5. f = [x EXCEPT !.bufGen = ep[s].link]
  BY <1>1 DEF Endpoint
<1>6. f \in Endpoint
  <2> HIDE DEF x
  <2>1. [x EXCEPT !.bufGen = ep[s].link] \in Endpoint
    BY <1>3, <1>4 DEF Endpoint
  <2> QED
    BY <1>5, <2>1
<1>7. Same(t, f) /\ f.link = t.link
  BY <1>1 DEF Endpoint, Same
<1>8. ep' = [ep EXCEPT ![s] = f] /\ UNCHANGED <<wire, dead, got, forgiven>>
  BY DEF SendBuffers, t
<1>9. Rest
  <2>1. Uncounted(ep[s], ChunkSize(s)) \in Int
    BY <1>1, ChunkSizeFacts DEF Uncounted
  <2> QED
    BY <2>1 DEF SendBuffers, Rest, IInv, TypeOK
<1> HIDE DEF f
<1>10. Good(f)
  BY <1>1, <1>2, <1>3, <1>6, <1>7 DEF Good, Same, ReaderOf, EndedOf, BoundOf, WorkOf
<1> QED
  BY <1>8, <1>9, <1>10, QuietIInv

\* The buffer drains and the channel takes the chunk.
LEMMA BufferDrainsIInv ==
    ASSUME IInv, NEW s \in Side, BufferDrains(s)
    PROVE  IInv'
<1>1. Good(ep[s]) /\ ep[s].writer = "buffering" /\ Accept(s, ep[s]) /\ Rest
  BY ObjectFacts DEF BufferDrains, account
<1>2. ep[s].sent + 1 \in 1 .. MaxChunks
  BY <1>1, NextChunk
<1> QED
  BY <1>1, <1>2, AcceptIInv

\* The catch block of send().
LEMMA SendErrorGood ==
    ASSUME NEW e, Good(e), NEW b \in Nat
    PROVE  Good(SendError(e, b)) /\ SendError(e, b).link = e.link
<1> DEFINE i == e.inFlight - Credit(e, b)
           x == [e EXCEPT !.inFlight = i]
           y == [x EXCEPT !.bufGen = 0]
           z == [y EXCEPT !.writer = "run"]
           back == [e EXCEPT !.inFlight = @ - Credit(e, b), !.bufGen = 0,
                             !.writer = "run"]
<1>1. e \in Endpoint /\ e.inFlight \in Int /\ i \in Int /\ i <= e.inFlight
  <2>1. e \in Endpoint /\ e.inFlight \in Int
    BY DEF Good, Endpoint
  <2>2. Credit(e, b) \in Nat
    BY DEF Credit
  <2> QED
    BY <2>1, <2>2
<1>2. x \in Endpoint
  <2> HIDE DEF i
  <2> QED
    BY <1>1 DEF Endpoint
<1>3. y \in Endpoint
  <2> HIDE DEF x
  <2> QED
    BY <1>2, ConstantFacts DEF Endpoint
<1>4. z \in Endpoint
  <2> HIDE DEF y
  <2> QED
    BY <1>3 DEF Endpoint
<1>5. back = z
  BY <1>1 DEF Endpoint
<1>6. /\ back.status = e.status /\ back.writeStatus = e.writeStatus
      /\ back.readClosed = e.readClosed /\ back.reader = e.reader
      /\ back.inFlight = i /\ back.link = e.link /\ back.writer = "run"
  BY <1>1 DEF Endpoint
<1> HIDE DEF back, z
<1>7. BoundOf(back)
  BY <1>1, <1>6, WindowAssumption, SizeFacts DEF Good, BoundOf
<1> HIDE DEF i
<1>8. Good(back)
  BY <1>4, <1>5, <1>6, <1>7 DEF Good, ReaderOf, EndedOf, WorkOf
<1>9. CASE e.status # "open" \/ e.writeStatus = "closed"
  <2> DEFINE f == [back EXCEPT !.writer = "failed"]
  <2>1. SendError(e, b) = f
    BY <1>9 DEF SendError, back
  <2>2. back \in Endpoint
    BY <1>4, <1>5
  <2>3. f \in Endpoint /\ Same(back, f) /\ f.link = back.link /\ f.writer = "failed"
    BY <2>2 DEF Endpoint, Same
  <2> HIDE DEF f
  <2> QED
    BY <1>6, <1>8, <2>1, <2>3, SameGood
<1>10. CASE ~(e.status # "open" \/ e.writeStatus = "closed")
  <2>1. SendError(e, b) = PeerDisconnected(back)
    BY <1>10 DEF SendError, back
  <2> QED
    BY <1>6, <1>8, <2>1, PeerDisconnectedGood
<1> QED
  BY <1>9, <1>10

\* sendFrame rejects.
LEMMA SendRejectsIInv ==
    ASSUME IInv, NEW s \in Side, SendRejects(s)
    PROVE  IInv'
<1> DEFINE b == ChunkSize(s)
           taken == IF ep[s].writer = "buffering" THEN ep[s] ELSE Taken(s)
<1>1. b \in Nat /\ Uncounted(ep[s], b) \in Int /\ Good(taken) /\ taken.link = ep[s].link
  <2>1. CASE ep[s].writer = "buffering"
    <3>1. Good(ep[s]) /\ ep[s].sent + 1 \in 1 .. MaxChunks
      BY <2>1, ObjectFacts, ChunkAssumption DEF Good, Endpoint, WorkOf
    <3>2. b \in Nat
      BY <3>1, SizeFacts DEF ChunkSize
    <3> QED
      BY <2>1, <3>1, <3>2 DEF Uncounted, Credit
  <2>2. CASE ep[s].writer # "buffering"
    <3>1. Admitted(s) /\ HasWork(s)
      BY <2>2 DEF SendRejects, Admitted
    <3> QED
      BY <2>2, <3>1, TakenGood, ChunkSizeFacts DEF Uncounted
  <2> QED
    BY <2>1, <2>2
<1>2. Good(SendError(taken, b))
  BY <1>1, SendErrorGood
<1>3. Exchange(s, ep[s].link, SendError(taken, b), <<>>, FALSE)
  BY DEF SendRejects, Local
<1>4. Rest
  BY <1>1 DEF SendRejects, Rest, IInv, TypeOK
<1>5. ep[s].link \in Gen /\ <<>> \in Seq(Frame)
  BY ObjectFacts
<1> HIDE DEF b, taken
<1> QED
  BY <1>2, <1>3, <1>4, <1>5, ExchangeIInv
-----------------------------------------------------------------------------
(* Arriving frames.                                                         *)

\* The first frame on the channel a side is linked to.
LEMMA ArrivingFacts ==
    ASSUME IInv, NEW s \in Side, NEW t, Arrives(s, t)
    PROVE  /\ wire[Other(s)][ep[s].link] # <<>>
           /\ Head(Arriving(s)) \in Frame /\ Head(Arriving(s)).t = t
<1>1. wire[Other(s)][ep[s].link] \in Seq(Frame)
  BY ObjectFacts, ConstantFacts DEF IInv, TypeOK
<1> QED
  BY <1>1 DEF Arrives, Arriving

\* Handling a frame with a good object as the result.
LEMMA HandleIInv ==
    ASSUME IInv, NEW s \in Side, NEW t, Arrives(s, t), NEW e, Good(e),
           NEW out \in Seq(Frame), Handle(s, e, out), Rest
    PROVE  IInv'
<1>1. wire[Other(s)][ep[s].link] # <<>> /\ ep[s].link \in Gen
  BY ArrivingFacts, ObjectFacts
<1>2. Exchange(s, ep[s].link, e, out, TRUE)
  BY DEF Handle
<1> QED
  BY <1>1, <1>2, ExchangeIInv

\* receiveData: the chunk goes to the waiting reader or to the queue.
LEMMA ReceiveDataIInv ==
    ASSUME IInv, NEW s \in Side, ReceiveData(s)
    PROVE  IInv'
<1> DEFINE e == ep[s]
           n == Head(Arriving(s)).n
           item == [n |-> n, g |-> e.link]
<1>1. Arrives(s, "data") /\ UNCHANGED <<early, forgiven>>
  BY DEF ReceiveData, account
<1>2. n \in 1 .. MaxChunks
  BY <1>1, ArrivingFacts DEF Frame
<1>3. Good(e) /\ e \in Endpoint /\ e.link \in Gen /\ got[s] \in Seq(Item)
      /\ e.items \in Seq(Item) /\ <<>> \in Seq(Frame)
      /\ (UNCHANGED <<got, early, forgiven>> => Rest)
  BY ObjectFacts DEF Endpoint
<1>4. item \in Item /\ SizeOf[item.n] \in Nat
  BY <1>2, <1>3, SizeFacts DEF Item
<1>5. CASE e.readClosed
  <2>1. Handle(s, e, <<>>) /\ Rest
    BY <1>1, <1>3, <1>5 DEF ReceiveData
  <2> QED
    BY <1>1, <1>3, <2>1, HandleIInv
<1>6. CASE ~e.readClosed /\ e.reader = "waiting"
  <2> DEFINE m == SizeOf[item.n]
             x == [e EXCEPT !.reader = "busy"]
             f == [e EXCEPT !.reader = "busy", !.consumed = m]
  <2>1. Handle(s, f, <<>>) /\ got' = [got EXCEPT ![s] = Append(@, item)]
    BY <1>6 DEF ReceiveData
  <2>2. Rest
    BY <1>1, <1>3, <1>4, <2>1 DEF Rest, IInv, TypeOK
  <2> HIDE DEF item, e
  <2>3. x \in Endpoint
    BY <1>3 DEF Endpoint
  <2>4. f = [x EXCEPT !.consumed = m]
    BY <1>3 DEF Endpoint
  <2>5. [x EXCEPT !.consumed = m] \in Endpoint
    <3> HIDE DEF x
    <3> QED
      BY <1>4, <2>3 DEF Endpoint
  <2>6. /\ f.status = e.status /\ f.writeStatus = e.writeStatus
        /\ f.readClosed = e.readClosed /\ f.reader = "busy"
        /\ f.inFlight = e.inFlight /\ f.link = e.link /\ f.writer = e.writer
        /\ f.sent = e.sent /\ f.submitted = e.submitted
    BY <1>3 DEF Endpoint
  <2> HIDE DEF f, x
  <2>7. Good(f)
    BY <1>3, <2>4, <2>5, <2>6 DEF Good, ReaderOf, EndedOf, BoundOf, WorkOf
  <2> QED
    BY <1>1, <1>3, <2>1, <2>2, <2>7, HandleIInv
<1>7. CASE ~e.readClosed /\ e.reader # "waiting"
  <2> DEFINE q == Enqueue(e.items, item)
             f == [e EXCEPT !.items = q]
  <2>1. Handle(s, [e EXCEPT !.items = Enqueue(@, item)], <<>>) /\ UNCHANGED got
    BY <1>7 DEF ReceiveData
  <2>2. Rest
    BY <1>1, <1>3, <2>1
  <2> HIDE DEF item, e
  <2>3. q \in Seq(Item)
    BY <1>3, <1>4 DEF Enqueue
  <2>4. f = [e EXCEPT !.items = Enqueue(@, item)]
    BY <1>3 DEF Endpoint
  <2> HIDE DEF q
  <2>5. f \in Endpoint /\ Same(e, f) /\ f.link = e.link /\ f.writer = e.writer
    BY <1>3, <2>3 DEF Endpoint, Same
  <2> HIDE DEF f
  <2>6. Good(f)
    BY <1>3, <2>5, SameGood
  <2> QED
    BY <1>1, <1>3, <2>1, <2>2, <2>4, <2>6, HandleIInv
<1> QED
  BY <1>5, <1>6, <1>7

\* receiveControl.
LEMMA ReceiveControlIInv ==
    ASSUME IInv, NEW s \in Side,
           \/ ReceiveEof(s) \/ ReceiveAbort(s) \/ ReceiveFlow(s)
           \/ ReceiveResume(s) \/ ReceiveAck(s)
    PROVE  IInv'
<1>0. Good(ep[s]) /\ ep[s] \in Endpoint /\ ep[s].inFlight \in Int
      /\ <<>> \in Seq(Frame) /\ <<Ctl("flow")>> \in Seq(Frame)
      /\ (UNCHANGED <<got, early, forgiven>> => Rest)
  BY ObjectFacts DEF Endpoint
<1>1. CASE ReceiveEof(s)
  <2>1. Good(MaybeFinalize(EndRead(ep[s])))
    BY <1>0, EndReadGood
  <2>2. Arrives(s, "eof") /\ Handle(s, MaybeFinalize(EndRead(ep[s])), <<>>) /\ Rest
    BY <1>0, <1>1 DEF ReceiveEof, account
  <2> QED
    BY <1>0, <2>1, <2>2, HandleIInv
<1>2. CASE ReceiveAbort(s)
  <2>1. Good(Finalize(Fail(ShutDown(ep[s]))))
    BY <1>0, BothEndedGood
  <2>2. /\ Arrives(s, "abort") /\ Handle(s, Finalize(Fail(ShutDown(ep[s]))), <<>>)
        /\ Rest
    BY <1>0, <1>2 DEF ReceiveAbort, account
  <2> QED
    BY <1>0, <2>1, <2>2, HandleIInv
<1>3. CASE ReceiveFlow(s)
  <2> DEFINE f == [ep[s] EXCEPT !.flowEnabled = TRUE]
  <2>1. f \in Endpoint /\ Same(ep[s], f) /\ f.link = ep[s].link /\ f.writer = ep[s].writer
    BY <1>0 DEF Endpoint, Same
  <2>2. Arrives(s, "flow") /\ Handle(s, f, <<>>) /\ Rest
    BY <1>0, <1>3 DEF ReceiveFlow, account
  <2> HIDE DEF f
  <2>3. Good(f)
    BY <1>0, <2>1, SameGood
  <2> QED
    BY <1>0, <2>2, <2>3, HandleIInv
<1>4. CASE ReceiveResume(s)
  <2> DEFINE f == WakeFlow([ep[s] EXCEPT !.inFlight = 0])
  <2>1. Good(f)
    BY <1>0, 0 \in Nat, AcknowledgeGood
  <2>2. Arrives(s, "resume") /\ Handle(s, f, <<Ctl("flow")>>)
    BY <1>4 DEF ReceiveResume
  <2>3. Rest
    BY <1>0, <1>4 DEF ReceiveResume, Rest, IInv, TypeOK
  <2> HIDE DEF f
  <2> QED
    BY <1>0, <2>1, <2>2, <2>3, HandleIInv
<1>5. CASE ReceiveAck(s)
  <2> DEFINE b == Head(Arriving(s)).bytes
  <2>1. Arrives(s, "ack") /\ Handle(s, Acknowledge(ep[s], b), <<>>) /\ Rest
    BY <1>0, <1>5 DEF ReceiveAck, account
  <2>2. b \in Nat
    BY <2>1, ArrivingFacts DEF Frame
  <2> HIDE DEF b
  <2>3. Good(Acknowledge(ep[s], b))
    BY <1>0, <2>2, AcknowledgeGood
  <2> QED
    BY <1>0, <2>1, <2>3, HandleIInv
<1> QED
  BY <1>1, <1>2, <1>3, <1>4, <1>5
-----------------------------------------------------------------------------
(* Losing and rebinding the channel.                                        *)

\* The channel is lost, or the grace period ends.
LEMMA LosePeerIInv ==
    ASSUME IInv, NEW s \in Side, LosePeer(s) \/ GraceExpires(s)
    PROVE  IInv'
<1>0. Good(ep[s]) /\ ep[s] \in Endpoint /\ ep[s].link \in Gen /\ <<>> \in Seq(Frame)
      /\ (UNCHANGED <<got, early, forgiven>> => Rest)
  BY ObjectFacts
<1>1. CASE LosePeer(s)
  <2> DEFINE f == [ep[s] EXCEPT !.link = 0]
  <2>1. f \in Endpoint /\ Same(ep[s], f) /\ f.link = 0 /\ f.writer = ep[s].writer
    BY <1>0, ConstantFacts DEF Endpoint, Same
  <2>2. Exchange(s, ep[s].link, PeerDisconnected(f), <<>>, FALSE) /\ Rest
    BY <1>0, <1>1 DEF LosePeer, Local, account
  <2> HIDE DEF f
  <2>3. Good(f)
    BY <1>0, <2>1 DEF Good, Same, ReaderOf, EndedOf, BoundOf, WorkOf
  <2>4. Good(PeerDisconnected(f))
    BY <2>3, PeerDisconnectedGood
  <2> QED
    BY <1>0, <2>2, <2>4, ExchangeIInv
<1>2. CASE GraceExpires(s)
  <2>1. Exchange(s, ep[s].link, PeerLeft(ep[s]), <<>>, FALSE) /\ Rest
    BY <1>0, <1>2 DEF GraceExpires, Local, account
  <2>2. Good(PeerLeft(ep[s]))
    BY <1>0, BothEndedGood
  <2> QED
    BY <1>0, <2>1, <2>2, ExchangeIInv
<1> QED
  BY <1>1, <1>2

\* What a rebinding sends is a sequence of frames.
LEMMA GreetingFacts ==
    ASSUME NEW e PROVE Greeting(e) \in Seq(Frame)
<1>1. <<>> \in Seq(Frame)
  OBVIOUS
<1>2. Ctl("resume") \in Frame /\ Ctl("flow") \in Frame
  BY CtlFrames
<1>3. <<Ctl("resume"), Ctl("flow")>> \in Seq(Frame)
  BY <1>2
<1> QED
  BY <1>1, <1>3 DEF Greeting

\* claimPeer and activateStream.
LEMMA RebindIInv ==
    ASSUME IInv, \/ Claim
                 \/ \E g \in Gen : Activate(g) \/ RefuseActivation(g)
    PROVE  IInv'
<1>1. CASE Claim
  <2> DEFINE g == NextGen
             e == Rebound("client", g)
             w == <<Ctl("ready")>> \o Greeting(ep["client"])
  <2>1. g \in Gen
    <3>1. dead["client"] \subseteq 0 .. MaxGen
      BY ConstantFacts DEF IInv, TypeOK, Gen
    <3>2. IsFiniteSet(0 .. MaxGen)
      BY GenAssumption, FS_Interval
    <3>3. Cardinality(dead["client"]) \in Nat
      BY <3>1, <3>2, FS_Subset, FS_CardinalityType
    <3>4. g <= MaxGen
      BY <1>1 DEF Claim
    <3> QED
      BY <3>3, <3>4, GenAssumption DEF NextGen, Gen
  <2>2. Good(ep["client"]) /\ ep["client"].status = "open"
    BY <1>1, ObjectFacts, ConstantFacts DEF Claim
  <2>3. Good(e)
    BY <2>1, <2>2, ReboundGood DEF Rebound
  <2>4. w \in Seq(Frame)
    <3>1. <<Ctl("ready")>> \in Seq(Frame)
      BY CtlFrames
    <3> QED
      BY <3>1, GreetingFacts
  <2>5. /\ ep' = [ep EXCEPT !["client"] = e]
        /\ wire' = [wire EXCEPT !["client"][g] = w]
        /\ forgiven' = [forgiven EXCEPT !["client"] = @ + ep["client"].inFlight]
        /\ UNCHANGED <<dead, got, early>>
    BY <1>1 DEF Claim
  <2> HIDE DEF e, w, g
  <2>6. ep' \in [Side -> Endpoint] /\ \A t \in Side : Good(ep'[t])
    BY <2>3, <2>5, UpdateGood, ConstantFacts
  <2>7. wire' \in [Side -> [Gen -> Seq(Frame)]]
    BY <2>1, <2>4, <2>5, ConstantFacts DEF IInv, TypeOK
  <2>8. forgiven' \in [Side -> Int]
    <3>1. ep["client"].inFlight \in Int
      BY <2>2 DEF Good, Endpoint
    <3> QED
      BY <2>5, <3>1, ConstantFacts DEF IInv, TypeOK
  <2> QED
    BY <2>5, <2>6, <2>7, <2>8 DEF IInv, TypeOK
<1>2. ASSUME NEW g \in Gen, Activate(g) PROVE IInv'
  <2> DEFINE e == Rebound("server", g)
             mine == wire["server"][g]
             w == IF g \in dead["client"] THEN mine ELSE mine \o Greeting(ep["server"])
             rest == Tail(wire["client"][g])
  <2>1. Good(ep["server"]) /\ ep["server"].status = "open"
    BY <1>2, ObjectFacts, ConstantFacts DEF Activate, MayActivate
  <2>2. Good(e)
    BY <2>1, ReboundGood DEF Rebound
  <2>3. w \in Seq(Frame) /\ rest \in Seq(Frame)
    <3>1. mine \in Seq(Frame) /\ wire["client"][g] \in Seq(Frame)
          /\ wire["client"][g] # <<>>
      BY <1>2, ConstantFacts DEF IInv, TypeOK, Activate, Readies
    <3> QED
      BY <3>1, GreetingFacts
  <2>4. /\ ep' = [ep EXCEPT !["server"] = e]
        /\ wire' = [wire EXCEPT !["client"][g] = rest, !["server"][g] = w]
        /\ forgiven' = [forgiven EXCEPT !["server"] = @ + ep["server"].inFlight]
        /\ UNCHANGED <<dead, got, early>>
    BY <1>2, ConstantFacts DEF Activate, IInv, TypeOK
  <2> HIDE DEF e, w, rest
  <2>5. ep' \in [Side -> Endpoint] /\ \A t \in Side : Good(ep'[t])
    BY <2>2, <2>4, UpdateGood, ConstantFacts
  <2>6. wire' \in [Side -> [Gen -> Seq(Frame)]]
    BY <2>3, <2>4, ConstantFacts DEF IInv, TypeOK
  <2>7. forgiven' \in [Side -> Int]
    <3>1. ep["server"].inFlight \in Int
      BY <2>1 DEF Good, Endpoint
    <3> QED
      BY <2>4, <3>1, ConstantFacts, SMTT(30) DEF IInv, TypeOK
  <2> QED
    BY <2>4, <2>5, <2>6, <2>7 DEF IInv, TypeOK
<1>3. ASSUME NEW g \in Gen, RefuseActivation(g) PROVE IInv'
  <2>1. wire' \in [Side -> [Gen -> Seq(Frame)]]
    BY <1>3, ConstantFacts DEF RefuseActivation, IInv, TypeOK
  <2>2. dead' \in [Side -> SUBSET Gen]
    BY <1>3, ConstantFacts DEF RefuseActivation, IInv, TypeOK
  <2> QED
    BY <1>3, <2>1, <2>2 DEF RefuseActivation, account, IInv, TypeOK
<1> QED
  BY <1>1, <1>2, <1>3

-----------------------------------------------------------------------------
\* Every step preserves the invariant.
LEMMA StepIInv == IInv /\ [Next]_vars => IInv'
<1> SUFFICES ASSUME IInv, [Next]_vars PROVE IInv'
  OBVIOUS
<1>1. CASE UNCHANGED vars
  BY <1>1 DEF vars, IInv, TypeOK
<1>2. ASSUME NEW s \in Side, AppSend(s) \/ AppClose(s) \/ AppAbort(s) \/ NextCall(s)
      PROVE  IInv'
  BY <1>2, AppSendIInv, AbortIInv, NextCallIInv
<1>3. ASSUME NEW s \in Side, CloseCompletes(s) \/ CloseRejects(s) PROVE IInv'
  BY <1>3, CloseIInv
<1>4. ASSUME NEW s \in Side, Write(s) \/ BufferDrains(s) \/ SendRejects(s)
      PROVE  IInv'
  BY <1>4, WriterWaitsIInv, SendNowIInv, SendBuffersIInv, BufferDrainsIInv,
     SendRejectsIInv DEF Write
<1>5. ASSUME NEW s \in Side, Receive(s) PROVE IInv'
  BY <1>5, ReceiveDataIInv, ReceiveControlIInv DEF Receive
<1>6. ASSUME NEW s \in Side, LosePeer(s) \/ GraceExpires(s) PROVE IInv'
  BY <1>6, LosePeerIInv
<1>7. ASSUME Claim \/ \E g \in Gen : Activate(g) \/ RefuseActivation(g) PROVE IInv'
  BY <1>7, RebindIInv
<1> QED
  BY <1>1, <1>2, <1>3, <1>4, <1>5, <1>6, <1>7 DEF Next

\* The invariant holds in every reachable state.
THEOREM Invariance == Spec => []IInv
<1>1. Init => IInv
  BY InitIInv
<1>2. IInv /\ [Next]_vars => IInv'
  BY StepIInv
<1> QED
  BY <1>1, <1>2, PTL DEF Spec

\* Type correctness of the two streams and of what travels between them.
THEOREM TypeCorrect == Spec => []TypeOK
<1>1. IInv => TypeOK
  BY DEF IInv
<1> QED
  BY <1>1, Invariance, PTL

\* A stream that has ended (eof both ways, abort of either side, grace expiry)
\* leaves neither its writer nor its reader suspended, and holds no peer.
THEOREM NobodyStranded == Spec => []NoStrandedWaiter
<1>1. IInv => NoStrandedWaiter
  BY DEF IInv, Good, ReaderOf, EndedOf, NoStrandedWaiter
<1> QED
  BY <1>1, Invariance, PTL

\* The bytes that count against the flow window never pass it, except by one
\* chunk that is itself larger.
THEOREM WindowRespected == Spec => []InFlightBounded
<1>1. IInv => InFlightBounded
  BY DEF IInv, Good, BoundOf, InFlightBounded
<1> QED
  BY <1>1, Invariance, PTL

-----------------------------------------------------------------------------
(* In which order the chunks of one side reach the reader of the other, over  *)
(* any number of data channels that fail, are replaced and are activated      *)
(* late; and what an eof means.                                               *)

\* The newest channel the client has claimed.
Top == IF ep["client"].link # 0 THEN ep["client"].link
       ELSE Cardinality(dead["client"]) - 1

\* The client takes one channel after the other; nothing is sent on a channel
\* before the client has it, or on none. A READY is the first frame of a channel that the
\* server has not yet activated. A closed peer is never linked again.
Channels ==
    /\ Top \in Nat
    /\ dead["client"] = IF ep["client"].link = 0 THEN 0 .. Top ELSE 0 .. (Top - 1)
    /\ dead["server"] \subseteq 0 .. Top /\ 0 \in dead["server"]
    /\ ep["server"].link <= Top
    /\ \A s \in Side : ep[s].link # 0 => ep[s].link \notin dead[s]
    /\ \A s \in Side, g \in Gen : g = 0 \/ g > Top => wire[s][g] = <<>>
    /\ \A g \in Gen : \A i \in 1 .. Len(wire["client"][g]) :
          wire["client"][g][i].t = "ready" => i = 1 /\ g # ep["server"].link

\* A reader that waits has nothing in its queue.
Waits == \A s \in Side : ep[s].reader = "waiting" => ep[s].items = <<>>

\* The channels side s has had; they are those it gave up, and its link.
Had(s) == dead[s] \cup {ep[s].link}

\* The chunks among the frames of a channel.
Numbers(q) == {q[i].n : i \in {k \in 1 .. Len(q) : q[k].t = "data"}}
Increasing(q) ==
    \A i, j \in 1 .. Len(q) :
        i < j /\ q[i].t = "data" /\ q[j].t = "data" => q[i].n < q[j].n
Gapless(S) == \A a, b \in S : \A m \in a .. b : m \in S

\* The chunks on their way to s on channel g, and with them those its reader
\* has or will find.
Flight(s, g) == Numbers(wire[Other(s)][g])
Known(s) ==
    {x \in Item : x.n \in Flight(s, x.g) \/ \E i \in 1 .. Len(Stream(s)) : Stream(s)[i] = x}

\* The last chunk in the stream of s, and whether it came on channel g.
LastFrom(s, g) == Stream(s) # <<>> /\ Stream(s)[Len(Stream(s))].g = g
LastChunk(s) == Stream(s)[Len(Stream(s))].n

\* Nothing that is known was not sent, and a newer channel has newer chunks.
Sequenced(s) ==
    /\ \A x \in Known(s) : x.n <= ep[Other(s)].sent /\ x.g # 0 /\ x.g \in Had(Other(s))
    /\ \A x, y \in Known(s) : x.g < y.g => x.n < y.n

\* What was received: in blocks of one channel each, the current one last.
Received(s) ==
    /\ \A i \in 1 .. Len(Stream(s)) : Stream(s)[i].g \in Had(s)
    /\ \A i, j \in 1 .. Len(Stream(s)) : i < j =>
          /\ Stream(s)[i].g = Stream(s)[j].g => Stream(s)[i].n < Stream(s)[j].n
          /\ j = i + 1 /\ Stream(s)[i].g = Stream(s)[j].g => Stream(s)[j].n = Stream(s)[i].n + 1
          /\ Stream(s)[i].g = ep[s].link => Stream(s)[j].g = ep[s].link
          /\ s = "client" => Stream(s)[i].g <= Stream(s)[j].g

\* What is on its way on the link of s follows the last received chunk.
Follows(s) ==
    ~ep[s].readClosed /\ LastFrom(s, ep[s].link) =>
        /\ \A n \in Flight(s, ep[s].link) : LastChunk(s) < n
        /\ Flight(s, ep[s].link) # {} => LastChunk(s) + 1 \in Flight(s, ep[s].link)

\* The last chunk the other side sent is on its way to s on the link of the
\* other side, or, if none is, it is the last received.
Complete(s) ==
    LET o == Other(s)
        g == ep[o].link
    IN  g # 0 /\ g \notin dead[s] =>
          /\ Flight(s, g) # {} => ep[o].sent \in Flight(s, g)
          /\ Flight(s, g) = {} /\ ~ep[s].readClosed /\ LastFrom(s, g) =>
                LastChunk(s) = ep[o].sent

Ordered(s) ==
    /\ \A g \in Gen : Increasing(wire[Other(s)][g]) /\ Gapless(Flight(s, g))
    /\ Sequenced(s)
    /\ Received(s)
    /\ Follows(s)
    /\ Complete(s)

OInv == IInv /\ Channels /\ Waits /\ \A s \in Side : Ordered(s)

\* The eof among the frames of a channel: no chunk is behind it.
HasEof(q) == \E i \in 1 .. Len(q) : q[i].t = "eof"
Ended(q) == \A i, j \in 1 .. Len(q) : i < j /\ q[i].t = "eof" => q[j].t # "data"

\* The reader of s ends for an eof or with the stream; the other side sends its
\* eof behind everything that was submitted, and submits and sends no more.
Closing(s) ==
    LET o == Other(s)
    IN  /\ ep[s].reader = "done" => ep[s].readClosed
        /\ ep[s].readClosed => ep[o].eof = "sent" \/ ep[s].status = "closed"
        /\ \A g \in Gen : Ended(wire[o][g]) /\ (HasEof(wire[o][g]) => ep[o].eof = "sent")
        /\ ep[o].eof = "sent" => ep[o].sent = ep[o].submitted /\ ep[o].writeStatus = "closed"

\* While the first channel of s is its only one, its stream is a prefix of the
\* chunks sent; the rest is on its way, as long as the other side has not gone
\* on to a newer channel without an eof on this one.
FirstChannel(s) ==
    LET o == Other(s)
        received == Len(Stream(s))
    IN  dead[s] = {0} =>
          /\ \A i \in 1 .. received : Stream(s)[i].n = i
          /\ ep[s].readClosed => ep[o].eof = "sent" /\ received = ep[o].sent
          /\ ~ep[s].readClosed /\ Flight(s, 1) # {} => received + 1 \in Flight(s, 1)
          /\ ~ep[s].readClosed /\ (ep[o].link = 1 \/ HasEof(wire[o][1])) =>
                IF Flight(s, 1) = {} THEN received = ep[o].sent
                ELSE ep[o].sent \in Flight(s, 1)

EInv == OInv /\ \A s \in Side : 1 \in Had(s) /\ Closing(s) /\ FirstChannel(s)

-----------------------------------------------------------------------------
(* The chunks of a channel when a frame is sent or taken.                    *)

\* Chunks are numbered from 1.
LEMMA NumbersType ==
    ASSUME NEW q \in Seq(Frame)
    PROVE  Numbers(q) \subseteq 1 .. MaxChunks
  BY DEF Numbers, Frame

\* Control frames sent behind the chunks.
LEMMA NumbersCtl ==
    ASSUME NEW q \in Seq(Frame), NEW out \in Seq(Frame),
           \A i \in 1 .. Len(out) : out[i].t # "data"
    PROVE  /\ Numbers(q \o out) = Numbers(q)
           /\ Increasing(q) => Increasing(q \o out)
<1>1. /\ Len(q \o out) = Len(q) + Len(out)
      /\ \A i \in 1 .. Len(q) : (q \o out)[i] = q[i]
      /\ \A i \in Len(q) + 1 .. Len(q) + Len(out) : (q \o out)[i] = out[i - Len(q)]
  OBVIOUS
<1>2. \A i \in Len(q) + 1 .. Len(q) + Len(out) : (q \o out)[i].t # "data"
  BY <1>1
<1>3. \A i \in 1 .. Len(q \o out) : (q \o out)[i].t = "data" => i \in 1 .. Len(q)
  BY <1>1, <1>2
<1> QED
  BY <1>1, <1>3 DEF Numbers, Increasing

\* A chunk sent behind the others.
LEMMA NumbersSend ==
    ASSUME NEW q \in Seq(Frame), NEW n \in 1 .. MaxChunks,
           \A a \in Numbers(q) : a < n, Increasing(q)
    PROVE  /\ Numbers(q \o <<[t |-> "data", n |-> n]>>) = Numbers(q) \cup {n}
           /\ Increasing(q \o <<[t |-> "data", n |-> n]>>)
<1> DEFINE f == [t |-> "data", n |-> n]
           r == q \o <<f>>
<1>1. /\ Len(r) = Len(q) + 1
      /\ \A i \in 1 .. Len(q) : r[i] = q[i]
      /\ r[Len(q) + 1] = f /\ f.t = "data" /\ f.n = n
  OBVIOUS
<1> HIDE DEF r, f
<1>2. Numbers(r) = Numbers(q) \cup {n}
  BY <1>1 DEF Numbers
<1>3. Increasing(r)
  BY <1>1 DEF Increasing, Numbers
<1> QED
  BY <1>2, <1>3 DEF r, f

\* The first frame taken.
LEMMA NumbersTail ==
    ASSUME NEW q \in Seq(Frame), q # <<>>
    PROVE  /\ Increasing(q) => Increasing(Tail(q))
           /\ Head(q).t # "data" => Numbers(Tail(q)) = Numbers(q)
           /\ Head(q).t = "data" =>
                /\ Numbers(q) = {Head(q).n} \cup Numbers(Tail(q))
                /\ Increasing(q) => \A a \in Numbers(Tail(q)) : Head(q).n < a
<1> DEFINE r == Tail(q)
<1>1. /\ Len(r) = Len(q) - 1 /\ Len(q) \in Nat /\ Len(q) > 0
      /\ \A i \in 1 .. Len(r) : r[i] = q[i + 1]
      /\ Head(q) = q[1]
  OBVIOUS
<1> HIDE DEF r
<1>2. Increasing(q) => Increasing(r)
  BY <1>1 DEF Increasing
<1>3. \A n : n \in Numbers(r) <=> \E i \in 2 .. Len(q) : q[i].t = "data" /\ q[i].n = n
  <2> SUFFICES ASSUME NEW n
               PROVE  n \in Numbers(r) <=> \E i \in 2 .. Len(q) : q[i].t = "data" /\ q[i].n = n
    OBVIOUS
  <2>1. ASSUME n \in Numbers(r) PROVE \E i \in 2 .. Len(q) : q[i].t = "data" /\ q[i].n = n
    BY <1>1, <2>1 DEF Numbers
  <2>2. ASSUME NEW i \in 2 .. Len(q), q[i].t = "data", q[i].n = n PROVE n \in Numbers(r)
    <3>1. i - 1 \in 1 .. Len(r) /\ r[i - 1] = q[i]
      BY <1>1
    <3> QED
      BY <2>2, <3>1 DEF Numbers
  <2> QED
    BY <2>1, <2>2
<1>4. \A n : n \in Numbers(q) <=>
        (Head(q).t = "data" /\ Head(q).n = n) \/ \E i \in 2 .. Len(q) : q[i].t = "data" /\ q[i].n = n
  <2>1. \A i \in 1 .. Len(q) : i = 1 \/ i \in 2 .. Len(q)
    BY <1>1
  <2> QED
    BY <1>1, <2>1 DEF Numbers
<1>5. ASSUME Head(q).t = "data", Increasing(q), NEW a \in Numbers(r) PROVE Head(q).n < a
  BY <1>1, <1>3, <1>5 DEF Increasing
<1> QED
  BY <1>2, <1>3, <1>4, <1>5 DEF r

\* An empty channel.
LEMMA NumbersEmpty == Numbers(<<>>) = {} /\ Increasing(<<>>)
  BY DEF Numbers, Increasing

-----------------------------------------------------------------------------
(* A step that neither sends nor takes a chunk.                              *)

\* What side t makes of its channels: it keeps its link, gives it up or, having
\* none, takes one it never had.
Keeps(t) ==
    /\ Had(t) \subseteq Had(t)' /\ dead[t] \subseteq dead'[t]
    /\ ep'[t].link = ep[t].link \/ ep'[t].link = 0 \/ ep'[t].link \notin Had(t)

\* The stream, the sent chunks and the channels' chunks are as before, but for
\* the channels s has given up.
LEMMA Undisturbed ==
    ASSUME IInv, IInv', NEW s \in Side, Ordered(s), Keeps(s), Keeps(Other(s)),
           Stream(s)' = Stream(s), Stream(s) \in Seq(Item),
           ep'[Other(s)].sent = ep[Other(s)].sent,
           ep[s].readClosed => ep'[s].readClosed,
           \A g \in Gen : /\ Increasing(wire'[Other(s)][g])
                          /\ \/ Flight(s, g)' = Flight(s, g)
                             \/ Flight(s, g)' = {} /\ g \in dead'[s]
    PROVE  Ordered(s)'
<1> DEFINE o == Other(s)
<1>0. Known(s)' \subseteq Known(s)
  BY DEF Known, Item
<1>1. \A x \in Known(s) : x.g # 0 /\ x.g \in Had(o) /\ x \in Item
  BY DEF Ordered, Sequenced, Known
<1>2. \A i \in 1 .. Len(Stream(s)) : Stream(s)[i] \in Known(s)
  BY DEF Known
<1>3. \A g \in Gen : \A n \in Flight(s, g) : [n |-> n, g |-> g] \in Known(s)
  <2> SUFFICES ASSUME NEW g \in Gen, NEW n \in Flight(s, g)
               PROVE  [n |-> n, g |-> g] \in Known(s)
    OBVIOUS
  <2>1. n \in 1 .. MaxChunks
    BY NumbersType, ConstantFacts DEF IInv, TypeOK, Flight
  <2> QED
    BY <2>1 DEF Known, Item
<1>4. \A g \in Gen : Gapless(Flight(s, g)')
  BY DEF Ordered, Gapless
<1>5. Sequenced(s)'
  BY <1>0 DEF Ordered, Sequenced, Keeps
<1>6. \A i \in 1 .. Len(Stream(s)) : Stream(s)[i].g # 0 /\ Stream(s)[i].g \in Had(s)
  BY <1>1, <1>2 DEF Ordered, Received
<1>7. Received(s)'
  <2>1. ep'[s].link # ep[s].link =>
          \A i \in 1 .. Len(Stream(s)) : Stream(s)[i].g # ep'[s].link
    BY <1>6 DEF Keeps
  <2> QED
    BY <2>1 DEF Ordered, Received, Keeps
<1>8. Follows(s)'
  <2>0. ep'[s].link \in Gen
    BY ConstantFacts DEF IInv, Good, Endpoint
  <2>1. ep'[s].link # ep[s].link => ~LastFrom(s, ep'[s].link)
    BY <1>6 DEF Keeps, LastFrom
  <2> QED
    BY <2>0, <2>1 DEF Ordered, Follows, LastFrom, LastChunk
<1>9. Complete(s)'
  <2>0. ep'[o].link \in Gen /\ o \in Side
    BY ConstantFacts DEF IInv, Good, Endpoint
  <2>1. ep'[o].link # ep[o].link /\ ep'[o].link # 0 =>
          ~LastFrom(s, ep'[o].link) /\ Flight(s, ep'[o].link) = {}
    <3> DEFINE g == ep'[o].link
    <3> SUFFICES ASSUME g # ep[o].link, g # 0
                 PROVE  ~LastFrom(s, g) /\ Flight(s, g) = {}
      OBVIOUS
    <3>1. g \notin Had(o)
      BY DEF Keeps
    <3>2. ASSUME NEW n \in Flight(s, g) PROVE FALSE
      <4>1. [n |-> n, g |-> g] \in Known(s) /\ [n |-> n, g |-> g].g = g
        BY <1>3, <2>0
      <4> QED
        BY <1>1, <3>1, <4>1
    <3>3. ~LastFrom(s, g)
      BY <1>1, <1>2, <3>1 DEF LastFrom
    <3> QED
      BY <3>2, <3>3
  <2> QED
    BY <2>0, <2>1 DEF Ordered, Complete, LastFrom, LastChunk, Keeps
<1> QED
  BY <1>4, <1>5, <1>7, <1>8, <1>9 DEF Ordered

-----------------------------------------------------------------------------
(* A step that sends a chunk, and one that takes a chunk.                    *)

\* 0 stands for no channel. A channel that both sides have not given up is the
\* newest one.
LEMMA ChannelFacts ==
    ASSUME IInv, Channels, NEW s \in Side
    PROVE  /\ 0 \in dead[s] /\ Had(s) \subseteq 0 .. Top /\ Top \in Nat
           /\ ep[Other(s)].link \notin dead[s] => ep[Other(s)].link = Top /\ Top # 0
<1>1. ep["client"].link \in Nat /\ ep["server"].link \in Nat
  BY ConstantFacts, GenAssumption DEF IInv, Good, Endpoint, Gen
<1>2. Top \in Nat /\ (ep["client"].link # 0 => Top = ep["client"].link)
  BY <1>1 DEF Channels, Top
<1>3. 0 \in dead["client"] /\ dead["client"] \subseteq 0 .. Top
  BY <1>1, <1>2 DEF Channels
<1>4. Had("client") \subseteq 0 .. Top /\ Had("server") \subseteq 0 .. Top
  BY <1>1, <1>2, <1>3 DEF Had, Channels
<1>5. ep["client"].link \notin dead["server"] => ep["client"].link = Top /\ Top # 0
  BY <1>1, <1>2 DEF Channels
<1>6. ep["server"].link \notin dead["client"] => ep["server"].link = Top /\ Top # 0
  BY <1>1, <1>2, <1>3 DEF Channels
<1> QED
  BY <1>2, <1>3, <1>4, <1>5, <1>6 DEF Side, Other, Channels

\* The channel of o takes its next chunk.
LEMMA SentOrdered ==
    ASSUME IInv, IInv', Channels, NEW s \in Side, Ordered(s), NEW o, o = Other(s),
           NEW g \in Gen, g = ep[o].link, UNCHANGED dead, Stream(s)' = Stream(s), Stream(s) \in Seq(Item),
           ep'[s] = ep[s], ep'[o].link = ep[o].link, ep'[o].sent = ep[o].sent + 1,
           \A h \in Gen : h # g => wire'[o][h] = wire[o][h],
           wire'[o][g] = IF g \in dead[s] THEN wire[o][g]
                         ELSE wire[o][g] \o <<[t |-> "data", n |-> ep[o].sent + 1]>>
    PROVE  Ordered(s)'
<1> DEFINE n == ep[o].sent + 1
           x == [n |-> n, g |-> g]
<1>0. /\ o \in Side /\ g \in Gen /\ n \in 1 .. MaxChunks /\ wire[o][g] \in Seq(Frame)
      /\ ep[o].sent \in Nat /\ x \in Item
  <2>1. o \in Side /\ ep'[o].sent \in 0 .. MaxChunks /\ ep[o].sent \in 0 .. MaxChunks
    BY ConstantFacts DEF IInv, Good, Endpoint
  <2>2. wire[o][g] \in Seq(Frame)
    BY <2>1 DEF IInv, TypeOK
  <2>3. n \in 1 .. MaxChunks
    BY <2>1, ChunkAssumption
  <2> QED
    BY <2>1, <2>2, <2>3 DEF Item
<1>1. \A h \in Gen : \A m \in Flight(s, h) : [n |-> m, g |-> h] \in Known(s)
  <2> SUFFICES ASSUME NEW h \in Gen, NEW m \in Flight(s, h)
               PROVE  [n |-> m, g |-> h] \in Known(s)
    OBVIOUS
  <2>1. m \in 1 .. MaxChunks
    BY <1>0, NumbersType DEF IInv, TypeOK, Flight
  <2> QED
    BY <2>1 DEF Known, Item
<1>2. \A h \in Gen : \A m \in Flight(s, h) : m < n /\ m \in Nat
  <2> SUFFICES ASSUME NEW h \in Gen, NEW m \in Flight(s, h) PROVE m < n /\ m \in Nat
    OBVIOUS
  <2>1. m \in 1 .. MaxChunks
    BY <1>0, NumbersType DEF IInv, TypeOK, Flight
  <2>2. m <= ep[o].sent
    BY <1>1 DEF Ordered, Sequenced
  <2> QED
    BY <1>0, <2>1, <2>2
<1>3. \A h \in Gen : h # g => Flight(s, h)' = Flight(s, h) /\ wire'[o][h] = wire[o][h]
  BY DEF Flight
<1>4. CASE g \in dead[s]
  <2>1. \A h \in Gen : Flight(s, h)' = Flight(s, h) /\ wire'[o][h] = wire[o][h]
    BY <1>3, <1>4 DEF Flight
  <2>2. Known(s)' \subseteq Known(s)
    BY <2>1 DEF Known, Item
  <2>3. Sequenced(s)'
    <3>1. \A y \in Known(s) : y.n \in Nat
      BY DEF Known, Item
    <3> QED
      BY <1>0, <2>2, <3>1 DEF Ordered, Sequenced, Had
  <2>4. Received(s)'
    BY DEF Ordered, Received, Had
  <2>5. ep[s].link \in Gen
    BY DEF IInv, Good, Endpoint
  <2>6. Follows(s)'
    BY <2>1, <2>5 DEF Ordered, Follows, LastFrom, LastChunk
  <2>7. Complete(s)'
    BY <1>4 DEF Complete
  <2> QED
    BY <2>1, <2>3, <2>4, <2>6, <2>7 DEF Ordered
<1>5. CASE g \notin dead[s]
  <2>1. g = Top /\ g # 0 /\ Had(o) \subseteq 0 .. g
    BY <1>0, <1>5, ChannelFacts
  <2>2. Flight(s, g)' = Flight(s, g) \cup {n} /\ Increasing(wire'[o][g])
    <3>1. Increasing(wire[o][g])
      BY <1>0 DEF Ordered
    <3>2. \A a \in Numbers(wire[o][g]) : a < n
      BY <1>0, <1>2 DEF Flight
    <3>3. wire'[o][g] = wire[o][g] \o <<[t |-> "data", n |-> n]>>
      BY <1>5
    <3> HIDE DEF n
    <3>4. wire[o][g] \in Seq(Frame) /\ n \in 1 .. MaxChunks
      BY <1>0
    <3>5. /\ Numbers(wire[o][g] \o <<[t |-> "data", n |-> n]>>) = Numbers(wire[o][g]) \cup {n}
          /\ Increasing(wire[o][g] \o <<[t |-> "data", n |-> n]>>)
      BY ONLY <3>1, <3>2, <3>4, NumbersSend
    <3> QED
      BY <1>0, <3>3, <3>5 DEF Flight
  <2>3. \A h \in Gen : Flight(s, h)' \subseteq Flight(s, h) \cup {m \in {n} : h = g}
    BY <1>3, <2>2
  <2>4. \A y \in Known(s)' : y \in Known(s) \/ y = x
    BY <1>0, <2>3 DEF Known, Item
  <2>5. \A y \in Known(s) : y.n < n /\ y.n \in Nat /\ y.g <= g /\ y.g \in Nat
    <3>1. \A y \in Known(s) : y.n <= ep[o].sent /\ y.g \in Had(o) /\ y.n \in Nat
      BY DEF Ordered, Sequenced, Known, Item
    <3> QED
      BY <1>0, <2>1, <3>1, GenAssumption DEF Gen
  <2>6. Sequenced(s)'
    <3>1. \A y \in Known(s)' : y.n <= n /\ y.g # 0 /\ y.g \in Had(o)'
      BY <1>0, <2>1, <2>4, <2>5 DEF Ordered, Sequenced, Had
    <3>2. \A y, z \in Known(s)' : y.g < z.g => y.n < z.n
      <4> SUFFICES ASSUME NEW y \in Known(s)', NEW z \in Known(s)', y.g < z.g
                   PROVE  y.n < z.n
        OBVIOUS
      <4>1. x.n = n /\ x.g = g
        OBVIOUS
      <4>2. CASE z \in Known(s)
        BY <1>0, <2>4, <2>5, <4>1, <4>2, GenAssumption DEF Ordered, Sequenced, Gen
      <4>3. CASE z = x
        <5>1. y # x
          BY <1>0, <4>1, <4>3, GenAssumption DEF Gen
        <5> QED
          BY <2>4, <2>5, <4>1, <4>3, <5>1
      <4> QED
        BY <2>4, <4>2, <4>3
    <3> QED
      BY <3>1, <3>2 DEF Sequenced
  <2>7. Received(s)'
    BY DEF Ordered, Received, Had
  <2>8. \A h \in Gen : Increasing(wire'[o][h]) /\ Gapless(Flight(s, h)')
    <3>1. \A h \in Gen : Increasing(wire'[o][h])
      BY <1>3, <2>2 DEF Ordered
    <3>2. \A h \in Gen : h # g => Gapless(Flight(s, h)')
      BY <1>3 DEF Ordered
    <3>3. Gapless(Flight(s, g)')
      <4> SUFFICES ASSUME NEW a \in Flight(s, g)', NEW b \in Flight(s, g)', NEW m \in a .. b
                   PROVE  m \in Flight(s, g)'
        BY DEF Gapless
      <4>1. Flight(s, g) # {} => n - 1 \in Flight(s, g)
        BY <1>0, <1>5, <2>1 DEF Ordered, Complete
      <4>2. Gapless(Flight(s, g))
        BY <1>0 DEF Ordered
      <4>3. a \in Nat /\ b \in Nat /\ a <= n /\ b <= n
        BY <1>0, <1>2, <2>2
      <4>4. CASE a = n \/ m = n
        BY <1>0, <2>2, <4>3, <4>4
      <4>5. CASE a # n /\ m # n
        <5>1. a \in Flight(s, g) /\ m \in a .. (n - 1)
          BY <1>0, <2>2, <4>3, <4>5
        <5> QED
          BY <2>2, <4>1, <4>2, <5>1 DEF Gapless
      <4> QED
        BY <4>4, <4>5
    <3> QED
      BY <3>1, <3>2, <3>3
  <2>9. Follows(s)'
    <3> SUFFICES ASSUME ~ep[s].readClosed, LastFrom(s, ep[s].link)
                 PROVE  /\ \A m \in Flight(s, ep[s].link)' : LastChunk(s) < m
                        /\ Flight(s, ep[s].link)' # {} => LastChunk(s) + 1 \in Flight(s, ep[s].link)'
      BY DEF Follows, LastFrom, LastChunk
    <3>1. ep[s].link \in Gen
      BY DEF IInv, Good, Endpoint
    <3>2. CASE ep[s].link # g
      BY <1>3, <3>1, <3>2 DEF Ordered, Follows
    <3>3. CASE ep[s].link = g
      <4>1. LastChunk(s) < n /\ LastChunk(s) \in Nat
        <5>1. Stream(s)[Len(Stream(s))] \in Known(s)
          BY DEF LastFrom, Known
        <5> QED
          BY <2>5, <5>1 DEF LastChunk
      <4>2. Flight(s, g) = {} => LastChunk(s) = n - 1
        BY <1>0, <1>5, <2>1, <3>3 DEF Ordered, Complete
      <4> QED
        BY <1>0, <2>2, <3>3, <4>1, <4>2 DEF Ordered, Follows
    <3> QED
      BY <3>2, <3>3
  <2>10. Complete(s)'
    BY <2>2 DEF Complete
  <2> QED
    BY <2>6, <2>7, <2>8, <2>9, <2>10 DEF Ordered
<1> QED
  BY <1>4, <1>5

\* Side s takes a chunk from its link: the reader has it, or it came too late.
LEMMA TakenOrdered ==
    ASSUME IInv, IInv', Channels, NEW s \in Side, Ordered(s), NEW o, o = Other(s),
           NEW g \in Gen, g = ep[s].link, g # 0, NEW n, UNCHANGED dead,
           wire[o][g] # <<>>, Head(wire[o][g]).t = "data", Head(wire[o][g]).n = n,
           ep'[o] = ep[o], ep'[s].link = g, ep'[s].readClosed = ep[s].readClosed,
           Stream(s) \in Seq(Item),
           Stream(s)' = IF ep[s].readClosed THEN Stream(s)
                        ELSE Append(Stream(s), [n |-> n, g |-> g]),
           \A h \in Gen : wire'[o][h] = IF h = g THEN Tail(wire[o][g]) ELSE wire[o][h]
    PROVE  Ordered(s)'
<1> DEFINE x == [n |-> n, g |-> g]
           rest == Flight(s, g)'
<1>0. o \in Side /\ wire[o][g] \in Seq(Frame)
  BY ConstantFacts DEF IInv, TypeOK
<1>1. /\ Flight(s, g) = {n} \cup rest /\ Increasing(wire'[o][g])
      /\ \A a \in rest : n < a /\ a \in Nat
      /\ n \in 1 .. MaxChunks
  <2>1. /\ Numbers(wire[o][g]) = {n} \cup Numbers(Tail(wire[o][g]))
        /\ Increasing(Tail(wire[o][g]))
        /\ \A a \in Numbers(Tail(wire[o][g])) : n < a
    BY <1>0, NumbersTail DEF Ordered
  <2>2. Numbers(wire[o][g]) \subseteq 1 .. MaxChunks
    BY <1>0, NumbersType
  <2> QED
    BY <2>1, <2>2, ChunkAssumption DEF Flight
<1>2. \A h \in Gen : h # g => Flight(s, h)' = Flight(s, h) /\ wire'[o][h] = wire[o][h]
  BY DEF Flight
<1>3. x \in Item /\ x \in Known(s) /\ x.n = n /\ x.g = g
  BY <1>1 DEF Known, Item
<1>4. \A y \in Known(s) : y.g \in Nat /\ y.n \in Nat /\ y \in Item
  BY GenAssumption DEF Known, Item, Gen
<1>5. Known(s)' \subseteq Known(s)
  <2> SUFFICES ASSUME NEW y \in Item, (y \in Known(s))' PROVE y \in Known(s)
    BY DEF Known
  <2>1. CASE y.n \in Flight(s, y.g)'
    BY <1>1, <1>2, <2>1 DEF Known, Item
  <2>2. CASE \E i \in 1 .. Len(Stream(s)') : Stream(s)'[i] = y
    <3>1. CASE ep[s].readClosed
      BY <2>2, <3>1 DEF Known
    <3>2. CASE ~ep[s].readClosed
      BY <1>3, <2>2, <3>2 DEF Known
    <3> QED
      BY <3>1, <3>2
  <2> QED
    BY <2>1, <2>2 DEF Known
<1>6. Sequenced(s)'
  BY <1>5 DEF Ordered, Sequenced, Had
<1>7. \A h \in Gen : Increasing(wire'[o][h]) /\ Gapless(Flight(s, h)')
  <2>1. Gapless(rest)
    <3> SUFFICES ASSUME NEW a \in rest, NEW b \in rest, NEW m \in a .. b PROVE m \in rest
      BY DEF Gapless
    <3>1. m \in Flight(s, g)
      BY <1>1 DEF Ordered, Gapless
    <3>2. m # n
      BY <1>1
    <3> QED
      BY <1>1, <3>1, <3>2
  <2> QED
    BY <1>1, <1>2, <2>1 DEF Ordered
<1>8. CASE ep[s].readClosed
  <2>1. Received(s)'
    BY <1>8 DEF Ordered, Received, Had
  <2>2. Follows(s)'
    BY <1>8 DEF Follows
  <2>3. Complete(s)'
    <3>0. ep[o].link \in Gen
      BY <1>0 DEF IInv, Good, Endpoint
    <3>1. CASE ep[o].link # g
      BY <1>2, <1>8, <3>0, <3>1 DEF Ordered, Complete
    <3>2. CASE ep[o].link = g
      <4>1. \A b \in rest : b <= ep[o].sent
        <5> SUFFICES ASSUME NEW b \in rest PROVE b <= ep[o].sent
          OBVIOUS
        <5>1. [n |-> b, g |-> g] \in Known(s)
          <6>1. b \in 1 .. MaxChunks
            BY <1>0, <1>1, NumbersType DEF Flight
          <6> QED
            BY <1>1, <6>1 DEF Known, Item
        <5> QED
          BY <5>1 DEF Ordered, Sequenced
      <4>2. ep[o].sent \in Nat
        BY <1>0 DEF IInv, Good, Endpoint
      <4>3. g \notin dead[s] /\ rest # {} => ep[o].sent \in rest
        BY <1>1, <3>2, <4>1, <4>2 DEF Ordered, Complete
      <4> QED
        BY <1>8, <3>2, <4>3 DEF Complete
    <3> QED
      BY <3>1, <3>2
  <2> QED
    BY <1>6, <1>7, <2>1, <2>2, <2>3 DEF Ordered
<1>9. CASE ~ep[s].readClosed
  <2> DEFINE st == Stream(s)
             len == Len(st)
  <2>0. /\ \A i \in 1 .. len : st[i].n \in Nat
        /\ st # <<>> => len \in 1 .. len
    <3>1. \A i \in 1 .. len : st[i] \in Item
      OBVIOUS
    <3>2. st # <<>> => len \in 1 .. len
      OBVIOUS
    <3>3. \A y \in Item : y.n \in Nat
      BY DEF Item
    <3> QED
      BY <3>1, <3>2, <3>3
  <2>1. /\ Len(Stream(s)') = len + 1 /\ len \in Nat
        /\ \A i \in 1 .. len : Stream(s)'[i] = st[i]
        /\ Stream(s)'[len + 1] = x /\ Stream(s)' # <<>>
        /\ LastChunk(s)' = n /\ LastFrom(s, g)'
    BY <1>3, <1>9 DEF LastChunk, LastFrom
  <2>2. st # <<>> /\ st[len].g = g => n = st[len].n + 1
    <3> SUFFICES ASSUME st # <<>>, st[len].g = g PROVE n = st[len].n + 1
      OBVIOUS
    <3>1. st[len].n < n /\ st[len].n + 1 \in Flight(s, g)
      BY <1>1, <1>9 DEF Ordered, Follows, LastFrom, LastChunk
    <3>2. st[len].n \in Nat
      BY <2>0
    <3> QED
      BY <1>1, <3>1, <3>2
  <2>3. \A i \in 1 .. len : st[i].g = g => st[i].n < n
    <3> SUFFICES ASSUME NEW i \in 1 .. len, st[i].g = g PROVE st[i].n < n
      OBVIOUS
    <3>1. st # <<>> /\ st[len].g = g /\ (i = len \/ st[i].n < st[len].n)
      BY <2>1 DEF Ordered, Received
    <3>2. st[i].n \in Nat /\ st[len].n \in Nat
      BY <2>0, <3>1
    <3> QED
      BY <1>1, <2>2, <3>1, <3>2
  <2>4. \A i \in 1 .. len : s = "client" => st[i].g <= g
    <3> SUFFICES ASSUME NEW i \in 1 .. len, s = "client" PROVE st[i].g <= g
      OBVIOUS
    <3>1. st[i].g \in 0 .. Top
      BY ChannelFacts DEF Ordered, Received
    <3>2. g = Top
      BY DEF Top
    <3> QED
      BY <3>1, <3>2
  <2>5. Received(s)'
    <3>1. \A i \in 1 .. len + 1 : Stream(s)'[i].g \in Had(s)'
      BY <1>3, <2>1 DEF Ordered, Received, Had
    <3>2. ASSUME NEW i \in 1 .. len + 1, NEW j \in 1 .. len + 1, i < j
          PROVE  /\ Stream(s)'[i].g = Stream(s)'[j].g => Stream(s)'[i].n < Stream(s)'[j].n
                 /\ j = i + 1 /\ Stream(s)'[i].g = Stream(s)'[j].g =>
                      Stream(s)'[j].n = Stream(s)'[i].n + 1
                 /\ Stream(s)'[i].g = g => Stream(s)'[j].g = g
                 /\ s = "client" => Stream(s)'[i].g <= Stream(s)'[j].g
      <4>1. i \in 1 .. len /\ Stream(s)'[i] = st[i]
        BY <2>1, <3>2
      <4>2. CASE j = len + 1
        <5>1. Stream(s)'[j].n = n /\ Stream(s)'[j].g = g
          BY <1>3, <2>1, <4>2
        <5> HIDE DEF x
        <5>2. j = i + 1 => i = len /\ st # <<>>
          BY <2>1, <4>1, <4>2
        <5> QED
          BY <2>2, <2>3, <2>4, <4>1, <5>1, <5>2
      <4>3. CASE j # len + 1
        <5>1. j \in 1 .. len /\ Stream(s)'[j] = st[j]
          BY <2>1, <4>3
        <5> QED
          BY <3>2, <4>1, <5>1 DEF Ordered, Received
      <4> QED
        BY <4>2, <4>3
    <3>3. Len(Stream(s)') = len + 1 /\ ep'[s].link = g
      BY <2>1
    <3> HIDE DEF x, st, len
    <3> QED
      BY ONLY <3>1, <3>2, <3>3 DEF Received
  <2>6. rest # {} => n + 1 \in rest
    <3> SUFFICES ASSUME NEW b \in rest PROVE n + 1 \in rest
      OBVIOUS
    <3>1. n \in Flight(s, g) /\ b \in Flight(s, g) /\ n + 1 \in n .. b
      BY <1>1
    <3>2. n + 1 \in Flight(s, g)
      BY <3>1 DEF Ordered, Gapless
    <3> QED
      BY <1>1, <3>2
  <2>7. Follows(s)'
    BY <1>1, <2>1, <2>6 DEF Follows
  <2>8. Complete(s)'
    <3>0. ep[o].link \in Gen
      BY <1>0 DEF IInv, Good, Endpoint
    <3>1. CASE ep[o].link # g
      <4>1. ~LastFrom(s, ep[o].link)'
        BY <1>3, <2>1, <3>1 DEF LastFrom
      <4> QED
        BY <1>2, <3>0, <3>1, <4>1 DEF Ordered, Complete, LastFrom
    <3>2. CASE ep[o].link = g
      <4>1. \A b \in rest : b <= ep[o].sent
        <5> SUFFICES ASSUME NEW b \in rest PROVE b <= ep[o].sent
          OBVIOUS
        <5>1. [n |-> b, g |-> g] \in Known(s)
          <6>1. b \in 1 .. MaxChunks
            BY <1>0, <1>1, NumbersType DEF Flight
          <6> QED
            BY <1>1, <6>1 DEF Known, Item
        <5> QED
          BY <5>1 DEF Ordered, Sequenced
      <4>2. ep[o].sent \in Nat
        BY <1>0 DEF IInv, Good, Endpoint
      <4>3. g \notin dead[s] => ep[o].sent \in Flight(s, g)
        BY <1>1, <3>2 DEF Ordered, Complete
      <4>4. g \notin dead[s] => (rest # {} => ep[o].sent \in rest) /\ (rest = {} => ep[o].sent = n)
        BY <1>1, <4>1, <4>2, <4>3
      <4> QED
        BY <2>1, <3>2, <4>4 DEF Complete
    <3> QED
      BY <3>1, <3>2
  <2> QED
    BY <1>6, <1>7, <2>5, <2>7, <2>8 DEF Ordered
<1> QED
  BY <1>8, <1>9

-----------------------------------------------------------------------------
(* Steps through the link that exchange control frames only.                 *)

\* What an exchange through channel g makes of both sides and the channels.
Exchanged(s, o, g, e, out, taken) ==
    /\ o \in Side /\ o # s /\ s = Other(o)
    /\ ep'[s] = e /\ ep'[o] = ep[o]
    /\ dead'[o] = dead[o]
    /\ dead'[s] = IF g # e.link THEN dead[s] \cup {g} ELSE dead[s]
    /\ \A h \in Gen :
          /\ wire'[s][h] = IF h = g /\ g \notin dead[o] THEN wire[s][h] \o out
                           ELSE wire[s][h]
          /\ wire'[o][h] = IF h # g THEN wire[o][h]
                           ELSE IF g # e.link THEN <<>>
                           ELSE IF taken THEN Tail(wire[o][h]) ELSE wire[o][h]

\* Exchange, read field by field.
LEMMA ExchangeFacts ==
    ASSUME IInv, NEW s \in Side, NEW g \in Gen, g = ep[s].link,
           NEW e, NEW out, NEW taken \in BOOLEAN, Exchange(s, g, e, out, taken)
    PROVE  Exchanged(s, Other(s), g, e, out, taken)
<1> DEFINE o == Other(s)
<1>1. o \in Side /\ o # s /\ s = Other(o)
  BY DEF Side, Other
<1>2. /\ ep \in [Side -> Endpoint] /\ dead \in [Side -> SUBSET Gen]
      /\ wire \in [Side -> [Gen -> Seq(Frame)]]
  BY DEF IInv, TypeOK
<1>3. /\ ep' = [ep EXCEPT ![s] = e]
      /\ dead' = [dead EXCEPT ![s] = IF ep[s].link # e.link THEN @ \cup {g} ELSE @]
  BY DEF Exchange
<1>4. wire' = [wire EXCEPT
                ![s][g] = IF g \in dead[o] THEN @ ELSE @ \o out,
                ![o][g] = IF ep[s].link # e.link THEN <<>>
                          ELSE IF taken THEN Tail(@) ELSE @]
  BY DEF Exchange
<1> HIDE DEF o
<1>5. Exchanged(s, o, g, e, out, taken)
  BY <1>1, <1>2, <1>3, <1>4 DEF Exchanged
<1> QED
  BY <1>5 DEF o

\* Nor data nor AUTH_READY.
Control(out) == \A i \in 1 .. Len(out) : out[i].t \notin {"data", "ready"}

\* The link is kept or given up.
LEMMA ExchangeChannels ==
    ASSUME IInv, IInv', Channels, NEW s \in Side, NEW e,
           NEW out \in Seq(Frame), Control(out), NEW taken \in BOOLEAN,
           taken => wire[Other(s)][ep[s].link] # <<>>,
           e.link \in {ep[s].link, 0},
           Exchange(s, ep[s].link, e, out, taken)
    PROVE  Channels' /\ Keeps(s) /\ Keeps(Other(s))
<1> DEFINE o == Other(s)
<1> PICK g \in Gen : g = ep[s].link
  BY ObjectFacts
<1>1. Exchanged(s, o, g, e, out, taken)
  BY ExchangeFacts
<1>2. /\ \A t \in Side : 0 \in dead[t] /\ Had(t) \subseteq 0 .. Top
      /\ Top \in Nat
  BY ChannelFacts
<1>3. Keeps(s) /\ Keeps(o)
  BY <1>1, <1>2 DEF Keeps, Had, Exchanged
<1>4. g \in 0 .. Top
  BY <1>2 DEF Had
<1>5. Top' = Top
  <2>1. CASE s = "client"
    <3>1. CASE g = e.link
      BY <1>1, <2>1, <3>1 DEF Top, Exchanged
    <3>2. CASE g # e.link
      <4>1. e.link = 0 /\ g # 0 /\ g = Top
        BY <2>1, <3>2 DEF Top
      <4>2. dead'["client"] = 0 .. Top
        <5>1. dead["client"] = 0 .. (Top - 1)
          BY <2>1, <4>1 DEF Channels
        <5>2. dead'["client"] = dead["client"] \cup {Top}
          BY <1>1, <2>1, <3>2, <4>1 DEF Exchanged
        <5> QED
          BY <1>2, <5>1, <5>2
      <4>3. Cardinality(0 .. Top) = Top + 1
        <5>1. 0 \in Int /\ Top \in Int /\ 0 <= Top
          BY <1>2
        <5> QED
          BY ONLY <5>1, FS_Interval
      <4>4. Top' = Cardinality(0 .. Top) - 1
        BY <1>1, <2>1, <4>1, <4>2 DEF Top, Exchanged
      <4> QED
        BY <1>2, <4>3, <4>4
    <3> QED
      BY <3>1, <3>2
  <2>2. CASE s = "server"
    BY <1>1, <2>2 DEF Top, Other, Exchanged
  <2> QED
    BY <2>1, <2>2 DEF Side
<1>6. dead'["client"] = IF ep'["client"].link = 0 THEN 0 .. Top ELSE 0 .. (Top - 1)
  <2>1. CASE s = "client"
    <3>1. CASE g = e.link
      BY <1>1, <2>1, <3>1 DEF Channels, Exchanged
    <3>2. CASE g # e.link
      <4>1. e.link = 0 /\ g # 0 /\ g = Top
        BY <2>1, <3>2 DEF Top
      <4>2. dead["client"] = 0 .. (Top - 1)
        BY <2>1, <4>1 DEF Channels
      <4>3. dead'["client"] = dead["client"] \cup {Top}
        BY <1>1, <2>1, <3>2, <4>1 DEF Exchanged
      <4>4. dead'["client"] = 0 .. Top
        BY <1>2, <4>2, <4>3
      <4> QED
        BY <1>1, <2>1, <4>1, <4>4 DEF Exchanged
    <3> QED
      BY <3>1, <3>2
  <2>2. CASE s = "server"
    BY <1>1, <2>2 DEF Channels, Other, Exchanged
  <2> QED
    BY <2>1, <2>2 DEF Side
<1>7. dead'["server"] \subseteq 0 .. Top /\ 0 \in dead'["server"] /\ ep'["server"].link <= Top
  BY <1>1, <1>2, <1>4 DEF Channels, Side, Exchanged
<1>8. \A t \in Side : ep'[t].link # 0 => ep'[t].link \notin dead'[t]
  BY <1>1 DEF Channels, Side, Exchanged
<1>9. \A t \in Side, h \in Gen : h = 0 \/ h > Top => wire'[t][h] = <<>>
  <2>1. \A h \in Gen : h > Top => h # g
    BY <1>2, <1>4 DEF Gen
  <2>3. g = 0 => g \in dead[o] /\ ~taken
    BY <1>1, <1>2 DEF Channels, Exchanged
  <2>2. \A t \in Side : t = s \/ t = o
    BY <1>1 DEF Side, Exchanged
  <2> QED
    BY <1>1, <2>1, <2>2, <2>3 DEF Channels, Exchanged
<1>10. \A h \in Gen : \A i \in 1 .. Len(wire'["client"][h]) :
          wire'["client"][h][i].t = "ready" => i = 1 /\ h # ep'["server"].link
  <2> SUFFICES ASSUME NEW h \in Gen, NEW i \in 1 .. Len(wire'["client"][h]),
                      wire'["client"][h][i].t = "ready"
               PROVE  i = 1 /\ h # ep'["server"].link
    OBVIOUS
  <2>0. wire["client"][h] \in Seq(Frame) /\ wire["server"][h] \in Seq(Frame) /\ h \in Nat
    <3>1. "client" \in Side /\ "server" \in Side /\ h \in Nat
      BY GenAssumption DEF Side, Gen
    <3> QED
      BY <3>1 DEF IInv, TypeOK
  <2>1. CASE s = "client"
    <3>1. ep'["server"] = ep["server"] /\ o = "server"
      BY <1>1, <2>1 DEF Other, Exchanged
    <3>2. wire'["client"][h] = wire["client"][h] \/ wire'["client"][h] = wire["client"][h] \o out
      BY <1>1, <2>1 DEF Exchanged
    <3>3. i \in 1 .. Len(wire["client"][h]) /\ wire["client"][h][i].t = "ready"
      <4>1. CASE wire'["client"][h] = wire["client"][h]
        BY <4>1
      <4>2. CASE wire'["client"][h] = wire["client"][h] \o out
        <5>1. CASE i \in 1 .. Len(wire["client"][h])
          BY <2>0, <4>2, <5>1
        <5>2. CASE i \notin 1 .. Len(wire["client"][h])
          <6>1. i - Len(wire["client"][h]) \in 1 .. Len(out)
                /\ wire'["client"][h][i] = out[i - Len(wire["client"][h])]
            BY <2>0, <4>2, <5>2
          <6> QED
            BY <6>1 DEF Control
        <5> QED
          BY <5>1, <5>2
      <4> QED
        BY <3>2, <4>1, <4>2
    <3> QED
      BY <3>1, <3>3 DEF Channels
  <2>2. CASE s = "server"
    <3>1. o = "client" /\ ep'["server"].link \in {g, 0}
      BY <1>1, <2>2 DEF Other, Exchanged
    <3>2. CASE h # g
      <4>1. wire'["client"][h] = wire["client"][h]
        BY <1>1, <3>1, <3>2 DEF Exchanged
      <4>2. h # 0
        <5>2. h = 0 => wire["client"][h] = <<>>
          BY DEF Channels, Side
        <5> QED
          BY <4>1, <5>2
      <4> QED
        BY <3>1, <3>2, <4>1, <4>2 DEF Channels
    <3>3. CASE h = g
      <4>1. \A j \in 1 .. Len(wire["client"][g]) : wire["client"][g][j].t # "ready"
        BY <2>2 DEF Channels
      <4>2. \/ wire'["client"][h] \in {<<>>, wire["client"][g]}
            \/ wire'["client"][h] = Tail(wire["client"][g]) /\ wire["client"][g] # <<>>
        BY <1>1, <3>1, <3>3 DEF Exchanged
      <4>3. wire'["client"][h] # <<>>
        OBVIOUS
      <4>4. CASE wire'["client"][h] = Tail(wire["client"][g]) /\ wire["client"][g] # <<>>
        <5>1. i + 1 \in 1 .. Len(wire["client"][g]) /\ wire'["client"][h][i] = wire["client"][g][i + 1]
          BY <2>0, <3>3, <4>4
        <5> QED
          BY <4>1, <5>1
      <4> QED
        BY <4>1, <4>2, <4>3, <4>4
    <3> QED
      BY <3>2, <3>3
  <2> QED
    BY <2>1, <2>2 DEF Side
<1> QED
  BY <1>2, <1>3, <1>5, <1>6, <1>7, <1>8, <1>9, <1>10 DEF Channels

\* The streams are sequences of items.
LEMMA StreamType ==
    ASSUME IInv, NEW s \in Side
    PROVE  Stream(s) \in Seq(Item) /\ got[s] \in Seq(Item) /\ ep[s].items \in Seq(Item)
  BY DEF IInv, TypeOK, Good, Endpoint, Stream

\* No chunk is sent, none is taken.
LEMMA ExchangeOInv ==
    ASSUME OInv, IInv', NEW s \in Side, NEW e,
           NEW out \in Seq(Frame), Control(out), NEW taken \in BOOLEAN,
           taken => /\ wire[Other(s)][ep[s].link] # <<>>
                    /\ Head(wire[Other(s)][ep[s].link]).t # "data",
           e.link \in {ep[s].link, 0}, e.sent = ep[s].sent,
           ep[s].readClosed => e.readClosed,
           e.reader = "waiting" => e.items = <<>>,
           Exchange(s, ep[s].link, e, out, taken),
           Stream(s)' = Stream(s), got'[Other(s)] = got[Other(s)]
    PROVE  OInv'
<1> DEFINE o == Other(s)
<1> PICK g \in Gen : g = ep[s].link
  BY ObjectFacts DEF OInv
<1>1. Exchanged(s, o, g, e, out, taken)
  BY ExchangeFacts DEF OInv
<1>2. Channels' /\ Keeps(s) /\ Keeps(o)
  BY ExchangeChannels DEF OInv
<1>3. o \in Side /\ s = Other(o) /\ \A t \in Side : t = s \/ t = o
  BY DEF Side, Other
<1>4. \A t \in Side : Stream(t)' = Stream(t) /\ Stream(t) \in Seq(Item)
  BY <1>1, <1>3, StreamType DEF Exchanged, Stream, OInv
<1>5. \A t \in Side, h \in Gen : wire[t][h] \in Seq(Frame)
  BY DEF OInv, IInv, TypeOK
<1>6. Waits'
  BY <1>1, <1>3 DEF Exchanged, Waits, OInv
<1>7. Ordered(s)'
  <2>1. \A h \in Gen : Increasing(wire[o][h])
    BY DEF OInv, Ordered
  <2>2. ASSUME NEW h \in Gen
        PROVE  /\ Increasing(wire'[o][h])
               /\ \/ Flight(s, h)' = Flight(s, h)
                  \/ Flight(s, h)' = {} /\ h \in dead'[s]
    <3>1. CASE h # g
      BY <1>1, <2>1, <3>1 DEF Exchanged, Flight
    <3>2. CASE h = g /\ g # e.link
      BY <1>1, <3>2, NumbersEmpty DEF Exchanged, Flight
    <3>3. CASE h = g /\ g = e.link /\ taken
      BY <1>1, <1>3, <1>5, <2>1, <3>3, NumbersTail DEF Exchanged, Flight
    <3>4. CASE h = g /\ g = e.link /\ ~taken
      BY <1>1, <2>1, <3>4 DEF Exchanged, Flight
    <3> QED
      BY <3>1, <3>2, <3>3, <3>4
  <2>3. ep'[o].sent = ep[o].sent /\ (ep[s].readClosed => ep'[s].readClosed)
    BY <1>1 DEF Exchanged
  <2> QED
    BY <1>2, <1>4, <2>2, <2>3, Undisturbed DEF OInv
<1>8. Ordered(o)'
  <2>1. \A h \in Gen : Increasing(wire[s][h])
    BY <1>3 DEF OInv, Ordered
  <2>2. ASSUME NEW h \in Gen
        PROVE  Increasing(wire'[s][h]) /\ Flight(o, h)' = Flight(o, h)
    <3>1. CASE h # g \/ g \in dead[o]
      BY <1>1, <2>1, <3>1 DEF Exchanged, Flight
    <3>2. CASE h = g /\ g \notin dead[o]
      <4>1. wire'[s][h] = wire[s][h] \o out
        BY <1>1, <3>2 DEF Exchanged
      <4>2. \A i \in 1 .. Len(out) : out[i].t # "data"
        BY DEF Control
      <4>3. Increasing(wire'[s][h]) /\ Numbers(wire'[s][h]) = Numbers(wire[s][h])
        BY <1>5, <2>1, <4>1, <4>2, NumbersCtl
      <4> QED
        BY <1>3, <4>3 DEF Flight
    <3> QED
      BY <3>1, <3>2
  <2>3. ep'[s].sent = ep[s].sent /\ ep'[o].readClosed = ep[o].readClosed
    BY <1>1 DEF Exchanged
  <2> QED
    BY <1>2, <1>3, <1>4, <2>2, <2>3, Undisturbed DEF OInv
<1> QED
  BY <1>2, <1>3, <1>6, <1>7, <1>8 DEF OInv

\* A step of one object that touches no channel.
LEMMA QuietOInv ==
    ASSUME OInv, IInv', NEW s \in Side, NEW e, ep' = [ep EXCEPT ![s] = e],
           e.link = ep[s].link, e.sent = ep[s].sent,
           e.readClosed = ep[s].readClosed, e.reader = ep[s].reader, e.items = ep[s].items,
           UNCHANGED <<wire, dead, got>>
    PROVE  OInv'
<1>1. \A t \in Side : /\ ep'[t].link = ep[t].link /\ ep'[t].sent = ep[t].sent
                      /\ ep'[t].readClosed = ep[t].readClosed
                      /\ ep'[t].reader = ep[t].reader /\ ep'[t].items = ep[t].items
  BY DEF OInv, IInv, TypeOK
<1>2. "client" \in Side /\ "server" \in Side /\ \A t \in Side : Other(t) \in Side
  BY ConstantFacts
<1>3. Channels'
  BY <1>1, <1>2 DEF OInv, Channels, Top
<1>4. Waits'
  BY <1>1 DEF OInv, Waits
<1>5. ASSUME NEW t \in Side PROVE Ordered(t)'
  <2>1. Keeps(t) /\ Keeps(Other(t))
    BY <1>1, <1>2 DEF Keeps, Had
  <2>2. Stream(t)' = Stream(t) /\ Stream(t) \in Seq(Item)
    BY <1>1, StreamType DEF Stream, OInv
  <2>3. \A g \in Gen : Increasing(wire'[Other(t)][g]) /\ Flight(t, g)' = Flight(t, g)
    BY DEF OInv, Ordered, Flight
  <2> QED
    BY <1>1, <1>2, <2>1, <2>2, <2>3, Undisturbed DEF OInv
<1> QED
  BY <1>3, <1>4, <1>5 DEF OInv

-----------------------------------------------------------------------------
(* What the methods of WebRtcStream never do: lose or invent a chunk, take a *)
(* channel, reopen what was closed or make the reader wait.                  *)

Continues(e, f) ==
    /\ f \in Endpoint
    /\ f.sent = e.sent /\ f.submitted = e.submitted /\ f.items = e.items /\ f.eof = e.eof
    /\ f.link \in {e.link, 0}
    /\ e.status = "closed" => f.status = "closed"
    /\ e.writeStatus = "closed" => f.writeStatus = "closed"
    /\ e.readClosed => f.readClosed
    /\ f.reader = "waiting" => e.reader = "waiting"
    /\ f.reader = "done" => e.reader = "done" \/ f.readClosed

\* ... and does not end the read side either.
Reads(e, f) == Continues(e, f) /\ f.readClosed = e.readClosed

LEMMA ContinuesTransitive ==
    ASSUME NEW e, NEW f, NEW h
    PROVE  /\ Continues(e, f) /\ Continues(f, h) => Continues(e, h)
           /\ Reads(e, f) /\ Reads(f, h) => Reads(e, h)
<1>1. Continues(e, f) /\ Continues(f, h) => Continues(e, h)
  BY DEF Continues
<1> QED
  BY <1>1 DEF Reads

\* Setting one field.
LEMMA FieldReads ==
    ASSUME NEW e \in Endpoint
    PROVE  /\ Reads(e, e)
           /\ \A w \in {"run", "failed"} : Reads(e, [e EXCEPT !.writer = w])
           /\ \A i \in Int : Reads(e, [e EXCEPT !.inFlight = i])
           /\ \A c \in {"connected", "reconnecting", "disconnected"} :
                 Reads(e, [e EXCEPT !.conn = c])
           /\ Reads(e, [e EXCEPT !.link = 0])
           /\ Reads(e, [e EXCEPT !.bufGen = 0])
           /\ Reads(e, [e EXCEPT !.flowEnabled = TRUE])
           /\ Reads(e, [e EXCEPT !.status = "closed"])
           /\ [e EXCEPT !.status = "closed"].status = "closed"
           /\ Reads(e, [e EXCEPT !.writeStatus = "closed"])
           /\ [e EXCEPT !.writeStatus = "closed"].status = e.status
<1>1. Reads(e, e)
  BY DEF Endpoint, Reads, Continues
<1>2. \A w \in {"run", "failed"} : Reads(e, [e EXCEPT !.writer = w])
  BY DEF Endpoint, Reads, Continues
<1>3. \A i \in Int : Reads(e, [e EXCEPT !.inFlight = i])
  BY DEF Endpoint, Reads, Continues
<1>4. \A c \in {"connected", "reconnecting", "disconnected"} : Reads(e, [e EXCEPT !.conn = c])
  BY DEF Endpoint, Reads, Continues
<1>5. Reads(e, [e EXCEPT !.link = 0]) /\ Reads(e, [e EXCEPT !.bufGen = 0])
  BY ConstantFacts DEF Endpoint, Reads, Continues
<1>6. Reads(e, [e EXCEPT !.flowEnabled = TRUE])
  BY DEF Endpoint, Reads, Continues
<1>7. /\ Reads(e, [e EXCEPT !.status = "closed"])
      /\ [e EXCEPT !.status = "closed"].status = "closed"
  BY DEF Endpoint, Reads, Continues
<1>8. /\ Reads(e, [e EXCEPT !.writeStatus = "closed"])
      /\ [e EXCEPT !.writeStatus = "closed"].status = e.status
  BY DEF Endpoint, Reads, Continues
<1> QED
  BY <1>1, <1>2, <1>3, <1>4, <1>5, <1>6, <1>7, <1>8

\* Waking the writer, #finalize, an acknowledgement and the loss of a channel.
LEMMA MethodReads ==
    ASSUME NEW e \in Endpoint
    PROVE  /\ \A w \in {"run", "failed"} : Reads(e, WakeWriter(e, w))
           /\ Reads(e, WakeFlow(e))
           /\ Reads(e, Finalize(e)) /\ Finalize(e).status = e.status
           /\ Reads(e, MaybeFinalize(e))
           /\ Reads(e, PeerDisconnected(e))
           /\ Reads(e, ShutDown(e)) /\ ShutDown(e).status = "closed"
<1>1. \A w \in {"run", "failed"} : Reads(e, WakeWriter(e, w))
  BY FieldReads DEF WakeWriter
<1>2. Reads(e, WakeFlow(e))
  BY FieldReads DEF WakeFlow
<1>3. ASSUME NEW f \in Endpoint PROVE Reads(f, Finalize(f)) /\ Finalize(f).status = f.status
  <2>1. Reads(f, WakeWriter(f, "failed"))
    BY FieldReads DEF WakeWriter
  <2>2. WakeWriter(f, "failed") \in Endpoint
    BY <2>1 DEF Reads, Continues
  <2>3. Reads(WakeWriter(f, "failed"), Finalize(f))
    BY <2>2, FieldReads DEF Finalize
  <2>4. Finalize(f).status = f.status
    BY FinalizeFacts DEF Same
  <2> QED
    BY <2>1, <2>3, <2>4, ContinuesTransitive
<1>4. Reads(e, MaybeFinalize(e))
  <2> DEFINE f == [e EXCEPT !.status = "closed"]
  <2>1. Reads(e, f)
    BY FieldReads
  <2>2. Reads(f, Finalize(f))
    BY <1>3, <2>1 DEF Reads, Continues
  <2>3. MaybeFinalize(e) \in {e, Finalize(f)}
    BY DEF MaybeFinalize
  <2> HIDE DEF f
  <2> QED
    BY <2>1, <2>2, <2>3, FieldReads, ContinuesTransitive
<1>5. Reads(e, PeerDisconnected(e))
  BY FieldReads DEF PeerDisconnected
<1>6. Reads(e, ShutDown(e)) /\ ShutDown(e).status = "closed"
  <2> DEFINE f == [e EXCEPT !.status = "closed"]
  <2>1. Reads(e, f) /\ f.status = "closed"
    BY FieldReads
  <2>2. ShutDown(e) = [f EXCEPT !.writeStatus = "closed"]
    BY DEF ShutDown, Endpoint
  <2> HIDE DEF f
  <2>3. f \in Endpoint
    BY <2>1 DEF Reads, Continues
  <2>4. Reads(f, ShutDown(e)) /\ ShutDown(e).status = "closed"
    BY <2>1, <2>2, <2>3, FieldReads
  <2> QED
    BY <2>1, <2>4, ContinuesTransitive
<1> QED
  BY <1>1, <1>2, <1>3, <1>4, <1>5, <1>6

\* The ends of the read side.
LEMMA EndReadContinues ==
    ASSUME NEW e \in Endpoint
    PROVE  /\ Continues(e, EndRead(e)) /\ EndRead(e).status = e.status
           /\ Continues(e, Fail(e)) /\ Fail(e).status = e.status
<1>1. \A f \in {EndRead(e), Fail(e)} : Continues(e, f) /\ f.status = e.status
  BY EndReadFields DEF Beside, Continues
<1> QED
  BY <1>1

\* The handlers built from them.
LEMMA HandlerContinues ==
    ASSUME NEW e \in Endpoint
    PROVE  /\ Continues(e, MaybeFinalize(EndRead(e)))
           /\ Continues(e, Finalize(Fail(ShutDown(e))))
           /\ Finalize(Fail(ShutDown(e))).status = "closed"
           /\ Continues(e, PeerLeft(e)) /\ PeerLeft(e).status = "closed"
           /\ Reads(e, PeerDisconnected([e EXCEPT !.link = 0]))
           /\ Reads(e, WakeFlow([e EXCEPT !.inFlight = 0]))
           /\ \A b \in Nat : Reads(e, Acknowledge(e, b)) /\ Reads(e, SendError(e, b))
<1>1. Continues(e, MaybeFinalize(EndRead(e)))
  <2>1. Continues(e, EndRead(e)) /\ EndRead(e) \in Endpoint
    BY EndReadContinues DEF Continues
  <2>2. Continues(EndRead(e), MaybeFinalize(EndRead(e)))
    BY <2>1, MethodReads DEF Reads
  <2> QED
    BY <2>1, <2>2, ContinuesTransitive
<1>2. ASSUME NEW d \in Endpoint, d.status = "closed"
      PROVE  /\ Continues(d, Finalize(Fail(d))) /\ Finalize(Fail(d)).status = "closed"
             /\ Continues(d, Finalize(EndRead(d))) /\ Finalize(EndRead(d)).status = "closed"
  <2>1. /\ Continues(d, Fail(d)) /\ Fail(d) \in Endpoint /\ Fail(d).status = "closed"
        /\ Continues(d, EndRead(d)) /\ EndRead(d) \in Endpoint /\ EndRead(d).status = "closed"
    BY <1>2, EndReadContinues DEF Continues
  <2>2. /\ Continues(Fail(d), Finalize(Fail(d)))
        /\ Continues(EndRead(d), Finalize(EndRead(d)))
    BY <2>1, MethodReads DEF Reads
  <2>3. Finalize(Fail(d)).status = "closed" /\ Finalize(EndRead(d)).status = "closed"
    BY <2>1, MethodReads
  <2> QED
    BY <2>1, <2>2, <2>3, ContinuesTransitive
<1>3. Continues(e, ShutDown(e)) /\ ShutDown(e) \in Endpoint /\ ShutDown(e).status = "closed"
  BY MethodReads DEF Reads, Continues
<1>4. Continues(e, Finalize(Fail(ShutDown(e)))) /\ Finalize(Fail(ShutDown(e))).status = "closed"
  BY <1>2, <1>3, ContinuesTransitive
<1>5. Continues(e, PeerLeft(e)) /\ PeerLeft(e).status = "closed"
  <2> DEFINE d == [ShutDown(e) EXCEPT !.conn = "disconnected"]
  <2>1. Continues(ShutDown(e), d) /\ d \in Endpoint
    <3>1. \A c \in {"connected", "reconnecting", "disconnected"} :
             Reads(ShutDown(e), [ShutDown(e) EXCEPT !.conn = c])
      BY ONLY <1>3, FieldReads
    <3>2. Reads(ShutDown(e), d)
      BY ONLY <3>1
    <3> QED
      BY ONLY <3>2 DEF Reads, Continues
  <2>2. d.status = "closed"
    BY <1>3 DEF Endpoint
  <2>3. PeerLeft(e) = Finalize(EndRead(d))
    BY DEF PeerLeft
  <2> HIDE DEF d
  <2> QED
    BY <1>2, <1>3, <2>1, <2>2, <2>3, ContinuesTransitive
<1>6. Reads(e, PeerDisconnected([e EXCEPT !.link = 0]))
  <2> DEFINE d == [e EXCEPT !.link = 0]
  <2>1. Reads(e, d) /\ d \in Endpoint
    BY FieldReads DEF Reads, Continues
  <2> HIDE DEF d
  <2>2. Reads(e, PeerDisconnected(d))
    BY <2>1, MethodReads, ContinuesTransitive
  <2> QED
    BY <2>2 DEF d
<1>7. ASSUME NEW i \in Int PROVE Reads(e, WakeFlow([e EXCEPT !.inFlight = i]))
  <2> DEFINE d == [e EXCEPT !.inFlight = i]
  <2>1. Reads(e, d)
    BY FieldReads
  <2> HIDE DEF d
  <2>3. d \in Endpoint
    BY <2>1 DEF Reads, Continues
  <2>2. Reads(e, WakeFlow(d))
    BY <2>1, <2>3, MethodReads, ContinuesTransitive
  <2> QED
    BY <2>2 DEF d
<1>8. ASSUME NEW b \in Nat PROVE Reads(e, Acknowledge(e, b))
  <2> DEFINE i == IF e.inFlight > b THEN e.inFlight - b ELSE 0
  <2>1. i \in Int
    BY DEF Endpoint
  <2>2. Acknowledge(e, b) = WakeFlow([e EXCEPT !.inFlight = i])
    BY DEF Acknowledge
  <2> HIDE DEF i
  <2> QED
    BY <1>7, <2>1, <2>2
<1>9. ASSUME NEW b \in Nat PROVE Reads(e, SendError(e, b))
  <2> DEFINE i == e.inFlight - Credit(e, b)
             x == [e EXCEPT !.inFlight = i]
             y == [x EXCEPT !.bufGen = 0]
             back == [y EXCEPT !.writer = "run"]
  <2>1. i \in Int
    BY DEF Endpoint, Credit
  <2>2. Reads(e, x) /\ x \in Endpoint
    <3> HIDE DEF i
    <3>1. Reads(e, x)
      BY <2>1, FieldReads
    <3> HIDE DEF x
    <3> QED
      BY <3>1 DEF Reads, Continues
  <2>3. Reads(x, y) /\ y \in Endpoint
    <3> HIDE DEF x
    <3>1. Reads(x, y)
      BY <2>2, FieldReads
    <3> HIDE DEF y
    <3> QED
      BY <3>1 DEF Reads, Continues
  <2>4. Reads(y, back) /\ back \in Endpoint
    <3> HIDE DEF y
    <3>1. Reads(y, back)
      BY <2>3, FieldReads
    <3> HIDE DEF back
    <3> QED
      BY <3>1 DEF Reads, Continues
  <2>5. back = [e EXCEPT !.inFlight = @ - Credit(e, b), !.bufGen = 0, !.writer = "run"]
    BY DEF Endpoint
  <2>6. SendError(e, b) \in {[back EXCEPT !.writer = "failed"], PeerDisconnected(back)}
    BY <2>5 DEF SendError
  <2> HIDE DEF back, y, x
  <2>7. Reads(e, back)
    BY <2>2, <2>3, <2>4, ContinuesTransitive
  <2>8. Reads(back, [back EXCEPT !.writer = "failed"]) /\ Reads(back, PeerDisconnected(back))
    BY <2>4, FieldReads, MethodReads
  <2> QED
    BY <2>6, <2>7, <2>8, ContinuesTransitive
<1> QED
  BY <1>1, <1>4, <1>5, <1>6, <1>7, <1>8, <1>9

-----------------------------------------------------------------------------
(* The actions that exchange no chunk.                                       *)

\* Side s becomes e; it may have taken a control frame, and sends some.
ControlStep(s, e, out, taken) ==
    /\ Exchange(s, ep[s].link, e, out, taken)
    /\ out \in Seq(Frame) /\ Control(out)
    /\ taken => /\ wire[Other(s)][ep[s].link] # <<>>
                /\ Head(wire[Other(s)][ep[s].link]).t # "data"
    /\ e.link \in {ep[s].link, 0}
    /\ e.sent = ep[s].sent /\ e.submitted = ep[s].submitted
    /\ ep[s].status = "closed" => e.status = "closed"
    /\ ep[s].writeStatus = "closed" => e.writeStatus = "closed"
    /\ ep[s].readClosed => e.readClosed
    /\ e.reader = "waiting" => e.items = <<>>
    /\ e.reader = "done" => ep[s].reader = "done" \/ e.readClosed
    /\ Stream(s)' = Stream(s) /\ got'[Other(s)] = got[Other(s)]

\* No eof is sent, and the read side ends only with the stream or with an eof.
NoEofSent(s, e, out, taken) ==
    /\ e.eof = ep[s].eof
    /\ \A i \in 1 .. Len(out) : out[i].t # "eof"
    /\ e.readClosed => \/ ep[s].readClosed \/ e.status = "closed"
                       \/ taken /\ Head(wire[Other(s)][ep[s].link]).t = "eof"

\* A handler that continues the object takes a control step.
LEMMA HandlerControl ==
    ASSUME OInv, NEW s \in Side, NEW e, Continues(ep[s], e),
           NEW out \in Seq(Frame), Control(out), NEW taken \in BOOLEAN,
           taken => /\ wire[Other(s)][ep[s].link] # <<>>
                    /\ Head(wire[Other(s)][ep[s].link]).t # "data",
           Exchange(s, ep[s].link, e, out, taken), UNCHANGED got
    PROVE  ControlStep(s, e, out, taken)
<1>1. ep'[s] = e
  BY DEF Exchange, OInv, IInv, TypeOK
<1>2. Stream(s)' = Stream(s)
  BY <1>1 DEF Continues, Stream
<1>3. e.reader = "waiting" => e.items = <<>>
  BY DEF Continues, OInv, Waits
<1> QED
  BY <1>2, <1>3 DEF ControlStep, Continues

\* Sequences of control frames.
LEMMA ControlSeqs ==
    /\ <<>> \in Seq(Frame) /\ Control(<<>>)
    /\ \A i \in 1 .. Len(<<>>) : FALSE
    /\ \A t \in {"flow", "resume", "eof", "abort"} :
          /\ <<Ctl(t)>> \in Seq(Frame) /\ Control(<<Ctl(t)>>)
          /\ Len(<<Ctl(t)>>) = 1 /\ <<Ctl(t)>>[1].t = t
<1>1. ASSUME NEW t \in {"flow", "resume", "eof", "abort"}
      PROVE  /\ <<Ctl(t)>> \in Seq(Frame) /\ Control(<<Ctl(t)>>)
             /\ Len(<<Ctl(t)>>) = 1 /\ <<Ctl(t)>>[1].t = t
  BY CtlFrames DEF Control, Ctl
<1> QED
  BY <1>1 DEF Control

\* abort(), a failed send, the loss of the peer and the end of the grace time.
LEMMA LocalControl ==
    ASSUME OInv, NEW s \in Side,
           AppAbort(s) \/ SendRejects(s) \/ LosePeer(s) \/ GraceExpires(s)
    PROVE  \E e, out : \E taken \in BOOLEAN :
              ControlStep(s, e, out, taken) /\ NoEofSent(s, e, out, taken)
<1>0. ep[s] \in Endpoint /\ Good(ep[s]) /\ IInv
  BY ObjectFacts DEF OInv
<1>1. ASSUME NEW e, NEW out \in {<<>>, <<Ctl("abort")>>}, Continues(ep[s], e),
             e.readClosed => ep[s].readClosed \/ e.status = "closed",
             Local(s, e, out), UNCHANGED got
      PROVE  ControlStep(s, e, out, FALSE) /\ NoEofSent(s, e, out, FALSE)
  <2>1. out \in Seq(Frame) /\ Control(out) /\ \A i \in 1 .. Len(out) : out[i].t # "eof"
    <3>1. CASE out = <<>>
      BY <3>1, ControlSeqs
    <3>2. CASE out = <<Ctl("abort")>>
      <4>1. /\ out \in Seq(Frame) /\ Control(out) /\ Len(out) = 1
            /\ out[1].t = "abort"
        BY <3>2, ControlSeqs
      <4> QED
        BY <4>1
    <3> QED
      BY <3>1, <3>2
  <2>2. ControlStep(s, e, out, FALSE)
    BY <1>1, <2>1, HandlerControl DEF Local
  <2> QED
    BY <1>1, <2>1, <2>2 DEF NoEofSent, Continues
<1>2. CASE AppAbort(s)
  <2> DEFINE e == Finalize(Fail(ShutDown(ep[s])))
  <2>1. PICK out \in {<<>>, <<Ctl("abort")>>} : Local(s, e, out)
    BY <1>2 DEF AppAbort
  <2>2. Continues(ep[s], e) /\ e.status = "closed" /\ UNCHANGED got
    BY <1>0, <1>2, HandlerContinues DEF AppAbort
  <2> HIDE DEF e
  <2> QED
    BY <1>1, <2>1, <2>2
<1>3. CASE SendRejects(s)
  <2> DEFINE b == ChunkSize(s)
             taken == IF ep[s].writer = "buffering" THEN ep[s] ELSE Taken(s)
             e == SendError(taken, b)
  <2>1. Local(s, e, <<>>) /\ UNCHANGED got
    BY <1>3 DEF SendRejects
  <2>2. b \in Nat /\ Reads(ep[s], taken) /\ taken \in Endpoint
    <3>1. CASE ep[s].writer = "buffering"
      <4>1. ep[s].sent + 1 \in 1 .. MaxChunks
        BY <1>0, <3>1, NextChunk
      <4>2. b \in Nat
        BY <4>1, SizeFacts DEF ChunkSize
      <4> QED
        BY <1>0, <3>1, <4>2, FieldReads
    <3>2. CASE ep[s].writer # "buffering"
      <4>1. HasWork(s)
        BY <1>3, <3>2 DEF SendRejects, Admitted
      <4>2. b \in Nat /\ Credit(ep[s], b) \in Nat
        BY <1>0, <4>1, ChunkSizeFacts
      <4> DEFINE i == ep[s].inFlight + Credit(ep[s], b)
      <4>3. i \in Int
        BY <1>0, <4>2 DEF Endpoint
      <4>4. taken = [ep[s] EXCEPT !.inFlight = i]
        BY <1>0, <3>2 DEF Taken, Endpoint
      <4> HIDE DEF i
      <4>5. Reads(ep[s], taken)
        <5>1. Reads(ep[s], [ep[s] EXCEPT !.inFlight = i])
          BY <1>0, <4>3, FieldReads
        <5> QED
          BY <4>4, <5>1
      <4> QED
        BY <4>2, <4>5 DEF Reads, Continues
    <3> QED
      BY <3>1, <3>2
  <2> HIDE DEF taken, b
  <2>3. Reads(ep[s], e)
    BY <2>2, HandlerContinues, ContinuesTransitive
  <2> HIDE DEF e
  <2> QED
    BY <1>1, <2>1, <2>3 DEF Reads
<1>4. CASE LosePeer(s)
  <2> DEFINE e == PeerDisconnected([ep[s] EXCEPT !.link = 0])
  <2>1. Local(s, e, <<>>) /\ UNCHANGED got /\ Reads(ep[s], e)
    BY <1>0, <1>4, HandlerContinues DEF LosePeer
  <2> HIDE DEF e
  <2> QED
    BY <1>1, <2>1 DEF Reads
<1>5. CASE GraceExpires(s)
  <2>1. Local(s, PeerLeft(ep[s]), <<>>) /\ UNCHANGED got /\ Continues(ep[s], PeerLeft(ep[s]))
        /\ PeerLeft(ep[s]).status = "closed"
    BY <1>0, <1>5, HandlerContinues DEF GraceExpires
  <2> QED
    BY <1>1, <2>1
<1> QED
  BY <1>2, <1>3, <1>4, <1>5

\* The control frames.
LEMMA ReceiveControl ==
    ASSUME OInv, NEW s \in Side,
           \/ ReceiveEof(s) \/ ReceiveAbort(s) \/ ReceiveFlow(s)
           \/ ReceiveResume(s) \/ ReceiveAck(s)
    PROVE  \E e, out : \E taken \in BOOLEAN :
              ControlStep(s, e, out, taken) /\ NoEofSent(s, e, out, taken)
<1>0. ep[s] \in Endpoint /\ IInv
  BY ObjectFacts DEF OInv
<1>1. ASSUME NEW t, t # "data", Arrives(s, t), NEW e, Continues(ep[s], e),
             NEW out \in {<<>>, <<Ctl("flow")>>}, Handle(s, e, out), UNCHANGED got,
             e.readClosed => ep[s].readClosed \/ e.status = "closed" \/ t = "eof"
      PROVE  ControlStep(s, e, out, TRUE) /\ NoEofSent(s, e, out, TRUE)
  <2>1. out \in Seq(Frame) /\ Control(out) /\ \A i \in 1 .. Len(out) : out[i].t # "eof"
    <3>1. CASE out = <<>>
      BY <3>1, ControlSeqs
    <3>2. CASE out = <<Ctl("flow")>>
      <4>1. /\ out \in Seq(Frame) /\ Control(out) /\ Len(out) = 1
            /\ out[1].t = "flow"
        BY <3>2, ControlSeqs
      <4> QED
        BY <4>1
    <3> QED
      BY <3>1, <3>2
  <2>2. /\ wire[Other(s)][ep[s].link] # <<>>
        /\ Head(wire[Other(s)][ep[s].link]).t = t
    BY <1>1 DEF Arrives, Arriving
  <2>3. ControlStep(s, e, out, TRUE)
    BY <1>1, <2>1, <2>2, HandlerControl DEF Handle
  <2> QED
    BY <1>1, <2>1, <2>2, <2>3 DEF NoEofSent, Continues
<1>2. CASE ReceiveEof(s)
  <2> DEFINE e == MaybeFinalize(EndRead(ep[s]))
  <2>1. Arrives(s, "eof") /\ Handle(s, e, <<>>) /\ UNCHANGED got /\ Continues(ep[s], e)
    BY <1>0, <1>2, HandlerContinues DEF ReceiveEof
  <2> HIDE DEF e
  <2> QED
    BY <1>1, <2>1
<1>3. CASE ReceiveAbort(s)
  <2> DEFINE e == Finalize(Fail(ShutDown(ep[s])))
  <2>1. Arrives(s, "abort") /\ Handle(s, e, <<>>) /\ UNCHANGED got /\ Continues(ep[s], e)
        /\ e.status = "closed"
    BY <1>0, <1>3, HandlerContinues DEF ReceiveAbort
  <2> HIDE DEF e
  <2> QED
    BY <1>1, <2>1
<1>4. CASE ReceiveFlow(s)
  <2> DEFINE e == [ep[s] EXCEPT !.flowEnabled = TRUE]
  <2>1. Arrives(s, "flow") /\ Handle(s, e, <<>>) /\ UNCHANGED got /\ Reads(ep[s], e)
    BY <1>0, <1>4, FieldReads DEF ReceiveFlow
  <2> HIDE DEF e
  <2> QED
    BY <1>1, <2>1 DEF Reads
<1>5. CASE ReceiveResume(s)
  <2> DEFINE e == WakeFlow([ep[s] EXCEPT !.inFlight = 0])
  <2>1. Arrives(s, "resume") /\ Handle(s, e, <<Ctl("flow")>>) /\ UNCHANGED got
        /\ Reads(ep[s], e)
    BY <1>0, <1>5, HandlerContinues DEF ReceiveResume
  <2> HIDE DEF e
  <2> QED
    BY <1>1, <2>1 DEF Reads
<1>6. CASE ReceiveAck(s)
  <2> DEFINE b == Head(Arriving(s)).bytes
             e == Acknowledge(ep[s], b)
  <2>1. Arrives(s, "ack") /\ Handle(s, e, <<>>) /\ UNCHANGED got
    BY <1>6 DEF ReceiveAck
  <2>2. b \in Nat
    BY <1>0, <2>1, ArrivingFacts DEF Frame
  <2> HIDE DEF b
  <2>3. Reads(ep[s], e)
    BY <1>0, <2>2, HandlerContinues
  <2> HIDE DEF e
  <2> QED
    BY <1>1, <2>1, <2>3 DEF Reads
<1> QED
  BY <1>2, <1>3, <1>4, <1>5, <1>6

\* close() sends its eof.
LEMMA CloseControl ==
    ASSUME OInv, NEW s \in Side, CloseCompletes(s)
    PROVE  \E e : /\ ControlStep(s, e, <<Ctl("eof")>>, FALSE)
                  /\ e.eof = "sent" /\ e.writeStatus = "closed" /\ e.sent = e.submitted
                  /\ e.readClosed = ep[s].readClosed
<1> DEFINE d == [ep[s] EXCEPT !.writeStatus = "closed", !.eof = "sent"]
           e == MaybeFinalize(d)
<1>1. /\ d \in Endpoint /\ d.sent = ep[s].sent /\ d.submitted = ep[s].submitted
      /\ d.items = ep[s].items /\ d.link = ep[s].link /\ d.status = ep[s].status
      /\ d.readClosed = ep[s].readClosed /\ d.reader = ep[s].reader
      /\ d.eof = "sent" /\ d.writeStatus = "closed"
  <2>1. ep[s] \in Endpoint
    BY ObjectFacts DEF OInv
  <2> QED
    BY <2>1, EofFields
<1>2. Exchange(s, ep[s].link, e, <<Ctl("eof")>>, FALSE) /\ UNCHANGED got
  BY DEF CloseCompletes, Local
<1> HIDE DEF d
<1>3. Reads(d, e)
  BY <1>1, MethodReads
<1> HIDE DEF e
<1>4. ep'[s] = e
  BY <1>2 DEF Exchange, OInv, IInv, TypeOK
<1>5. Stream(s)' = Stream(s) /\ got'[Other(s)] = got[Other(s)]
  BY <1>1, <1>2, <1>3, <1>4 DEF Reads, Continues, Stream
<1>6. e.reader = "waiting" => e.items = <<>>
  BY <1>1, <1>3 DEF Reads, Continues, OInv, Waits
<1>7. <<Ctl("eof")>> \in Seq(Frame) /\ Control(<<Ctl("eof")>>)
  BY ControlSeqs
<1>8. ControlStep(s, e, <<Ctl("eof")>>, FALSE)
  BY <1>1, <1>2, <1>3, <1>5, <1>6, <1>7 DEF ControlStep, Reads, Continues
<1>9. ep[s].sent = ep[s].submitted
  BY DEF CloseCompletes, Flushed
<1> QED
  BY <1>1, <1>3, <1>8, <1>9 DEF Reads, Continues

\* The first item moves from the queue to the consumer.
LEMMA MovedItem ==
    ASSUME NEW S, NEW a \in Seq(S), NEW q \in Seq(S), q # <<>>
    PROVE  Append(a, Head(q)) \o Tail(q) = a \o q
  OBVIOUS

\* next().
LEMMA NextCallControl ==
    ASSUME OInv, NEW s \in Side, NextCall(s)
    PROVE  \E e, out : ControlStep(s, e, out, FALSE) /\ NoEofSent(s, e, out, FALSE)
<1> DEFINE acks == Acks(ep[s])
<1>0. /\ ep[s] \in Endpoint /\ ep[s].items \in Seq(Item) /\ got[s] \in Seq(Item)
      /\ ep \in [Side -> Endpoint] /\ got \in [Side -> Seq(Item)]
      /\ Other(s) # s /\ Other(s) \in Side
  BY ObjectFacts, ConstantFacts DEF OInv, Endpoint, IInv, TypeOK
<1>1. /\ acks \in Seq(Frame) /\ Control(acks)
      /\ \A i \in 1 .. Len(acks) : acks[i].t # "eof"
  <2>1. CASE ep[s].consumed > 0
    <3> DEFINE f == [t |-> "ack", bytes |-> ep[s].consumed]
    <3>1. f \in Frame /\ f.t = "ack"
      BY <1>0, <2>1 DEF Endpoint, Frame
    <3>2. acks = <<f>>
      BY <2>1 DEF Acks
    <3> HIDE DEF f, acks
    <3>3. acks \in Seq(Frame) /\ Len(acks) = 1 /\ acks[1].t = "ack"
      BY <3>1, <3>2
    <3> QED
      BY <3>3 DEF Control
  <2>2. CASE ~(ep[s].consumed > 0)
    BY <2>2, ControlSeqs DEF Acks
  <2> QED
    BY <2>1, <2>2
<1> HIDE DEF acks
<1>2. CASE ep[s].items # <<>>
  <2> DEFINE e == [ep[s] EXCEPT !.items = Tail(@),
                                !.consumed = SizeOf[Head(ep[s].items).n]]
  <2>1. /\ Exchange(s, ep[s].link, e, acks, FALSE)
        /\ got' = [got EXCEPT ![s] = Append(@, Head(ep[s].items))]
        /\ ep[s].reader = "busy"
    BY <1>2 DEF NextCall, Local, acks
  <2>2. /\ e.link = ep[s].link /\ e.sent = ep[s].sent /\ e.submitted = ep[s].submitted
        /\ e.status = ep[s].status /\ e.writeStatus = ep[s].writeStatus
        /\ e.readClosed = ep[s].readClosed /\ e.reader = ep[s].reader
        /\ e.eof = ep[s].eof /\ e.items = Tail(ep[s].items)
    BY <1>0 DEF Endpoint
  <2> HIDE DEF e
  <2>3. ep'[s] = e /\ got'[s] = Append(got[s], Head(ep[s].items)) /\ got'[Other(s)] = got[Other(s)]
    BY <1>0, <2>1 DEF Exchange
  <2>4. Stream(s)' = Stream(s)
    <3>1. Append(got[s], Head(ep[s].items)) \o Tail(ep[s].items) = got[s] \o ep[s].items
      <4>1. got[s] \in Seq(Item) /\ ep[s].items \in Seq(Item)
        BY <1>0 DEF Endpoint
      <4> QED
        BY ONLY <1>2, <4>1, MovedItem
    <3>2. got'[s] \o ep'[s].items = got[s] \o ep[s].items
      BY ONLY <2>2, <2>3, <3>1
    <3> QED
      BY <3>2 DEF Stream
  <2> QED
    BY <1>1, <2>1, <2>2, <2>3, <2>4 DEF ControlStep, NoEofSent
<1>3. CASE ep[s].items = <<>>
  <2> DEFINE e == [ep[s] EXCEPT !.consumed = 0,
                                !.reader = IF ep[s].readClosed THEN "done" ELSE "waiting"]
  <2>1. Exchange(s, ep[s].link, e, acks, FALSE) /\ UNCHANGED got
    BY <1>3 DEF NextCall, Local, acks
  <2>2. /\ e.link = ep[s].link /\ e.sent = ep[s].sent /\ e.submitted = ep[s].submitted
        /\ e.status = ep[s].status /\ e.writeStatus = ep[s].writeStatus
        /\ e.readClosed = ep[s].readClosed
        /\ e.reader = (IF ep[s].readClosed THEN "done" ELSE "waiting")
        /\ e.eof = ep[s].eof /\ e.items = ep[s].items
    BY <1>0 DEF Endpoint
  <2> HIDE DEF e
  <2>3. ep'[s] = e
    BY <1>0, <2>1 DEF Exchange
  <2>4. Stream(s)' = Stream(s)
    BY <2>1, <2>2, <2>3 DEF Stream
  <2> QED
    BY <1>1, <1>3, <2>1, <2>2, <2>4 DEF ControlStep, NoEofSent
<1> QED
  BY <1>2, <1>3

\* A control step preserves the invariant.
LEMMA ControlOInv ==
    ASSUME OInv, IInv', NEW s \in Side, NEW e, NEW out, NEW taken \in BOOLEAN,
           ControlStep(s, e, out, taken)
    PROVE  OInv'
  BY ExchangeOInv DEF ControlStep

-----------------------------------------------------------------------------
(* The quiet actions.                                                        *)

\* Side s becomes e; nothing else happens. A chunk may be submitted while the
\* write side is open; close() may reject.
QuietStep(s, e) ==
    /\ ep' = [ep EXCEPT ![s] = e]
    /\ e.link = ep[s].link /\ e.sent = ep[s].sent
    /\ e.readClosed = ep[s].readClosed /\ e.reader = ep[s].reader
    /\ e.items = ep[s].items /\ e.status = ep[s].status
    /\ e.submitted # ep[s].submitted => ep[s].writeStatus = "writable"
    /\ ep[s].writeStatus = "closed" => e.writeStatus = "closed"
    /\ e.eof # ep[s].eof => ep[s].eof = "none" /\ e.eof = "rejected"
    /\ UNCHANGED <<wire, dead, got>>

\* send(), the first half of close(), a rejected close() and the writer's waits.
LEMMA QuietActions ==
    ASSUME IInv, NEW s \in Side,
           \/ AppSend(s) \/ AppClose(s) \/ CloseRejects(s)
           \/ WriterFails(s) \/ WaitForPeer(s) \/ WaitForFlowWindow(s)
           \/ SendBuffers(s)
    PROVE  \E e : QuietStep(s, e)
<1>0. ep[s] \in Endpoint /\ ep \in [Side -> Endpoint]
  BY ObjectFacts
<1>1. CASE AppSend(s)
  <2>1. QuietStep(s, [ep[s] EXCEPT !.submitted = @ + 1])
    BY <1>0, <1>1 DEF AppSend, QuietStep, Endpoint
  <2> QED
    BY <2>1
<1>2. CASE AppClose(s)
  <2>1. QuietStep(s, [ep[s] EXCEPT !.writeStatus = "closing"])
    BY <1>0, <1>2 DEF AppClose, QuietStep, Endpoint
  <2> QED
    BY <2>1
<1>3. CASE CloseRejects(s)
  <2>1. QuietStep(s, [ep[s] EXCEPT !.eof = "rejected"])
    BY <1>0, <1>3 DEF CloseRejects, QuietStep, Endpoint
  <2> QED
    BY <2>1
<1>4. CASE WriterFails(s) \/ WaitForPeer(s) \/ WaitForFlowWindow(s)
  <2>1. PICK w : ep' = [ep EXCEPT ![s].writer = w] /\ UNCHANGED <<wire, dead, got>>
    BY <1>4 DEF WriterFails, WaitForPeer, WaitForFlowWindow
  <2>2. QuietStep(s, [ep[s] EXCEPT !.writer = w])
    BY <1>0, <2>1 DEF QuietStep, Endpoint
  <2> QED
    BY <2>2
<1>5. CASE SendBuffers(s)
  <2> DEFINE e == [Taken(s) EXCEPT !.writer = "buffering", !.bufGen = ep[s].link]
  <2>1. QuietStep(s, e)
    BY <1>0, <1>5 DEF SendBuffers, Taken, QuietStep, Endpoint
  <2> QED
    BY <2>1
<1> QED
  BY <1>1, <1>2, <1>3, <1>4, <1>5

\* A quiet step preserves the invariant.
LEMMA QuietStepOInv ==
    ASSUME OInv, IInv', NEW s \in Side, NEW e, QuietStep(s, e)
    PROVE  OInv'
  BY QuietOInv DEF QuietStep

-----------------------------------------------------------------------------
(* Chunks sent and received.                                                 *)

\* Side s hands its next chunk to its channel.
AcceptStep(s) ==
    /\ UNCHANGED <<dead, got>>
    /\ ep'[Other(s)] = ep[Other(s)]
    /\ ep'[s].link = ep[s].link /\ ep'[s].sent = ep[s].sent + 1
    /\ ep'[s].submitted = ep[s].submitted /\ ep[s].sent < ep[s].submitted
    /\ ep'[s].readClosed = ep[s].readClosed /\ ep'[s].reader = ep[s].reader
    /\ ep'[s].items = ep[s].items /\ ep'[s].eof = ep[s].eof
    /\ ep'[s].status = ep[s].status /\ ep'[s].writeStatus = ep[s].writeStatus
    /\ wire'[Other(s)] = wire[Other(s)]
    /\ \A g \in Gen :
          wire'[s][g] = IF g = ep[s].link /\ g \notin dead[Other(s)]
                        THEN wire[s][g] \o <<[t |-> "data", n |-> ep[s].sent + 1]>>
                        ELSE wire[s][g]

\* The channel takes a chunk at once, or when its buffer drains.
LEMMA AcceptActions ==
    ASSUME IInv, NEW s \in Side, SendNow(s) \/ BufferDrains(s)
    PROVE  AcceptStep(s)
<1>0. ep[s] \in Endpoint /\ Good(ep[s]) /\ ep[s].link \in Gen
  BY ObjectFacts
<1>1. ASSUME NEW e \in Endpoint, e.link = ep[s].link, e.sent = ep[s].sent,
             e.submitted = ep[s].submitted, e.readClosed = ep[s].readClosed,
             e.reader = ep[s].reader, e.items = ep[s].items, e.eof = ep[s].eof,
             e.status = ep[s].status, e.writeStatus = ep[s].writeStatus,
             ep[s].sent < ep[s].submitted, Accept(s, e), UNCHANGED got
      PROVE  AcceptStep(s)
  <2> DEFINE f == [e EXCEPT !.sent = @ + 1, !.writer = "run", !.bufGen = 0]
             out == <<[t |-> "data", n |-> e.sent + 1]>>
  <2>1. Exchange(s, ep[s].link, f, out, FALSE)
    BY <1>1 DEF Accept, Local
  <2>2. /\ f.link = e.link /\ f.sent = e.sent + 1 /\ f.submitted = e.submitted
        /\ f.readClosed = e.readClosed /\ f.reader = e.reader /\ f.items = e.items
        /\ f.eof = e.eof /\ f.status = e.status /\ f.writeStatus = e.writeStatus
    BY <1>1 DEF Endpoint
  <2> HIDE DEF f, out
  <2>3. Exchanged(s, Other(s), ep[s].link, f, out, FALSE)
    BY <1>0, <2>1, ExchangeFacts
  <2>4. /\ dead \in [Side -> SUBSET Gen] /\ dead' = [dead EXCEPT ![s] = dead[s]]
        /\ wire \in [Side -> [Gen -> Seq(Frame)]]
    BY <1>1, <2>1, <2>2 DEF Exchange, IInv, TypeOK
  <2>5. dead' = dead
    BY <2>4
  <2>6. wire'[Other(s)] = wire[Other(s)]
    <3>1. wire' = [wire EXCEPT
                ![s][ep[s].link] = IF ep[s].link \in dead[Other(s)] THEN @ ELSE @ \o out,
                ![Other(s)][ep[s].link] = wire[Other(s)][ep[s].link]]
      BY <1>1, <2>1, <2>2, <2>3 DEF Exchange, Exchanged
    <3> QED
      BY <1>0, <2>3, <2>4, <3>1 DEF Exchanged
  <2>7. ASSUME NEW g \in Gen
        PROVE  wire'[s][g] = IF g = ep[s].link /\ g \notin dead[Other(s)]
                             THEN wire[s][g] \o out ELSE wire[s][g]
    BY <1>0, <2>3 DEF Exchanged
  <2> QED
    BY <1>1, <2>2, <2>3, <2>5, <2>6, <2>7 DEF AcceptStep, Exchanged, out
<1>2. CASE SendNow(s)
  <2>1. Accept(s, Taken(s)) /\ UNCHANGED got /\ ep[s].sent < ep[s].submitted
    BY <1>2 DEF SendNow, Admitted, HasWork
  <2>2. Good(Taken(s))
    BY <1>2, TakenGood DEF SendNow
  <2>3. /\ Taken(s) \in Endpoint /\ Taken(s).link = ep[s].link
        /\ Taken(s).sent = ep[s].sent /\ Taken(s).submitted = ep[s].submitted
        /\ Taken(s).readClosed = ep[s].readClosed /\ Taken(s).reader = ep[s].reader
        /\ Taken(s).items = ep[s].items /\ Taken(s).eof = ep[s].eof
        /\ Taken(s).status = ep[s].status /\ Taken(s).writeStatus = ep[s].writeStatus
    <3>1. Taken(s) = [ep[s] EXCEPT !.inFlight = @ + Credit(ep[s], ChunkSize(s))]
      BY DEF Taken
    <3> QED
      BY <1>0, <2>2, <3>1 DEF Good, Endpoint
  <2> QED
    BY <1>1, <2>1, <2>3
<1>3. CASE BufferDrains(s)
  <2>1. Accept(s, ep[s]) /\ UNCHANGED got /\ ep[s].sent < ep[s].submitted
    BY <1>0, <1>3 DEF BufferDrains, Good, WorkOf
  <2> QED
    BY <1>0, <1>1, <2>1
<1> QED
  BY <1>2, <1>3

\* Sending a chunk preserves the invariant.
LEMMA AcceptOInv ==
    ASSUME OInv, IInv', NEW s \in Side, AcceptStep(s)
    PROVE  OInv'
<1> DEFINE o == Other(s)
<1>0. o \in Side /\ s = Other(o) /\ o # s /\ \A t \in Side : t = s \/ t = o
  BY DEF Side, Other
<1> PICK g \in Gen : g = ep[s].link
  BY ObjectFacts DEF OInv
<1>1. \A t \in Side : /\ ep'[t].link = ep[t].link /\ ep'[t].readClosed = ep[t].readClosed
                      /\ ep'[t].items = ep[t].items /\ ep'[t].reader = ep[t].reader
                      /\ Stream(t)' = Stream(t) /\ Stream(t) \in Seq(Item)
  <2>1. \A t \in Side : Stream(t) \in Seq(Item)
    BY StreamType DEF OInv
  <2> QED
    BY <1>0, <2>1 DEF AcceptStep, Stream
<1>2. \A t \in Side, h \in Gen : wire[t][h] \in Seq(Frame)
  BY DEF OInv, IInv, TypeOK
<1>3. Channels'
  <2>1. Top' = Top /\ UNCHANGED dead /\ "client" \in Side /\ "server" \in Side
    BY <1>1, ConstantFacts DEF AcceptStep, Top
  <2>2. \A t \in Side, h \in Gen : h = 0 \/ h > Top => wire'[t][h] = <<>>
    <3>1. g \notin dead[o] => g <= Top /\ g # 0
      BY <1>0, ChannelFacts DEF OInv, Had
    <3>2. g \in Nat /\ Top \in Nat
      BY ChannelFacts, GenAssumption DEF OInv, Gen
    <3>3. \A h \in Gen : h # g \/ g \in dead[o] => wire'[s][h] = wire[s][h]
      BY DEF AcceptStep
    <3>4. \A h \in Gen : wire'[o][h] = wire[o][h]
      BY DEF AcceptStep
    <3>5. \A t \in Side, h \in Gen : h = 0 \/ h > Top => wire[t][h] = <<>>
      BY DEF OInv, Channels
    <3>6. ASSUME NEW t \in Side, NEW h \in Gen, h = 0 \/ h > Top
          PROVE  wire'[t][h] = wire[t][h]
      <4>1. CASE t = s
        <5>1. h # g \/ g \in dead[o]
          BY <3>1, <3>2, <3>6
        <5>2. wire'[s][h] = wire[s][h]
          BY <3>3, <5>1
        <5> QED
          BY <4>1, <5>2
      <4>2. CASE t = o
        BY <3>4, <4>2
      <4> QED
        BY <1>0, <4>1, <4>2
    <3> QED
      BY <3>5, <3>6
  <2>3. \A h \in Gen : \A i \in 1 .. Len(wire'["client"][h]) :
          wire'["client"][h][i].t = "ready" => i = 1 /\ h # ep'["server"].link
    <3> SUFFICES ASSUME NEW h \in Gen, NEW i \in 1 .. Len(wire'["client"][h]),
                        wire'["client"][h][i].t = "ready"
                 PROVE  i \in 1 .. Len(wire["client"][h]) /\ wire["client"][h][i].t = "ready"
      BY <1>1, <2>1 DEF OInv, Channels
    <3>1. CASE wire'["client"][h] = wire["client"][h]
      BY <3>1
    <3>2. CASE wire'["client"][h] # wire["client"][h]
      <4> DEFINE f == [t |-> "data", n |-> ep[s].sent + 1]
      <4>1. wire'["client"][h] = wire["client"][h] \o <<f>> /\ f.t = "data"
        BY <1>0, <2>1, <3>2 DEF AcceptStep
      <4> HIDE DEF f
      <4>2. wire["client"][h] \in Seq(Frame)
        BY <1>2, <2>1
      <4> QED
        BY <4>1, <4>2
    <3> QED
      BY <3>1, <3>2
  <2> QED
    BY <1>1, <2>1, <2>2, <2>3 DEF OInv, Channels
<1>4. Waits'
  BY <1>1 DEF OInv, Waits
<1>5. Ordered(o)'
  <2>1. \A h \in Gen : h # g => wire'[s][h] = wire[s][h]
    BY DEF AcceptStep
  <2>2. wire'[s][g] = IF g \in dead[o] THEN wire[s][g]
                      ELSE wire[s][g] \o <<[t |-> "data", n |-> ep[s].sent + 1]>>
    BY DEF AcceptStep
  <2>3. /\ UNCHANGED dead /\ ep'[o] = ep[o] /\ ep'[s].link = ep[s].link
        /\ ep'[s].sent = ep[s].sent + 1
    BY DEF AcceptStep
  <2>4. IInv /\ Channels /\ Ordered(o) /\ s = Other(o)
    BY <1>0 DEF OInv
  <2> HIDE DEF o
  <2> QED
    BY <1>0, <1>1, <2>1, <2>2, <2>3, <2>4, SentOrdered
<1>6. Ordered(s)'
  <2>1. Keeps(s) /\ Keeps(o)
    BY <1>0, <1>1 DEF Keeps, Had, AcceptStep
  <2>2. \A h \in Gen : Increasing(wire'[o][h]) /\ Flight(s, h)' = Flight(s, h)
    BY DEF AcceptStep, OInv, Ordered, Flight
  <2>3. ep'[o].sent = ep[o].sent
    BY DEF AcceptStep
  <2> QED
    BY <1>1, <2>1, <2>2, <2>3, Undisturbed DEF OInv
<1> QED
  BY <1>0, <1>3, <1>4, <1>5, <1>6 DEF OInv

\* Side s takes a chunk.
ReceiveStep(s) ==
    LET o == Other(s)
        g == ep[s].link
        n == Head(wire[o][g]).n
    IN  /\ g # 0 /\ wire[o][g] # <<>> /\ Head(wire[o][g]).t = "data"
        /\ UNCHANGED dead
        /\ ep'[o] = ep[o] /\ got'[o] = got[o] /\ wire'[s] = wire[s]
        /\ ep'[s].link = g /\ ep'[s].readClosed = ep[s].readClosed
        /\ ep'[s].sent = ep[s].sent /\ ep'[s].submitted = ep[s].submitted
        /\ ep'[s].eof = ep[s].eof
        /\ ep'[s].status = ep[s].status /\ ep'[s].writeStatus = ep[s].writeStatus
        /\ ep'[s].reader = "waiting" => ep'[s].items = <<>>
        /\ ep'[s].reader = "done" => ep[s].reader = "done"
        /\ Stream(s)' = IF ep[s].readClosed THEN Stream(s)
                        ELSE Append(Stream(s), [n |-> n, g |-> g])
        /\ \A h \in Gen : wire'[o][h] = IF h = g THEN Tail(wire[o][g]) ELSE wire[o][h]

\* receiveData: too late, for the waiting reader, or for the queue.
LEMMA ReceiveAction ==
    ASSUME OInv, NEW s \in Side, ReceiveData(s)
    PROVE  ReceiveStep(s)
<1> DEFINE o == Other(s)
           g == ep[s].link
           n == Head(wire[o][g]).n
           item == [n |-> n, g |-> g]
<1>0. /\ ep[s] \in Endpoint /\ Good(ep[s]) /\ g \in Gen /\ IInv /\ o \in Side /\ o # s
      /\ ep[s].items \in Seq(Item) /\ got[s] \in Seq(Item)
      /\ ep \in [Side -> Endpoint] /\ got \in [Side -> Seq(Item)]
      /\ dead \in [Side -> SUBSET Gen] /\ wire \in [Side -> [Gen -> Seq(Frame)]]
  BY ObjectFacts, ConstantFacts DEF OInv, Endpoint, IInv, TypeOK
<1>1. /\ g # 0 /\ wire[o][g] # <<>> /\ Head(wire[o][g]).t = "data"
  BY DEF ReceiveData, Arrives, Arriving
<1>2. item \in Item
  <2>1. Head(wire[o][g]) \in Frame
    BY <1>0, <1>1
  <2> QED
    BY <1>0, <1>1, <2>1 DEF Frame, Item
<1>3. ASSUME NEW e, e.link = g, e.readClosed = ep[s].readClosed, e.sent = ep[s].sent,
             e.submitted = ep[s].submitted, e.eof = ep[s].eof, e.status = ep[s].status,
             e.writeStatus = ep[s].writeStatus,
             e.reader = "waiting" => e.items = <<>>,
             e.reader = "done" => ep[s].reader = "done",
             Handle(s, e, <<>>), got'[o] = got[o],
             got'[s] \o e.items = IF ep[s].readClosed THEN Stream(s)
                                  ELSE Append(Stream(s), item)
      PROVE  ReceiveStep(s)
  <2>1. Exchange(s, g, e, <<>>, TRUE)
    BY <1>3 DEF Handle
  <2>2. Exchanged(s, o, g, e, <<>>, TRUE)
    BY <1>0, <2>1, ExchangeFacts
  <2>3. dead' = [dead EXCEPT ![s] = dead[s]]
    BY <1>3, <2>1 DEF Exchange
  <2>4. dead' = dead
    BY <1>0, <2>3
  <2>5. \A h \in Gen : wire[s][h] \o <<>> = wire[s][h]
    BY <1>0
  <2>6. wire'[s] = wire[s]
    <3>1. \A h \in Gen : wire'[s][h] = wire[s][h]
      BY <2>2, <2>5 DEF Exchanged
    <3>2. wire' \in [Side -> [Gen -> Seq(Frame)]]
      <4>1. Tail(wire[o][g]) \in Seq(Frame)
        BY <1>0, <1>1
      <4>2. wire' = [wire EXCEPT
                ![s][g] = IF g \in dead[o] THEN wire[s][g] ELSE wire[s][g] \o <<>>,
                ![o][g] = Tail(wire[o][g])]
        BY <1>0, <1>3, <2>1 DEF Exchange
      <4>3. wire' = [wire EXCEPT ![s][g] = wire[s][g], ![o][g] = Tail(wire[o][g])]
        BY <1>0, <2>5, <4>2
      <4> HIDE DEF o, g
      <4> QED
        BY <1>0, <4>1, <4>3
    <3> QED
      BY <1>0, <3>1, <3>2
  <2>7. Stream(s)' = IF ep[s].readClosed THEN Stream(s) ELSE Append(Stream(s), item)
    BY <1>3, <2>2 DEF Stream, Exchanged
  <2> QED
    BY <1>1, <1>3, <2>2, <2>4, <2>6, <2>7 DEF ReceiveStep, Exchanged
<1>4. CASE ep[s].readClosed
  <2>1. Handle(s, ep[s], <<>>) /\ UNCHANGED got
    BY <1>4 DEF ReceiveData
  <2>2. ep[s].reader = "waiting" => ep[s].items = <<>>
    BY DEF OInv, Waits
  <2> QED
    BY <1>3, <1>4, <2>1, <2>2 DEF Stream
<1>5. CASE ~ep[s].readClosed /\ ep[s].reader = "waiting"
  <2> DEFINE e == [ep[s] EXCEPT !.reader = "busy", !.consumed = SizeOf[n]]
  <2>1. Handle(s, e, <<>>) /\ got' = [got EXCEPT ![s] = Append(@, item)]
    BY <1>5 DEF ReceiveData, Arriving
  <2>2. /\ e.link = g /\ e.readClosed = ep[s].readClosed /\ e.sent = ep[s].sent
        /\ e.submitted = ep[s].submitted /\ e.eof = ep[s].eof /\ e.status = ep[s].status
        /\ e.writeStatus = ep[s].writeStatus /\ e.reader = "busy"
        /\ e.items = ep[s].items
    BY <1>0 DEF Endpoint
  <2>3. ep[s].items = <<>>
    BY <1>5 DEF OInv, Waits
  <2> HIDE DEF e, item
  <2>4. got'[s] \o e.items = Append(Stream(s), item) /\ got'[o] = got[o]
    <3>1. got'[s] = Append(got[s], item) /\ got'[o] = got[o]
      BY <1>0, <2>1
    <3>2. Append(got[s], item) \o <<>> = Append(got[s] \o <<>>, item)
      BY <1>0, <1>2
    <3> QED
      BY <2>2, <2>3, <3>1, <3>2 DEF Stream
  <2> QED
    BY <1>3, <1>5, <2>1, <2>2, <2>4
<1>6. CASE ~ep[s].readClosed /\ ep[s].reader # "waiting"
  <2> DEFINE e == [ep[s] EXCEPT !.items = Enqueue(@, item)]
  <2>1. Handle(s, e, <<>>) /\ UNCHANGED got
    BY <1>6 DEF ReceiveData, Arriving
  <2>2. /\ e.link = g /\ e.readClosed = ep[s].readClosed /\ e.sent = ep[s].sent
        /\ e.submitted = ep[s].submitted /\ e.eof = ep[s].eof /\ e.status = ep[s].status
        /\ e.writeStatus = ep[s].writeStatus /\ e.reader = ep[s].reader
        /\ e.items = Append(ep[s].items, item)
    BY <1>0 DEF Endpoint, Enqueue
  <2> HIDE DEF e, item
  <2>3. got[s] \o Append(ep[s].items, item) = Append(got[s] \o ep[s].items, item)
    BY <1>0, <1>2
  <2> QED
    BY <1>3, <1>6, <2>1, <2>2, <2>3 DEF Stream
<1> QED
  BY <1>4, <1>5, <1>6

\* Taking a chunk preserves the invariant.
LEMMA ReceiveOInv ==
    ASSUME OInv, IInv', NEW s \in Side, ReceiveStep(s)
    PROVE  OInv'
<1> DEFINE o == Other(s)
<1>0. o \in Side /\ s = Other(o) /\ o # s /\ \A t \in Side : t = s \/ t = o
  BY DEF Side, Other
<1> PICK g \in Gen : g = ep[s].link
  BY ObjectFacts DEF OInv
<1> DEFINE n == Head(wire[o][g]).n
<1>1. /\ g # 0 /\ wire[o][g] # <<>> /\ Head(wire[o][g]).t = "data"
      /\ UNCHANGED dead
      /\ ep'[o] = ep[o] /\ got'[o] = got[o] /\ wire'[s] = wire[s]
      /\ ep'[s].link = g /\ ep'[s].readClosed = ep[s].readClosed
      /\ ep'[s].sent = ep[s].sent
      /\ ep'[s].reader = "waiting" => ep'[s].items = <<>>
      /\ Stream(s)' = IF ep[s].readClosed THEN Stream(s)
                      ELSE Append(Stream(s), [n |-> n, g |-> g])
      /\ \A h \in Gen : wire'[o][h] = IF h = g THEN Tail(wire[o][g]) ELSE wire[o][h]
  BY DEF ReceiveStep
<1> HIDE DEF n
<1>2. \A t \in Side, h \in Gen : wire[t][h] \in Seq(Frame)
  BY DEF OInv, IInv, TypeOK
<1>3. Channels'
  <2>1. \A t \in Side : ep'[t].link = ep[t].link
    BY <1>0, <1>1
  <2>2. Top' = Top /\ "client" \in Side /\ "server" \in Side
    BY <1>1, <2>1, ConstantFacts DEF Top
  <2>3. \A t \in Side, h \in Gen : h = 0 \/ h > Top => wire'[t][h] = <<>>
    <3>1. \A t \in Side, h \in Gen : h = 0 \/ h > Top => wire[t][h] = <<>>
      BY DEF OInv, Channels
    <3>2. \A h \in Gen : h = 0 \/ h > Top => h # g
      BY <1>0, <1>1, <3>1
    <3> QED
      BY <1>0, <1>1, <3>1, <3>2
  <2>4. \A h \in Gen : \A i \in 1 .. Len(wire'["client"][h]) :
          wire'["client"][h][i].t = "ready" => i = 1 /\ h # ep'["server"].link
    <3> SUFFICES ASSUME NEW h \in Gen, NEW i \in 1 .. Len(wire'["client"][h]),
                        wire'["client"][h][i].t = "ready"
                 PROVE  i = 1 /\ h # ep'["server"].link
      OBVIOUS
    <3>1. CASE wire'["client"][h] = wire["client"][h]
      BY <2>1, <2>2, <3>1 DEF OInv, Channels
    <3>2. CASE wire'["client"][h] # wire["client"][h]
      <4>1. o = "client" /\ h = g /\ wire'["client"][h] = Tail(wire["client"][g])
        BY <1>0, <1>1, <2>2, <3>2
      <4>2. s = "server"
        BY <1>0, <4>1 DEF Other
      <4>3. \A j \in 1 .. Len(wire["client"][g]) : wire["client"][g][j].t # "ready"
        BY <4>2 DEF OInv, Channels
      <4>4. wire["client"][g] \in Seq(Frame) /\ wire["client"][g] # <<>>
        BY <1>1, <1>2, <2>2, <4>1
      <4>5. i + 1 \in 1 .. Len(wire["client"][g]) /\ wire'["client"][h][i] = wire["client"][g][i + 1]
        BY <4>1, <4>4
      <4> QED
        BY <4>3, <4>5
    <3> QED
      BY <3>1, <3>2
  <2> QED
    BY <1>1, <2>1, <2>2, <2>3, <2>4 DEF OInv, Channels
<1>4. Waits'
  BY <1>0, <1>1 DEF OInv, Waits
<1>5. Ordered(s)'
  <2>1. IInv /\ Channels /\ Ordered(s) /\ Stream(s) \in Seq(Item) /\ Head(wire[o][g]).n = n
    BY StreamType DEF OInv, n
  <2>2. o = Other(s)
    OBVIOUS
  <2> HIDE DEF o
  <2> QED
    BY <1>1, <2>1, <2>2, TakenOrdered
<1>6. Ordered(o)'
  <2>1. Keeps(s) /\ Keeps(o)
    BY <1>0, <1>1 DEF Keeps, Had
  <2>2. \A h \in Gen : Increasing(wire'[s][h]) /\ Flight(o, h)' = Flight(o, h)
    BY <1>0, <1>1 DEF OInv, Ordered, Flight
  <2>3. Stream(o)' = Stream(o) /\ Stream(o) \in Seq(Item)
    BY <1>0, <1>1, StreamType DEF Stream, OInv
  <2> QED
    BY <1>0, <1>1, <2>1, <2>2, <2>3, Undisturbed DEF OInv
<1> QED
  BY <1>0, <1>3, <1>4, <1>5, <1>6 DEF OInv

-----------------------------------------------------------------------------
(* A new channel.                                                            *)

\* A side that has no channel gets one that it never had; the frames on that
\* channel change, but no chunk is on it for the other side, and its own keep
\* their order.
RebindStep(s, g) ==
    LET o == Other(s)
    IN  /\ ep[s].link = 0 /\ ep'[s].link = g /\ g \notin Had(s)
        /\ ep'[o] = ep[o]
        /\ ep'[s].sent = ep[s].sent /\ ep'[s].submitted = ep[s].submitted
        /\ ep'[s].items = ep[s].items /\ ep'[s].reader = ep[s].reader
        /\ ep'[s].readClosed = ep[s].readClosed /\ ep'[s].eof = ep[s].eof
        /\ ep'[s].status = ep[s].status /\ ep'[s].writeStatus = ep[s].writeStatus
        /\ UNCHANGED <<dead, got>>
        /\ \A t \in Side, h \in Gen : h # g => wire'[t][h] = wire[t][h]
        /\ \A t \in Side :
              /\ Numbers(wire'[t][g]) = Numbers(wire[t][g])
              /\ Increasing(wire'[t][g])

\* It preserves the order of the chunks.
LEMMA RebindOrdered ==
    ASSUME OInv, IInv', NEW s \in Side, NEW g \in Gen, RebindStep(s, g), NEW t \in Side
    PROVE  Ordered(t)' /\ Waits'
<1>0. Other(s) \in Side /\ Other(t) \in Side /\ \A r \in Side : r = s \/ r = Other(s)
  BY DEF Side, Other
<1>1. \A r \in Side : /\ ep'[r].sent = ep[r].sent /\ ep'[r].items = ep[r].items
                      /\ ep'[r].reader = ep[r].reader /\ ep'[r].readClosed = ep[r].readClosed
                      /\ Stream(r)' = Stream(r) /\ Stream(r) \in Seq(Item)
  <2>1. \A r \in Side : Stream(r) \in Seq(Item)
    BY StreamType DEF OInv
  <2> QED
    BY <1>0, <2>1 DEF RebindStep, Stream
<1>2. \A r \in Side : Keeps(r)
  <2>1. \A r \in Side : 0 \in dead[r]
    BY ChannelFacts DEF OInv
  <2> QED
    BY <1>0, <2>1 DEF RebindStep, Keeps, Had
<1>3. \A h \in Gen : Increasing(wire'[Other(t)][h]) /\ Flight(t, h)' = Flight(t, h)
  BY <1>0 DEF RebindStep, OInv, Ordered, Flight
<1>4. Waits'
  BY <1>1 DEF OInv, Waits
<1> QED
  BY <1>0, <1>1, <1>2, <1>3, <1>4, Undisturbed DEF OInv

\* peerReconnected on an endpoint that gets a channel.
LEMMA ReboundFacts ==
    ASSUME IInv, NEW s \in Side, NEW g \in Gen
    PROVE  LET f == Rebound(s, g) e == ep[s]
           IN  /\ f.link = g /\ f.sent = e.sent /\ f.submitted = e.submitted
               /\ f.items = e.items /\ f.reader = e.reader /\ f.readClosed = e.readClosed
               /\ f.eof = e.eof /\ f.status = e.status /\ f.writeStatus = e.writeStatus
<1> DEFINE e == ep[s]
           x == [e EXCEPT !.link = g]
           y == [x EXCEPT !.conn = "connected"]
           z == [y EXCEPT !.inFlight = 0]
<1>0. e \in Endpoint
  BY ObjectFacts
<1>1. x \in Endpoint /\ x.link = g /\ x.sent = e.sent /\ x.submitted = e.submitted
      /\ x.items = e.items /\ x.reader = e.reader /\ x.readClosed = e.readClosed
      /\ x.eof = e.eof /\ x.status = e.status /\ x.writeStatus = e.writeStatus
  BY <1>0 DEF Endpoint
<1>2. /\ z.link = x.link /\ z.sent = x.sent /\ z.submitted = x.submitted
      /\ z.items = x.items /\ z.reader = x.reader /\ z.readClosed = x.readClosed
      /\ z.eof = x.eof /\ z.status = x.status /\ z.writeStatus = x.writeStatus
  <2> HIDE DEF x
  <2> QED
    BY <1>1 DEF Endpoint
<1>3. z \in Endpoint
  <2>1. y \in Endpoint
    <3> HIDE DEF x
    <3> QED
      BY <1>1 DEF Endpoint
  <2> HIDE DEF y
  <2> QED
    BY <2>1 DEF Endpoint
<1>4. Rebound(s, g) \in {x, WakeWriter(z, "run")}
  <2>1. z = [x EXCEPT !.conn = "connected", !.inFlight = 0]
    BY <1>1 DEF Endpoint
  <2> HIDE DEF z
  <2> QED
    BY <2>1 DEF Rebound, PeerReconnected
<1>5. LET f == WakeWriter(z, "run")
      IN  /\ f.link = z.link /\ f.sent = z.sent /\ f.submitted = z.submitted
          /\ f.items = z.items /\ f.reader = z.reader /\ f.readClosed = z.readClosed
          /\ f.eof = z.eof /\ f.status = z.status /\ f.writeStatus = z.writeStatus
  <2> HIDE DEF z
  <2> QED
    BY <1>3 DEF WakeWriter, Endpoint
<1> HIDE DEF x, z
<1> QED
  BY <1>1, <1>2, <1>4, <1>5

\* Rebinding sends control frames.
LEMMA GreetingControl ==
    ASSUME NEW e
    PROVE  /\ Greeting(e) \in Seq(Frame) /\ Control(Greeting(e))
           /\ \A i \in 1 .. Len(Greeting(e)) : Greeting(e)[i].t # "eof"
<1> DEFINE q == <<Ctl("resume"), Ctl("flow")>>
<1>1. /\ q \in Seq(Frame) /\ Control(q)
      /\ \A i \in 1 .. Len(q) : q[i].t # "eof"
  <2>1. Ctl("resume").t = "resume" /\ Ctl("flow").t = "flow"
    BY DEF Ctl
  <2>2. Len(q) = 2 /\ q[1] = Ctl("resume") /\ q[2] = Ctl("flow")
    OBVIOUS
  <2>3. q \in Seq(Frame)
    BY CtlFrames
  <2> HIDE DEF q
  <2>4. \A i \in 1 .. Len(q) : i = 1 \/ i = 2
    BY <2>2
  <2> QED
    BY <2>1, <2>2, <2>3, <2>4 DEF Control
<1> HIDE DEF q
<1>2. Greeting(e) \in {q, <<>>}
  BY DEF Greeting, q
<1> QED
  BY <1>1, <1>2, ControlSeqs

\* claimPeer: the client's next channel.
LEMMA ClaimRebinds ==
    ASSUME OInv, Claim
    PROVE  /\ NextGen = Top + 1 /\ NextGen \in Gen /\ ep["client"].status = "open"
           /\ RebindStep("client", NextGen) /\ Channels'
           /\ \A t \in Side : \A i \in 1 .. Len(wire'[t][NextGen]) :
                 wire'[t][NextGen][i].t # "eof"
<1> DEFINE g == NextGen
           out == Greeting(ep["client"])
           w == <<Ctl("ready")>> \o out
<1>0. /\ "client" \in Side /\ "server" \in Side /\ Other("client") = "server"
      /\ \A t \in Side : t = "client" \/ t = "server"
      /\ ep \in [Side -> Endpoint] /\ wire \in [Side -> [Gen -> Seq(Frame)]]
      /\ Channels /\ IInv
  BY DEF Side, Other, OInv, IInv, TypeOK
<1>1. g = Top + 1 /\ Top \in Nat /\ g \in Gen /\ dead["client"] = 0 .. Top
  <2>1. ep["client"].link = 0 /\ dead["client"] = 0 .. Top /\ Top \in Nat /\ g <= MaxGen
    BY <1>0 DEF Claim, Channels
  <2>2. g = Top + 1
    <3>1. 0 \in Int /\ Top \in Int /\ 0 <= Top
      BY <2>1
    <3>2. Cardinality(0 .. Top) = Top + 1
      BY <3>1, FS_Interval
    <3> QED
      BY <2>1, <3>2 DEF NextGen
  <2> HIDE DEF g
  <2> QED
    BY <2>1, <2>2, GenAssumption DEF Gen
<1>2. /\ ep["client"].link = 0 /\ ep["client"].status = "open"
      /\ ep' = [ep EXCEPT !["client"] = Rebound("client", g)]
      /\ wire' = [wire EXCEPT !["client"][g] = w]
      /\ UNCHANGED <<dead, got>>
  BY DEF Claim
<1> HIDE DEF g
<1>3. /\ w \in Seq(Frame) /\ Len(w) = 1 + Len(out) /\ Len(out) \in Nat
      /\ \A i \in 2 .. Len(w) : w[i].t \notin {"data", "ready", "eof"}
      /\ w[1].t = "ready"
  <2>1. /\ out \in Seq(Frame) /\ Control(out) /\ \A i \in 1 .. Len(out) : out[i].t # "eof"
    BY GreetingControl
  <2>2. Ctl("ready") \in Frame /\ Ctl("ready").t = "ready"
    BY CtlFrames DEF Ctl
  <2> HIDE DEF out
  <2>3. w \in Seq(Frame) /\ Len(w) = 1 + Len(out) /\ Len(out) \in Nat /\ w[1] = Ctl("ready")
    BY <2>1, <2>2
  <2>4. ASSUME NEW i \in 2 .. Len(w) PROVE w[i].t \notin {"data", "ready", "eof"}
    <3>1. i - 1 \in 1 .. Len(out) /\ w[i] = out[i - 1]
      BY <2>1, <2>2, <2>3
    <3> QED
      BY <2>1, <3>1 DEF Control
  <2> QED
    BY <2>2, <2>3, <2>4
<1> HIDE DEF w, out
<1>4. \A i \in 1 .. Len(w) : i = 1 \/ i \in 2 .. Len(w)
  BY <1>3
<1>5. \A i \in 1 .. Len(w) : w[i].t \notin {"data", "eof"} /\ (w[i].t = "ready" => i = 1)
  BY <1>3, <1>4
<1>6. wire["client"][g] = <<>> /\ wire["server"][g] = <<>>
  BY <1>0, <1>1 DEF Channels
<1>7. /\ wire'["client"][g] = w /\ wire'["server"][g] = <<>>
      /\ \A t \in Side, h \in Gen : h # g => wire'[t][h] = wire[t][h]
  BY <1>0, <1>1, <1>2, <1>6
<1>8. Numbers(w) = {} /\ Increasing(w) /\ Numbers(<<>>) = {} /\ Increasing(<<>>)
  BY <1>5, NumbersEmpty DEF Numbers, Increasing
<1>9. /\ ep'["client"] = Rebound("client", g) /\ ep'["server"] = ep["server"]
  BY <1>0, <1>2
<1>10. RebindStep("client", g)
  <2>1. g \notin Had("client")
    BY <1>1, <1>2 DEF Had
  <2>2. \A t \in Side : Numbers(wire'[t][g]) = Numbers(wire[t][g]) /\ Increasing(wire'[t][g])
    BY <1>0, <1>6, <1>7, <1>8
  <2> QED
    BY <1>0, <1>1, <1>2, <1>7, <1>9, <2>1, <2>2, ReboundFacts DEF RebindStep
<1>11. Channels'
  <2>1. ep'["client"].link = g /\ ep'["server"].link = ep["server"].link
        /\ ep["server"].link \in Nat
    <3>1. ep["server"].link \in Gen
      BY <1>0, ObjectFacts
    <3> QED
      BY <1>0, <1>9, <1>10, <3>1, GenAssumption DEF RebindStep, Gen
  <2>2. Top' = g
    BY <1>1, <2>1 DEF Top
  <2>3. dead' = dead /\ dead["client"] = 0 .. (g - 1) /\ dead["server"] \subseteq 0 .. g
        /\ 0 \in dead["server"] /\ ep["server"].link <= Top /\ ep["server"].link # g
    BY <1>0, <1>1, <1>2, <2>1 DEF Channels
  <2>4. \A t \in Side : ep'[t].link # 0 => ep'[t].link \notin dead'[t]
    BY <1>0, <1>1, <2>1, <2>3 DEF Channels
  <2>5. \A t \in Side, h \in Gen : h = 0 \/ h > g => wire'[t][h] = <<>>
    <3>1. \A h \in Gen : h \in Nat /\ (h = 0 \/ h > g => h # g /\ (h = 0 \/ h > Top))
      BY <1>1, GenAssumption DEF Gen
    <3> QED
      BY <1>0, <1>7, <3>1 DEF Channels
  <2>6. \A h \in Gen : \A i \in 1 .. Len(wire'["client"][h]) :
          wire'["client"][h][i].t = "ready" => i = 1 /\ h # ep'["server"].link
    BY <1>0, <1>5, <1>7, <2>1, <2>3 DEF Channels
  <2>7. dead'["client"] = IF ep'["client"].link = 0 THEN 0 .. Top' ELSE 0 .. (Top' - 1)
    BY <1>1, <2>1, <2>2, <2>3
  <2>8. /\ Top' \in Nat /\ dead'["server"] \subseteq 0 .. Top' /\ 0 \in dead'["server"]
        /\ ep'["server"].link <= Top'
    BY <1>1, <2>1, <2>2, <2>3
  <2>9. \A t \in Side, h \in Gen : h = 0 \/ h > Top' => wire'[t][h] = <<>>
    BY <2>2, <2>5
  <2> QED
    BY <2>4, <2>6, <2>7, <2>8, <2>9 DEF Channels
<1>12. ASSUME NEW t \in Side, NEW i \in 1 .. Len(wire'[t][g]) PROVE wire'[t][g][i].t # "eof"
  <2>1. wire'[t][g] = w \/ wire'[t][g] = <<>>
    BY <1>0, <1>7
  <2> QED
    BY <1>5, <2>1
<1> QED
  BY <1>1, <1>2, <1>10, <1>11, <1>12 DEF g

\* activateStream: the server's stream takes the channel of a READY.
LEMMA ActivateRebinds ==
    ASSUME OInv, NEW g \in Gen, Activate(g)
    PROVE  RebindStep("server", g) /\ Channels' /\ ep["server"].status = "open"
<1> DEFINE mine == wire["server"][g]
           theirs == wire["client"][g]
           out == Greeting(ep["server"])
<1>0. /\ "client" \in Side /\ "server" \in Side /\ Other("server") = "client"
      /\ \A t \in Side : t = "client" \/ t = "server"
      /\ ep \in [Side -> Endpoint] /\ wire \in [Side -> [Gen -> Seq(Frame)]]
      /\ Channels /\ IInv /\ mine \in Seq(Frame) /\ theirs \in Seq(Frame)
      /\ \A s \in Side : Ordered(s)
  BY DEF Side, Other, OInv, IInv, TypeOK
<1>1. /\ g \notin dead["server"] /\ theirs # <<>> /\ Head(theirs).t = "ready"
      /\ ep["server"].status = "open" /\ ep["server"].link = 0
      /\ ep' = [ep EXCEPT !["server"] = Rebound("server", g)]
      /\ wire' = [wire EXCEPT !["client"][g] = Tail(@),
                              !["server"][g] = IF g \in dead["client"] THEN @ ELSE @ \o out]
      /\ UNCHANGED <<dead, got>>
  BY DEF Activate, Readies, MayActivate
<1>2. g # 0 /\ g <= Top /\ Top \in Nat /\ g \in Nat
  <2>1. g \in Nat /\ Top \in Nat
    BY <1>0, ChannelFacts, GenAssumption DEF Gen
  <2> QED
    BY <1>0, <1>1, <2>1 DEF Channels
<1>3. /\ wire'["client"][g] = Tail(theirs)
      /\ wire'["server"][g] = IF g \in dead["client"] THEN mine ELSE mine \o out
      /\ \A t \in Side, h \in Gen : h # g => wire'[t][h] = wire[t][h]
      /\ ep'["server"] = Rebound("server", g) /\ ep'["client"] = ep["client"]
  BY <1>0, <1>1
<1>4. /\ out \in Seq(Frame) /\ Control(out)
      /\ \A i \in 1 .. Len(out) : out[i].t # "eof"
  BY GreetingControl
<1> HIDE DEF out, mine, theirs
<1>5. Increasing(mine) /\ Increasing(theirs)
  BY <1>0 DEF Ordered, Other, mine, theirs
<1>6. /\ Numbers(wire'["client"][g]) = Numbers(theirs) /\ Increasing(wire'["client"][g])
      /\ \A i \in 1 .. Len(Tail(theirs)) :
            i + 1 \in 1 .. Len(theirs) /\ Tail(theirs)[i] = theirs[i + 1] /\ i + 1 # 1
  <2>1. /\ Numbers(Tail(theirs)) = Numbers(theirs) /\ Increasing(Tail(theirs))
    BY <1>0, <1>1, <1>5, NumbersTail
  <2>2. \A i \in 1 .. Len(Tail(theirs)) :
            i + 1 \in 1 .. Len(theirs) /\ Tail(theirs)[i] = theirs[i + 1] /\ i + 1 # 1
    BY <1>0, <1>1
  <2> QED
    BY <1>3, <2>1, <2>2
<1>7. /\ Numbers(wire'["server"][g]) = Numbers(mine) /\ Increasing(wire'["server"][g])
  <2>1. \A i \in 1 .. Len(out) : out[i].t # "data"
    BY <1>4 DEF Control
  <2> QED
    BY <1>0, <1>3, <1>4, <1>5, <2>1, NumbersCtl
<1>8. RebindStep("server", g)
  <2>1. g \notin Had("server")
    BY <1>1, <1>2 DEF Had
  <2>2. \A t \in Side : Numbers(wire'[t][g]) = Numbers(wire[t][g]) /\ Increasing(wire'[t][g])
    BY <1>0, <1>6, <1>7 DEF mine, theirs
  <2> QED
    <3> DEFINE f == Rebound("server", g)
               e == ep["server"]
    <3>1. /\ f.link = g /\ f.sent = e.sent /\ f.submitted = e.submitted
          /\ f.items = e.items /\ f.reader = e.reader /\ f.readClosed = e.readClosed
          /\ f.eof = e.eof /\ f.status = e.status /\ f.writeStatus = e.writeStatus
      BY <1>0, ReboundFacts
    <3> HIDE DEF f
    <3>2. ep'["server"] = f /\ ep'["client"] = ep["client"]
      BY <1>3 DEF f
    <3> QED
      BY <1>0, <1>1, <1>3, <2>1, <2>2, <3>1, <3>2 DEF RebindStep
<1>9. Channels'
  <2>1. ep'["server"].link = g /\ ep'["client"].link = ep["client"].link
    BY <1>0, <1>3, <1>8 DEF RebindStep
  <2>2. Top' = Top /\ dead' = dead
    BY <1>1, <2>1 DEF Top
  <2>3. \A t \in Side : ep'[t].link # 0 => ep'[t].link \notin dead'[t]
    BY <1>0, <1>1, <2>1, <2>2 DEF Channels
  <2>4. \A t \in Side, h \in Gen : h = 0 \/ h > Top => wire'[t][h] = <<>>
    <3>1. \A h \in Gen : h = 0 \/ h > Top => h # g
      BY <1>2 DEF Gen
    <3> QED
      BY <1>0, <1>3, <3>1 DEF Channels
  <2>5. \A h \in Gen : \A i \in 1 .. Len(wire'["client"][h]) :
          wire'["client"][h][i].t = "ready" => i = 1 /\ h # ep'["server"].link
    <3> SUFFICES ASSUME NEW h \in Gen, NEW i \in 1 .. Len(wire'["client"][h]),
                        wire'["client"][h][i].t = "ready"
                 PROVE  i = 1 /\ h # ep'["server"].link
      OBVIOUS
    <3>1. CASE h # g
      BY <1>0, <1>3, <2>1, <3>1 DEF Channels
    <3>2. CASE h = g
      <4>1. i + 1 \in 1 .. Len(theirs) /\ theirs[i + 1].t = "ready" /\ i + 1 # 1
        BY <1>3, <1>6, <3>2
      <4> QED
        BY <1>0, <4>1 DEF Channels, theirs
    <3> QED
      BY <3>1, <3>2
  <2> QED
    BY <1>0, <1>2, <2>1, <2>2, <2>3, <2>4, <2>5 DEF Channels
<1> QED
  BY <1>1, <1>8, <1>9

\* A refused channel is empty on its way to the server, and dead there.
LEMMA RefuseOInv ==
    ASSUME OInv, IInv', NEW g \in Gen, RefuseActivation(g)
    PROVE  OInv'
<1>0. /\ "client" \in Side /\ "server" \in Side
      /\ Other("server") = "client" /\ Other("client") = "server"
      /\ \A t \in Side : t = "client" \/ t = "server"
      /\ dead \in [Side -> SUBSET Gen] /\ wire \in [Side -> [Gen -> Seq(Frame)]]
      /\ Channels /\ IInv /\ \A s \in Side : Ordered(s)
  BY DEF Side, Other, OInv, IInv, TypeOK
<1>1. /\ wire["client"][g] # <<>> /\ Head(wire["client"][g]).t = "ready"
      /\ dead' = [dead EXCEPT !["server"] = @ \cup {g}]
      /\ wire' = [wire EXCEPT !["client"][g] = <<>>]
      /\ UNCHANGED <<ep, got>>
  BY DEF RefuseActivation, Readies
<1>2. g # ep["server"].link /\ g <= Top /\ g \in Nat
  <2>1. g \in Nat /\ Top \in Nat
    BY <1>0, ChannelFacts, GenAssumption DEF Gen
  <2>2. wire["client"][g] \in Seq(Frame)
    BY <1>0
  <2>3. 1 \in 1 .. Len(wire["client"][g]) /\ wire["client"][g][1].t = "ready"
    BY <1>1, <2>2
  <2> QED
    BY <1>0, <1>1, <2>1, <2>3 DEF Channels
<1>3. /\ dead'["client"] = dead["client"] /\ dead'["server"] = dead["server"] \cup {g}
      /\ wire'["client"][g] = <<>>
      /\ \A h \in Gen : h # g => wire'["client"][h] = wire["client"][h]
      /\ wire'["server"] = wire["server"]
  BY <1>0, <1>1
<1>4. \A t \in Side : Keeps(t)
  BY <1>0, <1>1, <1>3 DEF Keeps, Had
<1>5. \A t \in Side : Stream(t)' = Stream(t) /\ Stream(t) \in Seq(Item)
  BY <1>0, <1>1, StreamType DEF Stream
<1>6. Ordered("client")'
  <2>1. \A h \in Gen : Increasing(wire'["server"][h]) /\ Flight("client", h)' = Flight("client", h)
    BY <1>0, <1>3 DEF Ordered, Flight
  <2> QED
    BY <1>0, <1>1, <1>4, <1>5, <2>1, Undisturbed
<1>7. Ordered("server")'
  <2>1. ASSUME NEW h \in Gen
        PROVE  /\ Increasing(wire'["client"][h])
               /\ \/ Flight("server", h)' = Flight("server", h)
                  \/ Flight("server", h)' = {} /\ h \in dead'["server"]
    BY <1>0, <1>3, NumbersEmpty DEF Ordered, Flight
  <2> QED
    BY <1>0, <1>1, <1>4, <1>5, <2>1, Undisturbed
<1>8. Channels'
  <2>1. Top' = Top
    BY <1>1, <1>3 DEF Top
  <2>2. \A t \in Side : ep'[t].link # 0 => ep'[t].link \notin dead'[t]
    BY <1>0, <1>1, <1>2, <1>3 DEF Channels
  <2>3. dead'["server"] \subseteq 0 .. Top /\ 0 \in dead'["server"]
    BY <1>0, <1>2, <1>3 DEF Channels
  <2>4. \A t \in Side, h \in Gen : h = 0 \/ h > Top => wire'[t][h] = <<>>
    <3>1. \A h \in Gen : h = 0 \/ h > Top => wire["client"][h] = <<>> /\ wire["server"][h] = <<>>
      BY <1>0 DEF Channels
    <3>2. \A h \in Gen : h = 0 \/ h > Top => wire'["client"][h] = <<>>
      BY <1>3, <3>1
    <3>3. \A h \in Gen : h = 0 \/ h > Top => wire'["server"][h] = <<>>
      BY <1>3, <3>1
    <3> QED
      BY <1>0, <3>2, <3>3
  <2>5. \A h \in Gen : \A i \in 1 .. Len(wire'["client"][h]) :
          wire'["client"][h][i].t = "ready" => i = 1 /\ h # ep'["server"].link
    BY <1>0, <1>1, <1>3 DEF Channels
  <2> QED
    BY <1>0, <1>1, <1>3, <2>1, <2>2, <2>3, <2>4, <2>5 DEF Channels
<1>9. Waits'
  BY <1>1 DEF OInv, Waits
<1> QED
  BY <1>0, <1>6, <1>7, <1>8, <1>9 DEF OInv

-----------------------------------------------------------------------------
(* The invariant.                                                            *)

\* It holds initially: nothing has been sent but the first flow frames.
LEMMA InitOInv == Init => OInv
<1> SUFFICES ASSUME Init PROVE OInv
  OBVIOUS
<1>0. IInv
  BY InitIInv
<1>1. /\ 0 \in Gen /\ 1 \in Gen /\ "client" \in Side /\ "server" \in Side
      /\ \A s \in Side : Other(s) \in Side
      /\ \A g \in Gen : g \in Nat
  BY ConstantFacts, GenAssumption DEF Gen
<1>2. \A s \in Side : /\ ep[s].link = 1 /\ ep[s].sent = 0 /\ ep[s].reader = "busy"
                      /\ ep[s].items = <<>> /\ got[s] = <<>> /\ dead[s] = {0}
  BY DEF Init, NewEndpoint
<1>3. \A s \in Side, g \in Gen : wire[s][g] = IF g = 1 THEN <<Ctl("flow")>> ELSE <<>>
  BY DEF Init
<1>4. /\ Len(<<Ctl("flow")>>) = 1 /\ <<Ctl("flow")>>[1].t = "flow" /\ Len(<<>>) = 0
      /\ <<>> \o <<>> = <<>>
  BY ControlSeqs
<1>5. Top = 1
  BY <1>1, <1>2 DEF Top
<1>6. \A s \in Side, g \in Gen : \A i \in 1 .. Len(wire[s][g]) : wire[s][g][i].t = "flow"
  BY <1>3, <1>4
<1>7. Channels
  <2>1. 0 .. (Top - 1) = {0} /\ Top \in Nat /\ {0} \subseteq 0 .. Top
    BY <1>5
  <2>2. \A s \in Side, g \in Gen : g = 0 \/ g > Top => wire[s][g] = <<>>
    BY <1>1, <1>3, <1>5
  <2>3. /\ dead["client"] = IF ep["client"].link = 0 THEN 0 .. Top ELSE 0 .. (Top - 1)
        /\ dead["server"] \subseteq 0 .. Top /\ 0 \in dead["server"]
        /\ ep["server"].link <= Top
    <3>1. /\ ep["client"].link = 1 /\ dead["client"] = {0}
          /\ ep["server"].link = 1 /\ dead["server"] = {0}
      BY <1>1, <1>2
    <3>2. dead["client"] = 0 .. (Top - 1)
      BY <2>1, <3>1
    <3>3. dead["server"] \subseteq 0 .. Top /\ 0 \in dead["server"]
      BY <2>1, <3>1
    <3>4. ep["server"].link <= Top /\ ep["client"].link # 0
      BY <1>5, <3>1
    <3> QED
      BY <3>2, <3>3, <3>4
  <2>4. \A s \in Side : ep[s].link # 0 => ep[s].link \notin dead[s]
    BY <1>2
  <2>5. \A g \in Gen : \A i \in 1 .. Len(wire["client"][g]) :
          wire["client"][g][i].t = "ready" => i = 1 /\ g # ep["server"].link
    BY <1>1, <1>6
  <2> QED
    BY <2>1, <2>2, <2>3, <2>4, <2>5 DEF Channels
<1>8. \A s \in Side, g \in Gen : Flight(s, g) = {} /\ Increasing(wire[Other(s)][g])
  BY <1>1, <1>6 DEF Flight, Numbers, Increasing
<1>9. \A s \in Side : Stream(s) = <<>>
  BY <1>2, <1>4 DEF Stream
<1>10. ASSUME NEW s \in Side PROVE Ordered(s)
  <2>1. Known(s) = {}
    BY <1>4, <1>8, <1>9 DEF Known, Item
  <2>2. \A g \in Gen : Gapless(Flight(s, g))
    BY <1>8 DEF Gapless
  <2>3. Sequenced(s) /\ Received(s)
    BY <1>4, <1>9, <2>1 DEF Sequenced, Received
  <2>4. Follows(s) /\ Complete(s)
    BY <1>1, <1>2, <1>8, <1>9 DEF Follows, Complete, LastFrom
  <2> QED
    BY <1>8, <2>2, <2>3, <2>4 DEF Ordered
<1> QED
  BY <1>0, <1>2, <1>7, <1>10 DEF OInv, Waits

\* Every step preserves it.
LEMMA StepOInv == OInv /\ [Next]_vars => OInv'
<1> SUFFICES ASSUME OInv, [Next]_vars PROVE OInv'
  OBVIOUS
<1>0. IInv /\ IInv'
  BY StepIInv DEF OInv
<1>1. CASE UNCHANGED vars
  <2>1. UNCHANGED <<ep, wire, dead, got>>
    BY <1>1 DEF vars
  <2>2. \A s \in Side : QuietStep(s, ep[s])
    BY <1>0, <2>1 DEF QuietStep, IInv, TypeOK
  <2> QED
    BY <1>0, <2>2, QuietStepOInv, ConstantFacts
<1>2. ASSUME NEW s \in Side,
             \/ AppSend(s) \/ AppClose(s) \/ CloseRejects(s)
             \/ WriterFails(s) \/ WaitForPeer(s) \/ WaitForFlowWindow(s)
             \/ SendBuffers(s)
      PROVE  OInv'
  BY <1>0, <1>2, QuietActions, QuietStepOInv
<1>3. ASSUME NEW s \in Side,
             \/ AppAbort(s) \/ SendRejects(s) \/ LosePeer(s) \/ GraceExpires(s)
             \/ ReceiveEof(s) \/ ReceiveAbort(s) \/ ReceiveFlow(s)
             \/ ReceiveResume(s) \/ ReceiveAck(s)
      PROVE  OInv'
  BY <1>0, <1>3, LocalControl, ReceiveControl, ControlOInv
<1>4. ASSUME NEW s \in Side, CloseCompletes(s) \/ NextCall(s) PROVE OInv'
  BY <1>0, <1>4, CloseControl, NextCallControl, ControlOInv
<1>5. ASSUME NEW s \in Side, SendNow(s) \/ BufferDrains(s) PROVE OInv'
  BY <1>0, <1>5, AcceptActions, AcceptOInv
<1>6. ASSUME NEW s \in Side, ReceiveData(s) PROVE OInv'
  BY <1>0, <1>6, ReceiveAction, ReceiveOInv
<1>7. ASSUME NEW s \in Side, NEW g \in Gen, RebindStep(s, g), Channels' PROVE OInv'
  BY <1>0, <1>7, RebindOrdered DEF OInv
<1>8. CASE Claim
  BY <1>7, <1>8, ClaimRebinds, ConstantFacts
<1>9. ASSUME NEW g \in Gen, Activate(g) \/ RefuseActivation(g) PROVE OInv'
  BY <1>0, <1>7, <1>9, ActivateRebinds, RefuseOInv, ConstantFacts
<1> QED
  BY <1>1, <1>2, <1>3, <1>4, <1>5, <1>6, <1>8, <1>9 DEF Next, Write, Receive

\* The invariant holds in every reachable state.
THEOREM OrderInvariance == Spec => []OInv
<1>1. Init => OInv
  BY InitOInv
<1>2. OInv /\ [Next]_vars => OInv'
  BY StepOInv
<1> QED
  BY <1>1, <1>2, PTL DEF Spec

\* Whatever is retried, rebound or refused, over any number of channels: no
\* chunk reaches the reader twice, those of a channel come without a gap and in
\* the order of submission, and newer channels carry newer chunks.
THEOREM ChunksInOrder == Spec => []InOrder
<1>1. OInv => InOrder
  <2> SUFFICES ASSUME OInv, NEW s \in Side,
                      NEW i \in 1 .. Len(Stream(s)), NEW j \in 1 .. Len(Stream(s)), i < j
               PROVE  LET chunk == Stream(s)[i]
                          later == Stream(s)[j]
                      IN  /\ chunk.n # later.n
                          /\ chunk.n < later.n <=> chunk.g <= later.g
                          /\ s = "client" => chunk.g <= later.g
                          /\ j = i + 1 /\ chunk.g = later.g => later.n = chunk.n + 1
    BY DEF InOrder
  <2> DEFINE x == Stream(s)[i]
             y == Stream(s)[j]
  <2>1. x \in Item /\ y \in Item
    BY StreamType DEF OInv
  <2>2. x \in Known(s) /\ y \in Known(s)
    BY <2>1 DEF Known
  <2>3. /\ x.g = y.g => x.n < y.n
        /\ j = i + 1 /\ x.g = y.g => y.n = x.n + 1
        /\ s = "client" => x.g <= y.g
    BY DEF OInv, Ordered, Received
  <2>4. /\ x.g < y.g => x.n < y.n
        /\ y.g < x.g => y.n < x.n
    BY <2>2 DEF OInv, Ordered, Sequenced
  <2>5. x.n \in Nat /\ y.n \in Nat /\ x.g \in Nat /\ y.g \in Nat
    BY <2>1, GenAssumption DEF Item, Gen
  <2> HIDE DEF x, y
  <2>6. /\ x.n # y.n
        /\ x.n < y.n <=> x.g <= y.g
    BY <2>3, <2>4, <2>5
  <2> QED
    BY <2>3, <2>6 DEF x, y
<1> QED
  BY <1>1, OrderInvariance, PTL
-----------------------------------------------------------------------------
(* What an eof means.                                                        *)

\* Taking the first frame of a channel.
LEMMA EofTail ==
    ASSUME NEW q \in Seq(Frame), q # <<>>
    PROVE  /\ Ended(q) => Ended(Tail(q))
           /\ HasEof(Tail(q)) => HasEof(q)
           /\ Head(q).t = "eof" => HasEof(q)
           /\ Head(q).t = "eof" /\ Ended(q) => Numbers(q) = {}
<1> DEFINE r == Tail(q)
<1>1. /\ Len(r) = Len(q) - 1 /\ Len(q) \in Nat /\ Len(q) > 0
      /\ \A i \in 1 .. Len(r) : i + 1 \in 1 .. Len(q) /\ r[i] = q[i + 1]
      /\ 1 \in 1 .. Len(q) /\ Head(q) = q[1]
  OBVIOUS
<1> HIDE DEF r
<1>2. Ended(q) => Ended(r)
  BY <1>1 DEF Ended
<1>3. HasEof(r) => HasEof(q)
  BY <1>1 DEF HasEof
<1>4. Head(q).t = "eof" => HasEof(q)
  BY <1>1 DEF HasEof
<1>5. ASSUME Head(q).t = "eof", Ended(q) PROVE Numbers(q) = {}
  <2>1. \A i \in 1 .. Len(q) : i # 1 => 1 < i
    BY <1>1
  <2>2. \A i \in 1 .. Len(q) : q[i].t # "data"
    BY <1>1, <1>5, <2>1 DEF Ended
  <2> QED
    BY <2>2 DEF Numbers
<1> QED
  BY <1>2, <1>3, <1>4, <1>5 DEF r

\* Sending frames other than chunks.
LEMMA EofCtl ==
    ASSUME NEW q \in Seq(Frame), NEW out \in Seq(Frame),
           \A i \in 1 .. Len(out) : out[i].t # "data"
    PROVE  /\ Ended(q) => Ended(q \o out)
           /\ HasEof(q \o out) => HasEof(q) \/ HasEof(out)
<1> DEFINE r == q \o out
<1>1. /\ Len(r) = Len(q) + Len(out) /\ Len(q) \in Nat /\ Len(out) \in Nat
      /\ \A i \in 1 .. Len(q) : r[i] = q[i]
      /\ \A i \in 1 .. Len(r) : i \notin 1 .. Len(q) =>
            i - Len(q) \in 1 .. Len(out) /\ r[i] = out[i - Len(q)]
  OBVIOUS
<1> HIDE DEF r
<1>2. ASSUME Ended(q), NEW i \in 1 .. Len(r), NEW j \in 1 .. Len(r), i < j, r[i].t = "eof"
      PROVE  r[j].t # "data"
  <2>1. CASE j \notin 1 .. Len(q)
    BY <1>1, <2>1
  <2>2. CASE j \in 1 .. Len(q)
    <3>1. i \in 1 .. Len(q)
      BY <1>1, <1>2, <2>2
    <3> QED
      BY <1>1, <1>2, <2>2, <3>1 DEF Ended
  <2> QED
    BY <2>1, <2>2
<1>3. HasEof(r) => HasEof(q) \/ HasEof(out)
  BY <1>1 DEF HasEof
<1> QED
  BY <1>2, <1>3 DEF Ended, r

\* Sending a chunk on a channel that has no eof, and an empty channel.
LEMMA EofSend ==
    ASSUME NEW q \in Seq(Frame), ~HasEof(q), NEW f \in Frame, f.t = "data"
    PROVE  Ended(q \o <<f>>) /\ ~HasEof(q \o <<f>>)
<1>1. /\ Len(q \o <<f>>) = Len(q) + 1
      /\ \A i \in 1 .. Len(q) : (q \o <<f>>)[i] = q[i]
      /\ (q \o <<f>>)[Len(q) + 1] = f
  OBVIOUS
<1>2. \A i \in 1 .. Len(q) + 1 : i \in 1 .. Len(q) \/ i = Len(q) + 1
  OBVIOUS
<1>3. \A i \in 1 .. Len(q \o <<f>>) : (q \o <<f>>)[i].t # "eof"
  BY <1>1, <1>2 DEF HasEof
<1> QED
  BY <1>3 DEF Ended, HasEof

LEMMA EofEmpty == Ended(<<>>) /\ ~HasEof(<<>>)
  BY DEF Ended, HasEof

\* An ended stream has given up its first channel.
LEMMA EndedGaveUp ==
    ASSUME IInv, NEW s \in Side, 1 \in Had(s), ep[s].status = "closed"
    PROVE  dead[s] # {0}
  BY DEF IInv, Good, EndedOf, Had

\* What a step does to the end of the chunks of side s is enough if it neither
\* sends nor takes a chunk for s, and ends the reader only with the stream or for an
\* eof with everything received.
LEMMA EofUndisturbed ==
    ASSUME EInv, IInv', NEW s \in Side, NEW o, o = Other(s),
           Stream(s)' = Stream(s), Had(s) \subseteq Had(s)', dead[s] \subseteq dead'[s],
           ep'[s].reader = "done" => ep[s].reader = "done" \/ ep'[s].readClosed,
           ep[s].readClosed => ep'[s].readClosed,
           ep[s].status = "closed" => ep'[s].status = "closed",
           ep'[s].readClosed =>
              \/ ep[s].readClosed \/ ep'[s].status = "closed"
              \/ ep[o].eof = "sent" /\ (dead'[s] = {0} => Len(Stream(s)) = ep[o].sent),
           ep'[o].sent = ep[o].sent,
           ep[o].eof = "sent" =>
              /\ ep'[o].eof = "sent" /\ ep'[o].submitted = ep[o].submitted
              /\ ep'[o].writeStatus = "closed",
           ep'[o].eof = "sent" =>
              \/ ep[o].eof = "sent"
              \/ ep[o].sent = ep'[o].submitted /\ ep'[o].writeStatus = "closed",
           \A g \in Gen :
              /\ Ended(wire'[o][g])
              /\ HasEof(wire'[o][g]) => ep'[o].eof = "sent"
              /\ Flight(s, g)' = Flight(s, g) \/ (Flight(s, g)' = {} /\ g \in dead'[s]),
           1 \notin dead'[s] /\ (ep'[o].link = 1 \/ HasEof(wire'[o][1])) =>
              ep[o].link = 1 \/ HasEof(wire[o][1])
    PROVE  Closing(s)' /\ FirstChannel(s)'
<1>0. OInv /\ 1 \in Had(s) /\ Closing(s) /\ FirstChannel(s) /\ 1 \in Gen
  BY ConstantFacts DEF EInv
<1>1. Closing(s)'
  BY <1>0 DEF Closing
<1>2. ASSUME dead'[s] = {0} PROVE dead[s] = {0} /\ ep'[s].status # "closed"
  <2>1. 0 \in dead[s]
    BY <1>0, ChannelFacts DEF OInv
  <2>2. 1 \in Had(s)'
    BY <1>0
  <2>3. ep'[s].status = "closed" => ep'[s].link = 0
    BY DEF IInv, Good, EndedOf
  <2>4. ep'[s].status # "closed"
    BY <1>2, <2>2, <2>3 DEF Had
  <2> QED
    BY <1>2, <2>1, <2>4
<1>3. ASSUME dead'[s] = {0} PROVE Flight(s, 1)' = Flight(s, 1)
  BY <1>0, <1>3
<1>4. FirstChannel(s)'
  <2> SUFFICES ASSUME dead'[s] = {0}
      PROVE  /\ \A i \in 1 .. Len(Stream(s)) : Stream(s)[i].n = i
             /\ ep'[s].readClosed => ep'[o].eof = "sent" /\ Len(Stream(s)) = ep'[o].sent
             /\ ~ep'[s].readClosed /\ Flight(s, 1)' # {} => Len(Stream(s)) + 1 \in Flight(s, 1)'
             /\ ~ep'[s].readClosed /\ (ep'[o].link = 1 \/ HasEof(wire'[o][1])) =>
                   IF Flight(s, 1)' = {} THEN Len(Stream(s)) = ep'[o].sent
                   ELSE ep'[o].sent \in Flight(s, 1)'
    BY DEF FirstChannel
  <2>1. dead[s] = {0} /\ ep'[s].status # "closed" /\ Flight(s, 1)' = Flight(s, 1)
    BY <1>2, <1>3
  <2>2. ep'[s].readClosed => ep'[o].eof = "sent" /\ Len(Stream(s)) = ep'[o].sent
    BY <1>0, <2>1 DEF FirstChannel
  <2>3. ~ep'[s].readClosed /\ (ep'[o].link = 1 \/ HasEof(wire'[o][1])) =>
          ~ep[s].readClosed /\ (ep[o].link = 1 \/ HasEof(wire[o][1]))
    BY <2>1
  <2> QED
    BY <1>0, <2>1, <2>2, <2>3 DEF FirstChannel
<1> QED
  BY <1>1, <1>4
\* A step that sends and takes control frames only: it sends its eof only when
\* everything submitted is sent, and ends its reader only for an eof.
LEMMA ControlEInv ==
    ASSUME EInv, OInv', NEW a \in Side, NEW e, NEW out, NEW taken \in BOOLEAN,
           ControlStep(a, e, out, taken),
           \/ NoEofSent(a, e, out, taken)
           \/ /\ e.eof = "sent" /\ e.writeStatus = "closed" /\ ~taken
              /\ e.sent = e.submitted /\ e.readClosed = ep[a].readClosed
    PROVE  EInv'
<1> DEFINE o == Other(a)
<1>0. /\ OInv /\ IInv /\ IInv' /\ o \in Side /\ a = Other(o)
      /\ \A t \in Side : t = a \/ t = o
      /\ \A t \in Side, h \in Gen : wire[t][h] \in Seq(Frame)
  BY DEF Side, Other, EInv, OInv, IInv, TypeOK
<1> PICK g \in Gen : g = ep[a].link
  BY <1>0, ObjectFacts
<1>1. Exchanged(a, o, g, e, out, taken)
  BY <1>0, ExchangeFacts DEF ControlStep
<1>2. Keeps(a) /\ Keeps(o)
  BY <1>0, ExchangeChannels DEF ControlStep, OInv
<1>3. \A t \in Side : Stream(t)' = Stream(t)
  BY <1>0, <1>1 DEF ControlStep, Exchanged, Stream
<1>4. /\ ep'[a] = e /\ ep'[o] = ep[o] /\ out \in Seq(Frame) /\ 1 \in Gen
      /\ \A i \in 1 .. Len(out) : out[i].t # "data"
  BY <1>1, ConstantFacts DEF Exchanged, ControlStep, Control
<1>5. \A t \in Side : 1 \in Had(t)'
  BY <1>0, <1>2 DEF Keeps, EInv
<1>6. Closing(a)' /\ FirstChannel(a)'
  <2>1. \A h \in Gen : Ended(wire[o][h]) /\ (HasEof(wire[o][h]) => ep[o].eof = "sent")
    BY DEF EInv, Closing
  <2>2. ASSUME NEW h \in Gen
        PROVE  /\ Ended(wire'[o][h]) /\ (HasEof(wire'[o][h]) => HasEof(wire[o][h]))
               /\ Flight(a, h)' = Flight(a, h) \/ (Flight(a, h)' = {} /\ h \in dead'[a])
    <3>1. CASE h # g \/ (g = e.link /\ ~taken)
      BY <1>1, <2>1, <3>1 DEF Exchanged, Flight
    <3>2. CASE h = g /\ g # e.link
      BY <1>1, <3>2, NumbersEmpty, EofEmpty DEF Exchanged, Flight
    <3>3. CASE h = g /\ g = e.link /\ taken
      <4>1. wire'[o][h] = Tail(wire[o][h]) /\ wire[o][h] # <<>> /\ Head(wire[o][h]).t # "data"
        BY <1>1, <3>3 DEF Exchanged, ControlStep
      <4>2. wire[o][h] \in Seq(Frame)
        BY <1>0
      <4> QED
        BY <2>1, <4>1, <4>2, NumbersTail, EofTail DEF Flight
    <3> QED
      BY <3>1, <3>2, <3>3
  <2>3. ASSUME e.readClosed, ~ep[a].readClosed, e.status # "closed"
        PROVE  ep[o].eof = "sent" /\ (dead'[a] = {0} => Len(Stream(a)) = ep[o].sent)
    <3>1. wire[o][g] # <<>> /\ Head(wire[o][g]).t = "eof" /\ wire[o][g] \in Seq(Frame)
      BY <1>0, <2>3 DEF NoEofSent, ControlStep
    <3>2. HasEof(wire[o][g]) /\ Numbers(wire[o][g]) = {}
      BY <2>1, <3>1, EofTail
    <3>3. ASSUME dead'[a] = {0} PROVE Len(Stream(a)) = ep[o].sent
      <4>1. 0 \in dead[a] /\ 1 \in Had(a)
        BY <1>0, ChannelFacts DEF EInv, OInv
      <4>2. dead[a] = {0} /\ g = 1
        <5>1. dead[a] \subseteq dead'[a]
          BY <1>2 DEF Keeps
        <5>2. dead[a] = {0}
          BY <3>3, <4>1, <5>1
        <5> QED
          BY <4>1, <5>2 DEF Had
      <4>3. Flight(a, 1) = {}
        BY <3>2, <4>2 DEF Flight
      <4> QED
        BY <2>3, <3>2, <4>2, <4>3 DEF EInv, FirstChannel
    <3> QED
      BY <2>1, <3>2, <3>3
  <2>4. /\ ep[o].eof = "sent" => ep[o].writeStatus = "closed"
        /\ Had(a) \subseteq Had(a)' /\ dead[a] \subseteq dead'[a]
    BY <1>2 DEF EInv, Closing, Keeps
  <2>5. /\ ep'[a].reader = "done" => ep[a].reader = "done" \/ ep'[a].readClosed
        /\ ep[a].readClosed => ep'[a].readClosed
        /\ ep[a].status = "closed" => ep'[a].status = "closed"
    BY <1>4 DEF ControlStep
  <2>6. o = Other(a)
    OBVIOUS
  <2> HIDE DEF o
  <2> QED
    BY <1>0, <1>3, <1>4, <2>1, <2>2, <2>3, <2>4, <2>5, <2>6, EofUndisturbed
<1>7. Closing(o)' /\ FirstChannel(o)'
  <2>1. \A h \in Gen : Ended(wire[a][h]) /\ (HasEof(wire[a][h]) => ep[a].eof = "sent")
    BY <1>0 DEF EInv, Closing
  <2>2. ASSUME NEW h \in Gen
        PROVE  /\ Ended(wire'[a][h])
               /\ HasEof(wire'[a][h]) => HasEof(wire[a][h]) \/ (h = g /\ HasEof(out))
               /\ Flight(o, h)' = Flight(o, h)
    <3>1. CASE h # g \/ g \in dead[o]
      BY <1>0, <1>1, <2>1, <3>1 DEF Exchanged, Flight
    <3>2. CASE h = g /\ g \notin dead[o]
      <4>1. wire'[a][h] = wire[a][h] \o out /\ wire[a][h] \in Seq(Frame)
        BY <1>0, <1>1, <3>2 DEF Exchanged
      <4>2. Numbers(wire[a][h] \o out) = Numbers(wire[a][h])
        BY <1>4, <4>1, NumbersCtl
      <4>3. Ended(wire[a][h] \o out)
            /\ (HasEof(wire[a][h] \o out) => HasEof(wire[a][h]) \/ HasEof(out))
        BY <1>4, <2>1, <4>1, EofCtl
      <4> QED
        BY <1>0, <3>2, <4>1, <4>2, <4>3 DEF Flight
    <3> QED
      BY <3>1, <3>2
  <2>3. HasEof(out) => e.eof = "sent"
    BY DEF HasEof, NoEofSent
  <2>4. ep[a].eof = "sent" => ep[a].sent = ep[a].submitted /\ ep[a].writeStatus = "closed"
    BY <1>0 DEF EInv, Closing
  <2>5. /\ ep[a].eof = "sent" =>
              e.eof = "sent" /\ e.submitted = ep[a].submitted /\ e.writeStatus = "closed"
        /\ e.eof = "sent" =>
              ep[a].eof = "sent" \/ (ep[a].sent = e.submitted /\ e.writeStatus = "closed")
        /\ e.sent = ep[a].sent
    BY <2>4 DEF NoEofSent, ControlStep
  <2>6. e.link \in {g, 0}
    BY DEF ControlStep
  <2>7. e.link = 1 \/ HasEof(wire'[a][1]) => g = 1 \/ HasEof(wire[a][1])
    BY <1>4, <2>2, <2>6
  <2>8. Had(o) \subseteq Had(o)' /\ dead[o] \subseteq dead'[o]
    BY <1>2 DEF Keeps
  <2>9. ep[o].reader = "done" => ep[o].readClosed
    BY <1>0 DEF EInv, Closing
  <2>10. /\ ep'[o] = ep[o] /\ Stream(o)' = Stream(o) /\ EInv /\ IInv' /\ o \in Side /\ a = Other(o)
         /\ ep'[a] = e /\ ep[a].link = g
    BY <1>0, <1>3, <1>4
  <2>11. \A h \in Gen : /\ Ended(wire'[a][h])
                        /\ HasEof(wire'[a][h]) => e.eof = "sent"
                        /\ Flight(o, h)' = Flight(o, h)
    BY <2>1, <2>2, <2>3, <2>5
  <2> HIDE DEF o
  <2> QED
    BY <2>5, <2>7, <2>8, <2>9, <2>10, <2>11, EofUndisturbed
<1> QED
  BY <1>0, <1>5, <1>6, <1>7 DEF EInv
\* A step that touches no channel.
LEMMA QuietEInv ==
    ASSUME EInv, OInv', NEW a \in Side, NEW e, QuietStep(a, e)
    PROVE  EInv'
<1> DEFINE o == Other(a)
<1>0. /\ OInv /\ IInv /\ IInv' /\ o \in Side /\ a = Other(o) /\ o # a
      /\ \A t \in Side : t = a \/ t = o
  BY DEF Side, Other, EInv, OInv
<1>1. ep'[a] = e /\ ep'[o] = ep[o] /\ UNCHANGED <<wire, dead, got>>
  BY <1>0 DEF QuietStep, IInv, TypeOK
<1>2. /\ \A t \in Side : /\ Stream(t)' = Stream(t) /\ Had(t)' = Had(t)
                         /\ dead'[t] = dead[t] /\ ep'[t].link = ep[t].link
                         /\ ep'[t].readClosed = ep[t].readClosed
                         /\ ep'[t].reader = ep[t].reader
                         /\ ep'[t].status = ep[t].status /\ ep'[t].sent = ep[t].sent
      /\ \A t \in Side, g \in Gen : /\ wire'[t][g] = wire[t][g]
                                    /\ Flight(t, g)' = Flight(t, g)
  BY <1>0, <1>1 DEF QuietStep, Stream, Had, Flight
<1>3. ASSUME NEW t \in Side PROVE Closing(t)' /\ FirstChannel(t)'
  <2> DEFINE u == Other(t)
  <2>1. u \in Side
    BY DEF Side, Other
  <2>2. /\ ep[u].eof = "sent" => /\ ep'[u].eof = "sent" /\ ep'[u].submitted = ep[u].submitted
                                 /\ ep'[u].writeStatus = "closed"
        /\ ep'[u].eof = "sent" => ep[u].eof = "sent"
    <3>1. ep[u].eof = "sent" => ep[u].writeStatus = "closed"
      BY DEF EInv, Closing
    <3>2. CASE u = a
      BY <1>1, <3>1, <3>2 DEF QuietStep
    <3>3. CASE u = o
      BY <1>1, <3>1, <3>3
    <3> QED
      BY <1>0, <2>1, <3>2, <3>3
  <2>3. \A g \in Gen : Ended(wire[u][g]) /\ (HasEof(wire[u][g]) => ep[u].eof = "sent")
    BY DEF EInv, Closing
  <2>4. 1 \in Gen
    BY ConstantFacts
  <2>5. u = Other(t)
    OBVIOUS
  <2> HIDE DEF u
  <2> QED
    BY <1>0, <1>2, <2>1, <2>2, <2>3, <2>4, <2>5, EofUndisturbed
<1> QED
  BY <1>2, <1>3 DEF EInv

\* A channel takes a chunk: the sender has not sent an eof yet.
LEMMA AcceptEInv ==
    ASSUME EInv, OInv', NEW a \in Side, AcceptStep(a)
    PROVE  EInv'
<1> DEFINE o == Other(a)
           n == ep[a].sent + 1
<1>0. /\ OInv /\ IInv /\ IInv' /\ o \in Side /\ a = Other(o) /\ o # a
      /\ \A t \in Side : t = a \/ t = o
      /\ \A t \in Side, h \in Gen : wire[t][h] \in Seq(Frame)
      /\ ep[a].sent \in Nat /\ ep[a].submitted \in Nat
  <2>1. ep[a] \in Endpoint
    BY ObjectFacts DEF EInv, OInv
  <2>2. ep[a].sent \in Nat /\ ep[a].submitted \in Nat
    BY <2>1 DEF Endpoint
  <2> QED
    BY <2>2 DEF Side, Other, EInv, OInv, IInv, TypeOK
<1> PICK g \in Gen : g = ep[a].link
  BY <1>0, ObjectFacts
<1>1. /\ \A t \in Side : /\ Stream(t)' = Stream(t) /\ Had(t)' = Had(t)
                         /\ dead'[t] = dead[t] /\ ep'[t].link = ep[t].link
                         /\ ep'[t].readClosed = ep[t].readClosed
                         /\ ep'[t].reader = ep[t].reader
                         /\ ep'[t].status = ep[t].status /\ ep'[t].eof = ep[t].eof
                         /\ ep'[t].submitted = ep[t].submitted
                         /\ ep'[t].writeStatus = ep[t].writeStatus
      /\ ep'[a].sent = n /\ ep'[o] = ep[o] /\ ep[a].sent < ep[a].submitted
  BY <1>0 DEF AcceptStep, Stream, Had
<1>2. 1 \in Gen /\ n \in 1 .. MaxChunks
  <2>1. n \in 0 .. MaxChunks
    BY <1>0, <1>1 DEF IInv, Good, Endpoint
  <2> QED
    BY <1>0, <2>1, ConstantFacts
<1>3. ep[a].eof # "sent"
  BY <1>0, <1>1 DEF EInv, Closing
<1>4. \A h \in Gen : ~HasEof(wire[a][h])
  BY <1>0, <1>3 DEF EInv, Closing
<1>5. Closing(a)' /\ FirstChannel(a)'
  <2>1. \A h \in Gen : /\ wire'[o][h] = wire[o][h]
                       /\ Flight(a, h)' = Flight(a, h)
                       /\ Ended(wire[o][h])
                       /\ HasEof(wire[o][h]) => ep[o].eof = "sent"
    BY DEF AcceptStep, Flight, EInv, Closing
  <2>2. ep[o].eof = "sent" => ep[o].writeStatus = "closed"
    BY DEF EInv, Closing
  <2>3. o = Other(a)
    OBVIOUS
  <2> HIDE DEF o
  <2> QED
    BY <1>0, <1>1, <1>2, <2>1, <2>2, <2>3, EofUndisturbed
<1>6. ASSUME NEW h \in Gen
      PROVE  /\ Ended(wire'[a][h]) /\ ~HasEof(wire'[a][h])
             /\ Flight(o, h)' = IF h = g /\ g \notin dead[o] THEN Flight(o, h) \cup {n}
                                ELSE Flight(o, h)
  <2>1. CASE h # g \/ g \in dead[o]
    <3>1. wire'[a][h] = wire[a][h]
      BY <2>1 DEF AcceptStep
    <3>2. Ended(wire[a][h])
      BY <1>0 DEF EInv, Closing
    <3> QED
      BY <1>0, <1>4, <2>1, <3>1, <3>2 DEF Flight
  <2>2. CASE h = g /\ g \notin dead[o]
    <3> DEFINE f == [t |-> "data", n |-> n]
    <3>1. wire'[a][h] = wire[a][h] \o <<f>>
      BY <2>2 DEF AcceptStep
    <3>2. f \in Frame /\ f.t = "data"
      BY <1>2 DEF Frame
    <3>3. Ended(wire'[a][h]) /\ ~HasEof(wire'[a][h])
      <4> HIDE DEF f
      <4> QED
        BY <1>0, <1>4, <3>1, <3>2, EofSend
    <3>4. Increasing(wire[a][h]) /\ \A m \in Numbers(wire[a][h]) : m < n
      <4>1. Ordered(o) /\ Increasing(wire[a][h])
        BY <1>0 DEF OInv, Ordered
      <4>2. ASSUME NEW m \in Numbers(wire[a][h]) PROVE m < n
        <5>1. m \in 1 .. MaxChunks
          BY <1>0, NumbersType
        <5> DEFINE x == [n |-> m, g |-> h]
        <5>2. x \in Item /\ x.n = m /\ x.g = h
          BY <5>1 DEF Item
        <5>3. x.n \in Flight(o, x.g)
          BY <1>0, <5>2 DEF Flight
        <5>4. x \in Known(o)
          BY <5>2, <5>3 DEF Known
        <5>5. m <= ep[a].sent
          BY <1>0, <4>1, <5>2, <5>4 DEF Ordered, Sequenced
        <5> QED
          BY <1>0, <5>1, <5>5
      <4> QED
        BY <4>1, <4>2
    <3>5. Numbers(wire[a][h] \o <<f>>) = Numbers(wire[a][h]) \cup {n}
      <4>1. wire[a][h] \in Seq(Frame)
        BY <1>0
      <4> HIDE DEF n
      <4> QED
        BY <1>2, <3>4, <4>1, NumbersSend
    <3> QED
      BY <1>0, <2>2, <3>1, <3>3, <3>5 DEF Flight
  <2> QED
    BY <2>1, <2>2
<1>7. Closing(o)'
  BY <1>0, <1>1, <1>3, <1>6 DEF EInv, Closing
<1>8. FirstChannel(o)'
  <2> SUFFICES ASSUME dead[o] = {0}
      PROVE  /\ \A i \in 1 .. Len(Stream(o)) : Stream(o)[i].n = i
             /\ ep[o].readClosed => FALSE
             /\ ~ep[o].readClosed /\ Flight(o, 1)' # {} => Len(Stream(o)) + 1 \in Flight(o, 1)'
             /\ g = 1 => n \in Flight(o, 1)'
    BY <1>0, <1>1, <1>2, <1>3, <1>6 DEF FirstChannel
  <2>1. /\ \A i \in 1 .. Len(Stream(o)) : Stream(o)[i].n = i
        /\ ~ep[o].readClosed
        /\ Flight(o, 1) # {} => Len(Stream(o)) + 1 \in Flight(o, 1)
        /\ g = 1 /\ Flight(o, 1) = {} => Len(Stream(o)) = ep[a].sent
    BY <1>0, <1>3 DEF EInv, FirstChannel
  <2>2. CASE g = 1
    <3>1. Flight(o, 1)' = Flight(o, 1) \cup {n}
      BY <1>2, <1>6, <2>2
    <3> QED
      BY <2>1, <2>2, <3>1
  <2>3. CASE g # 1
    BY <1>2, <1>6, <2>1, <2>3
  <2> QED
    BY <2>2, <2>3
<1> QED
  BY <1>0, <1>1, <1>5, <1>7, <1>8 DEF EInv
\* Side a takes a chunk: over the first channel it is the next one.
LEMMA ReceiveEInv ==
    ASSUME EInv, OInv', NEW a \in Side, ReceiveStep(a)
    PROVE  EInv'
<1> DEFINE o == Other(a)
<1>0. /\ OInv /\ IInv /\ IInv' /\ o \in Side /\ a = Other(o) /\ o # a
      /\ \A t \in Side : t = a \/ t = o
      /\ \A t \in Side, h \in Gen : wire[t][h] \in Seq(Frame)
      /\ 1 \in Gen /\ Stream(a) \in Seq(Item)
  <2>1. Stream(a) \in Seq(Item)
    BY StreamType DEF EInv, OInv
  <2> QED
    BY <2>1, ConstantFacts DEF Side, Other, EInv, OInv, IInv, TypeOK
<1> PICK g \in Gen : g = ep[a].link
  BY <1>0, ObjectFacts
<1> DEFINE q == wire[o][g]
           n == Head(q).n
<1>1. /\ \A t \in Side : /\ Had(t)' = Had(t)
                         /\ dead'[t] = dead[t] /\ ep'[t].link = ep[t].link
                         /\ ep'[t].readClosed = ep[t].readClosed
                         /\ ep'[t].reader = "done" => ep[t].reader = "done"
                         /\ ep'[t].status = ep[t].status /\ ep'[t].eof = ep[t].eof
                         /\ ep'[t].submitted = ep[t].submitted /\ ep'[t].sent = ep[t].sent
                         /\ ep'[t].writeStatus = ep[t].writeStatus
      /\ q # <<>> /\ Head(q).t = "data" /\ q \in Seq(Frame)
      /\ Stream(a)' = IF ep[a].readClosed THEN Stream(a)
                      ELSE Append(Stream(a), [n |-> n, g |-> g])
      /\ \A h \in Gen : wire'[o][h] = IF h = g THEN Tail(q) ELSE wire[o][h]
      /\ wire'[a] = wire[a] /\ Stream(o)' = Stream(o)
  BY <1>0 DEF ReceiveStep, Stream, Had
<1> HIDE DEF q
<1>2. /\ Increasing(q) /\ Gapless(Numbers(q)) /\ Ended(q)
      /\ \A h \in Gen : Ended(wire[o][h]) /\ (HasEof(wire[o][h]) => ep[o].eof = "sent")
  BY DEF q, EInv, OInv, Ordered, Flight, Closing
<1>3. /\ Numbers(q) = {n} \cup Numbers(Tail(q))
      /\ \A m \in Numbers(Tail(q)) : n < m
      /\ Ended(Tail(q)) /\ (HasEof(Tail(q)) => HasEof(q))
  BY <1>1, <1>2, NumbersTail, EofTail DEF n
<1>4. \A h \in Gen : /\ Ended(wire'[o][h])
                     /\ HasEof(wire'[o][h]) => HasEof(wire[o][h])
                     /\ Flight(a, h)' = IF h = g THEN Numbers(Tail(q)) ELSE Flight(a, h)
  BY <1>1, <1>2, <1>3 DEF Flight, q
<1>5. Closing(a)'
  <2>1. Closing(a)
    BY DEF EInv
  <2>2. \A h \in Gen : Ended(wire'[o][h]) /\ (HasEof(wire'[o][h]) => ep'[o].eof = "sent")
    BY <1>0, <1>1, <1>2, <1>4
  <2> QED
    BY <1>0, <1>1, <2>1, <2>2 DEF Closing
<1>6. FirstChannel(a)'
  <2> DEFINE r == Len(Stream(a))
  <2> SUFFICES ASSUME dead[a] = {0}
      PROVE  /\ \A i \in 1 .. Len(Stream(a)') : Stream(a)'[i].n = i
             /\ ep[a].readClosed => ep[o].eof = "sent" /\ Len(Stream(a)') = ep[o].sent
             /\ ~ep[a].readClosed /\ Flight(a, 1)' # {} =>
                   Len(Stream(a)') + 1 \in Flight(a, 1)'
             /\ ~ep[a].readClosed /\ (ep[o].link = 1 \/ HasEof(wire'[o][1])) =>
                   IF Flight(a, 1)' = {} THEN Len(Stream(a)') = ep[o].sent
                   ELSE ep[o].sent \in Flight(a, 1)'
    BY <1>0, <1>1 DEF FirstChannel
  <2>1. FirstChannel(a) /\ OInv /\ 1 \in Had(a)
    BY DEF EInv
  <2>2. CASE ep[a].readClosed
    BY <1>1, <2>1, <2>2 DEF FirstChannel
  <2>3. CASE ~ep[a].readClosed
    <3>1. g = 1
      BY <2>1 DEF Had
    <3>2. Flight(a, 1) = Numbers(q) /\ Flight(a, 1)' = Numbers(Tail(q)) /\ q = wire[o][1]
      BY <1>0, <1>4, <3>1 DEF Flight, q
    <3>3. \A m \in Numbers(q) : m \in Nat /\ m >= 1
      BY <1>1, NumbersType
    <3>4. r \in Nat /\ \A i \in 1 .. r : Stream(a)[i].n = i
      BY <1>0, <2>1 DEF FirstChannel
    <3>5. \A m \in Numbers(q) : r < m
      <4>1. CASE r = 0
        BY <3>3, <4>1
      <4>2. CASE r # 0
        <5>1. r \in 1 .. r /\ Stream(a) # <<>>
          BY <1>0, <3>4, <4>2
        <5>2. Stream(a)[r].g = 1 /\ Stream(a)[r].n = r
          <6>1. Stream(a)[r].g \in Had(a) /\ Stream(a)[r] \in Known(a)
            <7>1. Stream(a)[r] \in Item
              BY <1>0, <5>1
            <7> QED
              BY <2>1, <5>1, <7>1 DEF OInv, Ordered, Received, Known
          <6>2. Stream(a)[r].g # 0
            BY <2>1, <6>1 DEF OInv, Ordered, Sequenced
          <6> QED
            BY <3>1, <3>4, <5>1, <6>1, <6>2 DEF Had
        <5>3. LastFrom(a, ep[a].link) /\ LastChunk(a) = r
          BY <3>1, <5>1, <5>2 DEF LastFrom, LastChunk
        <5>4. Follows(a)
          BY <2>1 DEF OInv, Ordered
        <5> QED
          BY <2>3, <3>1, <3>2, <5>3, <5>4 DEF Follows
      <4> QED
        BY <4>1, <4>2
    <3>6. n = r + 1 /\ n \in Numbers(q)
      <4>1. r + 1 \in Numbers(q)
        <5>1. Flight(a, 1) # {}
          BY <1>3, <3>2, SMTT(30)
        <5> QED
          BY <2>1, <2>3, <3>2, <5>1 DEF FirstChannel
      <4>2. n \in Numbers(q) /\ ~(n < r + 1 /\ r < n)
        BY <1>3, <3>3, <3>4
      <4>3. r + 1 = n \/ n < r + 1
        BY <1>3, <4>1
      <4> QED
        BY <3>5, <4>2, <4>3
    <3>7. /\ Len(Stream(a)') = r + 1
          /\ \A i \in 1 .. r : Stream(a)'[i] = Stream(a)[i]
          /\ Stream(a)'[r + 1].n = n
      <4>1. Stream(a)' = Append(Stream(a), [n |-> n, g |-> g])
        BY <1>1, <2>3
      <4> HIDE DEF n
      <4> QED
        BY <1>0, <4>1
    <3>8. \A i \in 1 .. Len(Stream(a)') : Stream(a)'[i].n = i
      <4>1. \A i \in 1 .. r + 1 : i \in 1 .. r \/ i = r + 1
        BY <3>4
      <4> QED
        BY <3>4, <3>6, <3>7, <4>1
    <3>9. ASSUME Flight(a, 1)' # {} PROVE Len(Stream(a)') + 1 \in Flight(a, 1)'
      <4>1. PICK m \in Numbers(Tail(q)) : TRUE
        BY <3>2, <3>9
      <4>2. m \in Numbers(q) /\ m \in Nat /\ n < m /\ n \in Nat
        BY <1>3, <3>3, <3>6
      <4>3. n + 1 \in n .. m
        BY <4>2
      <4>4. n + 1 \in Numbers(q)
        BY <1>2, <3>6, <4>2, <4>3 DEF Gapless
      <4>5. n + 1 \in Numbers(Tail(q))
        BY <1>3, <4>2, <4>4
      <4> QED
        BY <3>2, <3>6, <3>7, <4>5
    <3>10. ASSUME ep[o].link = 1 \/ HasEof(wire'[o][1])
           PROVE  IF Flight(a, 1)' = {} THEN Len(Stream(a)') = ep[o].sent
                  ELSE ep[o].sent \in Flight(a, 1)'
      <4>1. ep[o].sent \in Numbers(q)
        <5>1. ep[o].link = 1 \/ HasEof(wire[o][1])
          BY <1>0, <1>4, <3>10
        <5>2. Flight(a, 1) # {}
          BY <3>2, <3>6
        <5> QED
          BY <2>1, <2>3, <3>2, <5>1, <5>2 DEF FirstChannel
      <4>2. CASE Flight(a, 1)' = {}
        BY <1>3, <3>2, <3>6, <3>7, <4>1, <4>2
      <4>3. CASE Flight(a, 1)' # {}
        <5>1. PICK m \in Numbers(Tail(q)) : TRUE
          BY <3>2, <4>3
        <5>2. m \in Numbers(q) /\ n < m /\ m \in Nat /\ n \in Nat
          BY <1>3, <3>3, <3>6
        <5>3. m <= ep[o].sent
          <6> DEFINE x == [n |-> m, g |-> 1]
          <6>1. x \in Item /\ x.n = m /\ x.g = 1
            <7>1. m \in 1 .. MaxChunks
              BY <1>1, <5>2, NumbersType
            <7> QED
              BY <1>0, <7>1 DEF Item
          <6>2. x \in Known(a)
            BY <3>2, <5>2, <6>1 DEF Known
          <6> QED
            BY <2>1, <6>1, <6>2 DEF OInv, Ordered, Sequenced
        <5>4. ep[o].sent # n
          BY <3>3, <4>1, <5>2, <5>3
        <5> QED
          BY <1>3, <3>2, <4>1, <4>3, <5>4
      <4> QED
        BY <4>2, <4>3
    <3> QED
      BY <2>3, <3>8, <3>9, <3>10
  <2> QED
    BY <2>2, <2>3
<1>7. Closing(o)' /\ FirstChannel(o)'
  <2>1. \A h \in Gen : /\ wire'[a][h] = wire[a][h]
                       /\ Flight(o, h)' = Flight(o, h)
                       /\ Ended(wire[a][h])
                       /\ HasEof(wire[a][h]) => ep[a].eof = "sent"
    BY <1>0, <1>1 DEF Flight, EInv, Closing
  <2>2. /\ ep[a].eof = "sent" => ep[a].writeStatus = "closed"
        /\ Stream(o)' = Stream(o)
    BY <1>0, <1>1 DEF EInv, Closing
  <2> HIDE DEF o
  <2> QED
    BY <1>0, <1>1, <2>1, <2>2, EofUndisturbed
<1> QED
  BY <1>0, <1>1, <1>5, <1>6, <1>7 DEF EInv
\* A new channel has no eof, and another side's READY brings none.
LEMMA RebindEInv ==
    ASSUME EInv, OInv', NEW a \in Side, NEW g \in Gen, RebindStep(a, g),
           \A t \in Side : /\ Ended(wire'[t][g])
                           /\ HasEof(wire'[t][g]) => HasEof(wire[t][g])
    PROVE  EInv'
<1> DEFINE o == Other(a)
<1>0. /\ OInv /\ IInv /\ IInv' /\ o \in Side /\ a = Other(o) /\ o # a
      /\ \A t \in Side : t = a \/ t = o
      /\ 1 \in Gen /\ \A t \in Side : 0 \in dead[t]
  BY ConstantFacts, ChannelFacts DEF Side, Other, EInv, OInv
<1>1. g # 1
  BY DEF EInv, RebindStep
<1>2. /\ \A t \in Side : /\ Stream(t)' = Stream(t) /\ Had(t) \subseteq Had(t)'
                         /\ dead'[t] = dead[t] /\ (ep'[t].link = 1 => ep[t].link = 1)
                         /\ ep'[t].readClosed = ep[t].readClosed
                         /\ ep'[t].reader = ep[t].reader
                         /\ ep'[t].status = ep[t].status /\ ep'[t].sent = ep[t].sent
                         /\ ep'[t].submitted = ep[t].submitted /\ ep'[t].eof = ep[t].eof
                         /\ ep'[t].writeStatus = ep[t].writeStatus
  <2>1. /\ ep[a].link = 0 /\ ep'[a].link = g /\ ep'[o] = ep[o] /\ UNCHANGED <<dead, got>>
        /\ ep'[a].sent = ep[a].sent /\ ep'[a].submitted = ep[a].submitted
        /\ ep'[a].items = ep[a].items /\ ep'[a].reader = ep[a].reader
        /\ ep'[a].readClosed = ep[a].readClosed /\ ep'[a].eof = ep[a].eof
        /\ ep'[a].status = ep[a].status /\ ep'[a].writeStatus = ep[a].writeStatus
    BY DEF RebindStep
  <2>2. \A t \in Side : Stream(t)' = Stream(t)
    BY <1>0, <2>1 DEF Stream
  <2>3. \A t \in Side : Had(t) \subseteq Had(t)'
    BY <1>0, <2>1 DEF Had
  <2> HIDE DEF o
  <2> QED
    BY <1>0, <1>1, <2>1, <2>2, <2>3
<1>3. \A t \in Side, h \in Gen : Ended(wire[t][h]) /\ (HasEof(wire[t][h]) => ep[t].eof = "sent")
  BY <1>0 DEF EInv, Closing
<1>4. \A t \in Side, h \in Gen : /\ Ended(wire'[t][h])
                                 /\ HasEof(wire'[t][h]) => HasEof(wire[t][h])
                                 /\ Numbers(wire'[t][h]) = Numbers(wire[t][h])
  BY <1>3 DEF RebindStep
<1>5. ASSUME NEW t \in Side PROVE Closing(t)' /\ FirstChannel(t)'
  <2> DEFINE u == Other(t)
  <2>1. u \in Side /\ u = Other(t)
    BY DEF Side, Other
  <2>2. ep[u].eof = "sent" => ep[u].writeStatus = "closed"
    BY DEF EInv, Closing
  <2>3. \A h \in Gen : Flight(t, h)' = Flight(t, h)
    BY <1>4, <2>1 DEF Flight
  <2> HIDE DEF u
  <2> QED
    BY <1>0, <1>2, <1>3, <1>4, <2>1, <2>2, <2>3, EofUndisturbed
<1> QED
  BY <1>2, <1>5 DEF EInv

\* claimPeer and activateStream.
LEMMA ChannelEInv ==
    ASSUME EInv, OInv', Claim \/ \E g \in Gen : Activate(g)
    PROVE  EInv'
<1>0. OInv /\ "client" \in Side /\ "server" \in Side /\ \A t \in Side : t = "client" \/ t = "server"
  BY DEF EInv, Side
<1>1. CASE Claim
  <2>1. /\ RebindStep("client", NextGen) /\ NextGen \in Gen
        /\ \A t \in Side : \A i \in 1 .. Len(wire'[t][NextGen]) :
              wire'[t][NextGen][i].t # "eof"
    BY <1>0, <1>1, ClaimRebinds
  <2>2. \A t \in Side : Ended(wire'[t][NextGen]) /\ ~HasEof(wire'[t][NextGen])
    BY <2>1 DEF Ended, HasEof
  <2> QED
    BY <1>0, <2>1, <2>2, RebindEInv
<1>2. ASSUME NEW g \in Gen, Activate(g) PROVE EInv'
  <2> DEFINE greeting == Greeting(ep["server"])
  <2>1. RebindStep("server", g)
    BY <1>0, <1>2, ActivateRebinds
  <2>2. \A t \in Side : wire[t][g] \in Seq(Frame) /\ Ended(wire[t][g])
    <3>1. \A t \in Side : Ended(wire[Other(t)][g])
      BY DEF EInv, Closing
    <3> QED
      BY <1>0, <3>1 DEF Other, OInv, IInv, TypeOK
  <2>3. /\ wire["client"][g] # <<>> /\ wire'["client"][g] = Tail(wire["client"][g])
        /\ wire'["server"][g] = IF g \in dead["client"] THEN wire["server"][g]
                                ELSE wire["server"][g] \o greeting
    <3>1. wire \in [Side -> [Gen -> Seq(Frame)]]
      BY <1>0 DEF OInv, IInv, TypeOK
    <3>2. /\ wire["client"][g] # <<>>
          /\ wire' = [wire EXCEPT !["client"][g] = Tail(@),
                          !["server"][g] = IF g \in dead["client"] THEN @ ELSE @ \o greeting]
      BY <1>2 DEF Activate, Readies
    <3> HIDE DEF greeting
    <3> QED
      BY <1>0, <3>1, <3>2
  <2>4. Ended(wire'["client"][g]) /\ (HasEof(wire'["client"][g]) => HasEof(wire["client"][g]))
    BY <1>0, <2>2, <2>3, EofTail
  <2>5. /\ greeting \in Seq(Frame) /\ ~HasEof(greeting)
        /\ \A i \in 1 .. Len(greeting) : greeting[i].t # "data"
    BY GreetingControl DEF Control, HasEof
  <2> HIDE DEF greeting
  <2>6. Ended(wire'["server"][g]) /\ (HasEof(wire'["server"][g]) => HasEof(wire["server"][g]))
    BY <1>0, <2>2, <2>3, <2>5, EofCtl
  <2> QED
    BY <1>0, <2>1, <2>4, <2>6, RebindEInv
<1> QED
  BY <1>1, <1>2

\* A refused channel is not the first one of the client.
LEMMA RefuseEInv ==
    ASSUME EInv, OInv', NEW g \in Gen, RefuseActivation(g)
    PROVE  EInv'
<1>0. /\ OInv /\ IInv /\ IInv' /\ "client" \in Side /\ "server" \in Side
      /\ Other("server") = "client" /\ Other("client") = "server"
      /\ \A t \in Side : t = "client" \/ t = "server"
      /\ dead \in [Side -> SUBSET Gen] /\ wire \in [Side -> [Gen -> Seq(Frame)]] /\ 1 \in Gen
  BY ConstantFacts DEF Side, Other, EInv, OInv, IInv, TypeOK
<1>1. /\ dead' = [dead EXCEPT !["server"] = @ \cup {g}]
      /\ wire' = [wire EXCEPT !["client"][g] = <<>>]
      /\ UNCHANGED <<ep, got>>
  BY DEF RefuseActivation
<1>2. /\ \A t \in Side : Stream(t)' = Stream(t) /\ Had(t) \subseteq Had(t)' /\ dead[t] \subseteq dead'[t]
      /\ g \in dead'["server"] /\ wire'["server"] = wire["server"]
      /\ \A h \in Gen : wire'["client"][h] = IF h = g THEN <<>> ELSE wire["client"][h]
  BY <1>0, <1>1 DEF Stream, Had
<1>3. \A t \in Side, h \in Gen : Ended(wire[t][h]) /\ (HasEof(wire[t][h]) => ep[t].eof = "sent")
  <2>1. \A t \in Side, h \in Gen :
          Ended(wire[Other(t)][h]) /\ (HasEof(wire[Other(t)][h]) => ep[Other(t)].eof = "sent")
    BY DEF EInv, Closing
  <2> QED
    BY <1>0, <2>1
<1>4. \A t \in Side : ep[t].eof = "sent" => ep[t].writeStatus = "closed"
  <2>1. \A t \in Side : ep[Other(t)].eof = "sent" => ep[Other(t)].writeStatus = "closed"
    BY DEF EInv, Closing
  <2> QED
    BY <1>0, <2>1
<1>5. Closing("client")' /\ FirstChannel("client")'
  <2>1. \A h \in Gen : Flight("client", h)' = Flight("client", h)
    BY <1>0, <1>2 DEF Flight
  <2> QED
    BY <1>0, <1>1, <1>2, <1>3, <1>4, <2>1, EofUndisturbed
<1>6. Closing("server")' /\ FirstChannel("server")'
  <2>1. \A h \in Gen : /\ Ended(wire'["client"][h])
                       /\ HasEof(wire'["client"][h]) => HasEof(wire["client"][h])
                       /\ \/ Flight("server", h)' = Flight("server", h)
                          \/ Flight("server", h)' = {} /\ h \in dead'["server"]
    BY <1>0, <1>2, <1>3, NumbersEmpty, EofEmpty DEF Flight
  <2>2. \A h \in Gen : HasEof(wire'["client"][h]) => ep["client"].eof = "sent"
    BY <1>0, <1>3, <2>1
  <2> QED
    BY <1>0, <1>1, <1>2, <1>4, <2>1, <2>2, EofUndisturbed
<1> QED
  BY <1>0, <1>2, <1>5, <1>6 DEF EInv

\* It holds initially, and every step preserves it.
LEMMA InitEInv == Init => EInv
<1> SUFFICES ASSUME Init, NEW s \in Side
             PROVE  OInv /\ 1 \in Had(s) /\ Closing(s) /\ FirstChannel(s)
  BY InitOInv, ConstantFacts DEF EInv
<1>1. OInv
  BY InitOInv
<1>2. \A t \in Side : /\ ep[t].link = 1 /\ ep[t].sent = 0 /\ ep[t].reader = "busy"
                      /\ ep[t].readClosed = FALSE /\ ep[t].eof = "none"
                      /\ ep[t].items = <<>> /\ got[t] = <<>> /\ dead[t] = {0}
  BY DEF Init, NewEndpoint
<1>3. Other(s) \in Side /\ 1 \in Gen
  BY ConstantFacts
<1>4. /\ Len(<<Ctl("flow")>>) = 1 /\ <<Ctl("flow")>>[1].t = "flow" /\ Len(<<>>) = 0
      /\ <<>> \o <<>> = <<>>
  BY ControlSeqs
<1>5. \A g \in Gen : \A i \in 1 .. Len(wire[Other(s)][g]) : wire[Other(s)][g][i].t = "flow"
  BY <1>3, <1>4 DEF Init
<1>6. Len(Stream(s)) = 0 /\ Flight(s, 1) = {}
  BY <1>2, <1>3, <1>4, <1>5 DEF Stream, Flight, Numbers
<1>7. Closing(s)
  BY <1>2, <1>3, <1>5 DEF Closing, Ended, HasEof
<1>8. FirstChannel(s)
  BY <1>2, <1>3, <1>6 DEF FirstChannel
<1> QED
  BY <1>1, <1>2, <1>7, <1>8 DEF Had

LEMMA StepEInv == EInv /\ [Next]_vars => EInv'
<1> SUFFICES ASSUME EInv, [Next]_vars PROVE EInv'
  OBVIOUS
<1>0. OInv /\ OInv' /\ IInv
  BY StepOInv DEF EInv, OInv
<1>1. CASE UNCHANGED vars
  <2>1. UNCHANGED <<ep, wire, dead, got>>
    BY <1>1 DEF vars
  <2>2. \A s \in Side : QuietStep(s, ep[s])
    BY <1>0, <2>1 DEF QuietStep, IInv, TypeOK
  <2> QED
    BY <1>0, <2>2, QuietEInv, ConstantFacts
<1>2. ASSUME NEW s \in Side,
             \/ AppSend(s) \/ AppClose(s) \/ CloseRejects(s)
             \/ WriterFails(s) \/ WaitForPeer(s) \/ WaitForFlowWindow(s)
             \/ SendBuffers(s)
      PROVE  EInv'
  BY <1>0, <1>2, QuietActions, QuietEInv
<1>3. ASSUME NEW s \in Side,
             \/ AppAbort(s) \/ SendRejects(s) \/ LosePeer(s) \/ GraceExpires(s)
             \/ ReceiveEof(s) \/ ReceiveAbort(s) \/ ReceiveFlow(s)
             \/ ReceiveResume(s) \/ ReceiveAck(s)
      PROVE  EInv'
  BY <1>0, <1>3, LocalControl, ReceiveControl, ControlEInv
<1>4. ASSUME NEW s \in Side, CloseCompletes(s) PROVE EInv'
  BY <1>0, <1>4, CloseControl, ControlEInv
<1>5. ASSUME NEW s \in Side, NextCall(s) PROVE EInv'
  BY <1>0, <1>5, NextCallControl, ControlEInv
<1>6. ASSUME NEW s \in Side, SendNow(s) \/ BufferDrains(s) PROVE EInv'
  BY <1>0, <1>6, AcceptActions, AcceptEInv
<1>7. ASSUME NEW s \in Side, ReceiveData(s) PROVE EInv'
  BY <1>0, <1>7, ReceiveAction, ReceiveEInv
<1>8. CASE Claim \/ \E g \in Gen : Activate(g)
  BY <1>0, <1>8, ChannelEInv
<1>9. ASSUME NEW g \in Gen, RefuseActivation(g) PROVE EInv'
  BY <1>0, <1>9, RefuseEInv
<1> QED
  BY <1>1, <1>2, <1>3, <1>4, <1>5, <1>6, <1>7, <1>8, <1>9 DEF Next, Write, Receive

\* The reader's loop ends normally only after the other side's eof or with the
\* stream, and over a single channel the eof is complete: whoever aborts, closes
\* or loses its peer, the reader that saw it has every chunk the other side
\* submitted.
THEOREM EofComplete == Spec => []EofFaithful
<1>1. EInv => EofFaithful
  <2> SUFFICES ASSUME EInv, NEW s \in Side
      PROVE  /\ ep[s].reader = "done" =>
                  ep[Other(s)].eof = "sent" \/ ep[s].status = "closed"
             /\ ep[s].readClosed /\ ep[s].conn = "connected" /\ dead[s] = {0}
                  /\ ep[Other(s)].eof = "sent" =>
                     Len(Stream(s)) = ep[Other(s)].submitted
    BY DEF EofFaithful
  <2>1. Closing(s) /\ FirstChannel(s)
    BY DEF EInv
  <2> QED
    BY <2>1 DEF Closing, FirstChannel
<1>2. Init => EInv
  BY InitEInv
<1>3. EInv /\ [Next]_vars => EInv'
  BY StepEInv
<1> QED
  BY <1>1, <1>2, <1>3, PTL DEF Spec
--------------------------------------------------------------------------------
(* The flow-control account: what is counted, and what is under way.          *)

\* Bytes on generation g that are unacknowledged to s: chunks on their way to
\* the other side, acknowledgements on their way back. All generations count:
\* a side that rebinds may go back to an older one that still carries frames.
Chain(s, g) == Load(wire[s][g]) + AckedOn(wire[Other(s)][g])
Chains(s) == Sum([i \in 1 .. MaxGen + 1 |-> Chain(s, i - 1)])

\* Bytes an object holds for its consumer, and those its writer has on hand.
Held(e) == Bytes(e.items) + e.consumed
Buffered(e) == IF e.writer = "buffering" THEN SizeOf[e.sent + 1] ELSE 0

Outstanding(s) == Chains(s) + Held(ep[Other(s)]) + Buffered(ep[s])
Account(s) == ep[s].inFlight + early[s] + forgiven[s]

Covered(s) == Outstanding(s) <= Account(s)

\* A stream that has lost its channel is reconnecting: the next channel resets
\* its account.
LostOf(e) == e.status = "open" /\ e.link = 0 => e.conn = "reconnecting"

\* Until a channel is lost nothing is forgiven.
NoResume(q) == \A i \in 1 .. Len(q) : q[i].t # "resume"
Unbroken ==
    (\A t \in Side : dead[t] = {0}) =>
        \A s \in Side : forgiven[s] = 0 /\ \A g \in Gen : NoResume(wire[s][g])

FInv == EInv /\ (\A s \in Side : Covered(s) /\ LostOf(ep[s])) /\ Unbroken

-----------------------------------------------------------------------------
(* What frames and items weigh.                                              *)

\* A frame carries a number of bytes, and acknowledges a number of bytes.
LEMMA FrameFacts ==
    ASSUME NEW f \in Frame
    PROVE  /\ LoadOf(f) \in Nat /\ AckOf(f) \in Nat
           /\ f.t # "data" => LoadOf(f) = 0
           /\ f.t # "ack" => AckOf(f) = 0
<1>1. f.t = "data" => f.n \in 1 .. MaxChunks
  BY DEF Frame
<1>2. f.t = "ack" => f.bytes \in Nat
  BY DEF Frame
<1> QED
  BY <1>1, <1>2, SizeFacts DEF LoadOf, AckOf

\* The frames of a channel, one behind the other, and their first.
LEMMA LoadFacts ==
    ASSUME NEW q \in Seq(Frame)
    PROVE  /\ Load(q) \in Nat
           /\ \A r \in Seq(Frame) : Load(q \o r) = Load(q) + Load(r)
           /\ \A f \in Frame : Load(<<f>>) = LoadOf(f)
           /\ Load(<<>>) = 0
           /\ q # <<>> => Load(q) = LoadOf(Head(q)) + Load(Tail(q))
<1> DEFINE w == [f \in Frame |-> LoadOf(f)]
<1>1. w \in [Frame -> Nat]
  BY FrameFacts
<1>2. ASSUME NEW r \in Seq(Frame) PROVE Load(r) = Weight(w, r)
  <2>1. \A i \in DOMAIN r : w[r[i]] = LoadOf(r[i])
    <3>1. \A i \in DOMAIN r : r[i] \in Frame
      OBVIOUS
    <3> QED
      BY <3>1
  <2> HIDE DEF w
  <2>2. [i \in DOMAIN r |-> LoadOf(r[i])] = [i \in DOMAIN r |-> w[r[i]]]
    BY <2>1
  <2> QED
    BY <2>2 DEF Load, Weight
<1>3. \A f \in Frame : w[f] = LoadOf(f)
  OBVIOUS
<1> HIDE DEF w
<1>4. Load(q) \in Nat
  BY <1>1, <1>2, WeightType
<1>5. ASSUME NEW r \in Seq(Frame) PROVE Load(q \o r) = Load(q) + Load(r)
  <2>1. q \o r \in Seq(Frame)
    OBVIOUS
  <2>2. Weight(w, q \o r) = Weight(w, q) + Weight(w, r)
    BY <1>1, WeightConcat
  <2> QED
    BY <1>2, <2>1, <2>2
<1>6. ASSUME NEW f \in Frame PROVE Load(<<f>>) = LoadOf(f)
  <2>1. <<f>> \in Seq(Frame)
    OBVIOUS
  <2> QED
    BY <1>1, <1>2, <1>3, <2>1, WeightOne
<1>7. Load(<<>>) = 0
  <2>1. <<>> \in Seq(Frame)
    OBVIOUS
  <2>2. Ctl("eof") \in Frame
    BY CtlFrames
  <2> QED
    BY <1>1, <1>2, <2>1, <2>2, WeightOne
<1>8. q # <<>> => Load(q) = LoadOf(Head(q)) + Load(Tail(q))
  <2>1. q # <<>> => Head(q) \in Frame /\ Tail(q) \in Seq(Frame)
    OBVIOUS
  <2> QED
    BY <1>1, <1>2, <1>3, <2>1, WeightTail
<1> QED
  BY <1>4, <1>5, <1>6, <1>7, <1>8

LEMMA AckFacts ==
    ASSUME NEW q \in Seq(Frame)
    PROVE  /\ AckedOn(q) \in Nat
           /\ \A r \in Seq(Frame) : AckedOn(q \o r) = AckedOn(q) + AckedOn(r)
           /\ \A f \in Frame : AckedOn(<<f>>) = AckOf(f)
           /\ AckedOn(<<>>) = 0
           /\ q # <<>> => AckedOn(q) = AckOf(Head(q)) + AckedOn(Tail(q))
<1> DEFINE w == [f \in Frame |-> AckOf(f)]
<1>1. w \in [Frame -> Nat]
  BY FrameFacts
<1>2. ASSUME NEW r \in Seq(Frame) PROVE AckedOn(r) = Weight(w, r)
  <2>1. \A i \in DOMAIN r : w[r[i]] = AckOf(r[i])
    <3>1. \A i \in DOMAIN r : r[i] \in Frame
      OBVIOUS
    <3> QED
      BY <3>1
  <2> HIDE DEF w
  <2>2. [i \in DOMAIN r |-> AckOf(r[i])] = [i \in DOMAIN r |-> w[r[i]]]
    BY <2>1
  <2> QED
    BY <2>2 DEF AckedOn, Weight
<1>3. \A f \in Frame : w[f] = AckOf(f)
  OBVIOUS
<1> HIDE DEF w
<1>4. AckedOn(q) \in Nat
  BY <1>1, <1>2, WeightType
<1>5. ASSUME NEW r \in Seq(Frame) PROVE AckedOn(q \o r) = AckedOn(q) + AckedOn(r)
  <2>1. q \o r \in Seq(Frame)
    OBVIOUS
  <2>2. Weight(w, q \o r) = Weight(w, q) + Weight(w, r)
    BY <1>1, WeightConcat
  <2> QED
    BY <1>2, <2>1, <2>2
<1>6. ASSUME NEW f \in Frame PROVE AckedOn(<<f>>) = AckOf(f)
  <2>1. <<f>> \in Seq(Frame)
    OBVIOUS
  <2> QED
    BY <1>1, <1>2, <1>3, <2>1, WeightOne
<1>7. AckedOn(<<>>) = 0
  <2>1. <<>> \in Seq(Frame)
    OBVIOUS
  <2>2. Ctl("eof") \in Frame
    BY CtlFrames
  <2> QED
    BY <1>1, <1>2, <2>1, <2>2, WeightOne
<1>8. q # <<>> => AckedOn(q) = AckOf(Head(q)) + AckedOn(Tail(q))
  <2>1. q # <<>> => Head(q) \in Frame /\ Tail(q) \in Seq(Frame)
    OBVIOUS
  <2> QED
    BY <1>1, <1>2, <1>3, <2>1, WeightTail
<1> QED
  BY <1>4, <1>5, <1>6, <1>7, <1>8

\* The chunks in the reader's queue.
LEMMA BytesFacts ==
    ASSUME NEW q \in Seq(Item)
    PROVE  /\ Bytes(q) \in Nat /\ Bytes(<<>>) = 0
           /\ \A x \in Item : SizeOf[x.n] \in Nat /\ Bytes(Append(q, x)) = Bytes(q) + SizeOf[x.n]
           /\ q # <<>> => /\ Head(q) \in Item
                          /\ Bytes(q) = SizeOf[Head(q).n] + Bytes(Tail(q))
<1> DEFINE w == [x \in Item |-> SizeOf[x.n]]
<1>0. \A x \in Item : SizeOf[x.n] \in Nat
  BY SizeFacts DEF Item
<1>1. w \in [Item -> Nat]
  BY <1>0
<1>2. ASSUME NEW r \in Seq(Item) PROVE Bytes(r) = Weight(w, r)
  <2>1. \A i \in DOMAIN r : w[r[i]] = SizeOf[r[i].n]
    <3>1. \A i \in DOMAIN r : r[i] \in Item
      OBVIOUS
    <3> QED
      BY <3>1
  <2> HIDE DEF w
  <2>2. [i \in DOMAIN r |-> SizeOf[r[i].n]] = [i \in DOMAIN r |-> w[r[i]]]
    BY <2>1
  <2> QED
    BY <2>2 DEF Bytes, Weight
<1>3. \A x \in Item : w[x] = SizeOf[x.n]
  OBVIOUS
<1> HIDE DEF w
<1>4. Bytes(q) \in Nat
  BY <1>1, <1>2, WeightType
<1>5. ASSUME NEW x \in Item PROVE Bytes(Append(q, x)) = Bytes(q) + SizeOf[x.n]
  <2>1. <<x>> \in Seq(Item) /\ Append(q, x) = q \o <<x>> /\ Append(q, x) \in Seq(Item)
    OBVIOUS
  <2>2. Weight(w, q \o <<x>>) = Weight(w, q) + Weight(w, <<x>>)
    BY <1>1, <2>1, WeightConcat
  <2>3. Weight(w, <<x>>) = SizeOf[x.n]
    BY <1>1, <1>3, WeightOne
  <2> QED
    BY <1>2, <2>1, <2>2, <2>3
<1>7. q # <<>> => Head(q) \in Item /\ Bytes(q) = SizeOf[Head(q).n] + Bytes(Tail(q))
  <2>1. q # <<>> => Head(q) \in Item /\ Tail(q) \in Seq(Item)
    OBVIOUS
  <2> QED
    BY <1>1, <1>2, <1>3, <2>1, WeightTail
<1>8. Bytes(<<>>) = 0
  <2>1. [i \in DOMAIN <<>> |-> SizeOf[<<>>[i].n]] = <<>>
    OBVIOUS
  <2> QED
    BY <2>1, SumEmpty DEF Bytes
<1> QED
  BY <1>0, <1>4, <1>5, <1>7, <1>8

\* Control frames carry and acknowledge nothing.
LEMMA ControlWeights ==
    /\ Load(<<>>) = 0 /\ AckedOn(<<>>) = 0 /\ NoResume(<<>>) /\ <<>> \in Seq(Frame)
    /\ \A t \in {"ready", "flow", "resume", "eof", "abort"} :
          /\ <<Ctl(t)>> \in Seq(Frame) /\ Load(<<Ctl(t)>>) = 0 /\ AckedOn(<<Ctl(t)>>) = 0
          /\ t # "resume" => NoResume(<<Ctl(t)>>)
<1>1. <<>> \in Seq(Frame)
  OBVIOUS
<1>2. Load(<<>>) = 0 /\ AckedOn(<<>>) = 0 /\ NoResume(<<>>)
  <2>1. Load(<<>>) = 0
    BY <1>1, LoadFacts
  <2>2. AckedOn(<<>>) = 0
    BY <1>1, AckFacts
  <2>3. NoResume(<<>>)
    BY DEF NoResume
  <2> QED
    BY <2>1, <2>2, <2>3
<1>3. ASSUME NEW t \in {"ready", "flow", "resume", "eof", "abort"}
      PROVE  /\ <<Ctl(t)>> \in Seq(Frame) /\ Load(<<Ctl(t)>>) = 0 /\ AckedOn(<<Ctl(t)>>) = 0
             /\ t # "resume" => NoResume(<<Ctl(t)>>)
  <2>1. Ctl(t) \in Frame /\ Ctl(t).t = t
    BY CtlFrames DEF Ctl
  <2>2. LoadOf(Ctl(t)) = 0 /\ AckOf(Ctl(t)) = 0
    BY <2>1, FrameFacts
  <2>3. <<Ctl(t)>> \in Seq(Frame) /\ Len(<<Ctl(t)>>) = 1 /\ <<Ctl(t)>>[1] = Ctl(t)
    BY <2>1
  <2>4. Load(<<Ctl(t)>>) = 0 /\ AckedOn(<<Ctl(t)>>) = 0
    BY <1>1, <2>1, <2>2, LoadFacts, AckFacts
  <2>5. t # "resume" => NoResume(<<Ctl(t)>>)
    BY <2>1, <2>3 DEF NoResume
  <2> QED
    BY <2>3, <2>4, <2>5
<1> QED
  BY <1>1, <1>2, <1>3
-----------------------------------------------------------------------------
(* The channels.                                                             *)

\* The types the accounts are made of.
LEMMA AccountTypes ==
    ASSUME IInv, NEW s \in Side
    PROVE  /\ Held(ep[s]) \in Nat
           /\ Buffered(ep[s]) \in Nat
           /\ Account(s) \in Int
           /\ ep[s].inFlight \in Int /\ early[s] \in Int /\ forgiven[s] \in Int
           /\ \A g \in Gen : Chain(s, g) \in Nat /\ Chain(s, g) <= Chains(s)
           /\ [i \in 1 .. MaxGen + 1 |-> Chain(s, i - 1)] \in [1 .. MaxGen + 1 -> Nat]
           /\ Chains(s) \in Nat
<1>1. ep[s] \in Endpoint /\ Good(ep[s]) /\ Other(s) \in Side
  BY ObjectFacts, ConstantFacts
<1>2. Held(ep[s]) \in Nat
  <2>1. ep[s].items \in Seq(Item) /\ ep[s].consumed \in Nat
    BY <1>1 DEF Endpoint
  <2>2. Bytes(ep[s].items) \in Nat
    BY <2>1, BytesFacts
  <2> QED
    BY <2>1, <2>2 DEF Held
<1>3. Buffered(ep[s]) \in Nat
  <2>1. ep[s].writer = "buffering" => ep[s].sent + 1 \in 1 .. MaxChunks
    BY <1>1, NextChunk
  <2> QED
    BY <2>1, SizeFacts DEF Buffered
<1>4. ep[s].inFlight \in Int /\ early[s] \in Int /\ forgiven[s] \in Int
  BY <1>1 DEF Endpoint, IInv, TypeOK
<1>5. ASSUME NEW g \in Gen PROVE Chain(s, g) \in Nat
  <2>1. wire[s][g] \in Seq(Frame) /\ wire[Other(s)][g] \in Seq(Frame)
    BY <1>1 DEF IInv, TypeOK
  <2>2. Load(wire[s][g]) \in Nat /\ AckedOn(wire[Other(s)][g]) \in Nat
    BY <2>1, LoadFacts, AckFacts
  <2> QED
    BY <2>2 DEF Chain
<1> DEFINE c == [i \in 1 .. MaxGen + 1 |-> Chain(s, i - 1)]
<1>6. c \in [1 .. MaxGen + 1 -> Nat] /\ MaxGen + 1 \in Nat
  <2>1. \A i \in 1 .. MaxGen + 1 : i - 1 \in Gen
    BY GenAssumption DEF Gen
  <2> QED
    BY <1>5, <2>1, GenAssumption
<1>7. \A g \in Gen : g + 1 \in 1 .. MaxGen + 1 /\ (g + 1) - 1 = g
  BY GenAssumption DEF Gen
<1>8. \A g \in Gen : c[g + 1] = Chain(s, g)
  BY <1>7
<1>9. Chains(s) = Sum(c)
  BY DEF Chains
<1> HIDE DEF c
<1>10. Chains(s) \in Nat /\ \A j \in 1 .. MaxGen + 1 : c[j] <= Chains(s)
  BY <1>6, <1>9, SumOfNaturals
<1>11. \A g \in Gen : Chain(s, g) <= Chains(s)
  BY <1>7, <1>8, <1>10
<1> QED
  BY <1>2, <1>3, <1>4, <1>5, <1>6, <1>10, <1>11 DEF Account, c

\* The bytes on the channels grow by no more than those on one of them.
LEMMA ChainsGrow ==
    ASSUME IInv, IInv', NEW s \in Side, NEW g \in Gen, NEW d \in Int,
           Chain(s, g)' <= Chain(s, g) + d,
           \A h \in Gen : h # g => Chain(s, h)' <= Chain(s, h)
    PROVE  Chains(s)' <= Chains(s) + d
<1> DEFINE c == [i \in 1 .. MaxGen + 1 |-> Chain(s, i - 1)]
           e == [i \in 1 .. MaxGen + 1 |-> Chain(s, i - 1)']
<1>1. c \in [1 .. MaxGen + 1 -> Nat]
  BY AccountTypes
<1>2. e \in [1 .. MaxGen + 1 -> Nat]
  <2>1. ASSUME NEW h \in Gen PROVE Chain(s, h)' \in Nat
    <3>1. wire'[s][h] \in Seq(Frame) /\ wire'[Other(s)][h] \in Seq(Frame)
      <4>1. wire' \in [Side -> [Gen -> Seq(Frame)]] /\ Other(s) \in Side
        BY ConstantFacts DEF IInv, TypeOK
      <4> QED
        BY <4>1
    <3>2. Load(wire'[s][h]) \in Nat /\ AckedOn(wire'[Other(s)][h]) \in Nat
      BY <3>1, LoadFacts, AckFacts
    <3> QED
      BY <3>2 DEF Chain
  <2>2. \A i \in 1 .. MaxGen + 1 : i - 1 \in Gen
    BY GenAssumption DEF Gen
  <2> QED
    BY <2>1, <2>2
<1>3. MaxGen + 1 \in Nat /\ g + 1 \in 1 .. MaxGen + 1 /\ (g + 1) - 1 = g
  BY GenAssumption DEF Gen
<1>4. e[g + 1] <= c[g + 1] + d
  BY <1>3
<1>5. ASSUME NEW i \in 1 .. MaxGen + 1, i # g + 1 PROVE e[i] <= c[i]
  <2>1. i - 1 \in Gen /\ i - 1 # g
    BY <1>5, GenAssumption DEF Gen
  <2> QED
    BY <2>1
<1>6. Chains(s) = Sum(c) /\ Chains(s)' = Sum(e)
  BY DEF Chains
<1> HIDE DEF c, e
<1>7. c \in [1 .. MaxGen + 1 -> Int] /\ e \in [1 .. MaxGen + 1 -> Int]
  BY <1>1, <1>2
<1>8. Sum(e) <= Sum(c) + d
  BY <1>3, <1>4, <1>5, <1>7, SumGrowth
<1> QED
  BY <1>6, <1>8

\* A frame taken from q, or none: what it carries, and what it acknowledges.
TakenLoad(q, taken) == IF taken THEN LoadOf(Head(q)) ELSE 0
TakenAck(q, taken) == IF taken THEN AckOf(Head(q)) ELSE 0

\* Sending out on one side of a channel and taking from the other.
LEMMA ExchangedWeights ==
    ASSUME NEW mine \in Seq(Frame), NEW theirs \in Seq(Frame), NEW out \in Seq(Frame),
           NEW taken \in BOOLEAN, taken => theirs # <<>>,
           NEW mineNew \in {mine, mine \o out},
           NEW theirsNew \in {<<>>, IF taken THEN Tail(theirs) ELSE theirs}
    PROVE  /\ TakenLoad(theirs, taken) \in Nat /\ TakenAck(theirs, taken) \in Nat
           /\ Load(out) \in Nat /\ AckedOn(out) \in Nat
           /\ Load(mineNew) + AckedOn(theirsNew)
                <= Load(mine) + AckedOn(theirs) + (Load(out) - TakenAck(theirs, taken))
           /\ Load(theirsNew) + AckedOn(mineNew)
                <= Load(theirs) + AckedOn(mine) + (AckedOn(out) - TakenLoad(theirs, taken))
<1>1. ASSUME NEW m \in Nat, NEW a \in Nat, NEW x \in Nat, x = m \/ x = m + a
      PROVE  x <= m + a
  BY <1>1
<1>2. /\ Load(mine) \in Nat /\ AckedOn(mine) \in Nat
      /\ Load(out) \in Nat /\ AckedOn(out) \in Nat
      /\ Load(mineNew) \in Nat /\ AckedOn(mineNew) \in Nat
  <2>1. mineNew \in Seq(Frame)
    <3>1. mine \o out \in Seq(Frame)
      OBVIOUS
    <3> QED
      BY <3>1
  <2> QED
    BY <2>1, LoadFacts, AckFacts
<1>3. Load(mineNew) = Load(mine) \/ Load(mineNew) = Load(mine) + Load(out)
  BY LoadFacts
<1>4. AckedOn(mineNew) = AckedOn(mine) \/ AckedOn(mineNew) = AckedOn(mine) + AckedOn(out)
  BY AckFacts
<1>5. Load(mineNew) <= Load(mine) + Load(out)
  BY <1>1, <1>2, <1>3
<1>6. AckedOn(mineNew) <= AckedOn(mine) + AckedOn(out)
  BY <1>1, <1>2, <1>4
<1>7. /\ TakenLoad(theirs, taken) \in Nat /\ TakenAck(theirs, taken) \in Nat
      /\ Load(theirs) \in Nat /\ AckedOn(theirs) \in Nat
      /\ Load(theirsNew) \in Nat /\ AckedOn(theirsNew) \in Nat
  <2>1. taken => Head(theirs) \in Frame
    OBVIOUS
  <2>2. theirsNew \in Seq(Frame)
    <3>1. <<>> \in Seq(Frame) /\ (taken => Tail(theirs) \in Seq(Frame))
      OBVIOUS
    <3> QED
      BY <3>1
  <2>3. TakenLoad(theirs, taken) \in Nat /\ TakenAck(theirs, taken) \in Nat
    BY <2>1, FrameFacts DEF TakenLoad, TakenAck
  <2> QED
    BY <2>2, <2>3, LoadFacts, AckFacts
<1> DEFINE rest == IF taken THEN Tail(theirs) ELSE theirs
<1>8. rest \in Seq(Frame)
  OBVIOUS
<1>9. Load(theirs) = TakenLoad(theirs, taken) + Load(rest) /\ Load(rest) \in Nat
  <2>1. CASE taken
    BY <2>1, LoadFacts, <1>8 DEF TakenLoad
  <2>2. CASE ~taken
    <3>1. TakenLoad(theirs, taken) = 0 /\ rest = theirs
      BY <2>2 DEF TakenLoad
    <3> HIDE DEF rest
    <3> QED
      BY <1>7, <3>1
  <2> QED
    BY <2>1, <2>2
<1>10. AckedOn(theirs) = TakenAck(theirs, taken) + AckedOn(rest) /\ AckedOn(rest) \in Nat
  <2>1. CASE taken
    BY <2>1, AckFacts, <1>8 DEF TakenAck
  <2>2. CASE ~taken
    <3>1. TakenAck(theirs, taken) = 0 /\ rest = theirs
      BY <2>2 DEF TakenAck
    <3> HIDE DEF rest
    <3> QED
      BY <1>7, <3>1
  <2> QED
    BY <2>1, <2>2
<1> HIDE DEF rest
<1>11. ASSUME NEW t \in Nat, NEW k \in Nat, NEW r \in Nat, NEW x \in Nat, t = k + r, x = 0 \/ x = r
       PROVE  x <= t - k
  BY <1>11
<1>12. /\ Load(theirsNew) = 0 \/ Load(theirsNew) = Load(rest)
       /\ AckedOn(theirsNew) = 0 \/ AckedOn(theirsNew) = AckedOn(rest)
  <2>1. Load(<<>>) = 0 /\ AckedOn(<<>>) = 0
    BY ControlWeights
  <2> QED
    BY <2>1 DEF rest
<1>13. Load(theirsNew) <= Load(theirs) - TakenLoad(theirs, taken)
  BY <1>7, <1>9, <1>11, <1>12
<1>14. AckedOn(theirsNew) <= AckedOn(theirs) - TakenAck(theirs, taken)
  BY <1>7, <1>10, <1>11, <1>12
<1>15. ASSUME NEW a \in Nat, NEW b \in Nat, NEW c \in Nat, NEW d \in Nat, NEW k \in Nat,
              NEW x \in Nat, NEW y \in Nat, x <= a + c, y <= b - k
       PROVE  x + y <= a + b + (c - k) /\ y + x <= b + a + (c - k)
  BY <1>15
<1>16. Load(mineNew) + AckedOn(theirsNew)
         <= Load(mine) + AckedOn(theirs) + (Load(out) - TakenAck(theirs, taken))
  BY <1>2, <1>5, <1>7, <1>14, <1>15
<1>17. Load(theirsNew) + AckedOn(mineNew)
         <= Load(theirs) + AckedOn(mine) + (AckedOn(out) - TakenLoad(theirs, taken))
  BY <1>2, <1>6, <1>7, <1>13, <1>15
<1> QED
  BY <1>2, <1>7, <1>16, <1>17

\* A step of s through its channel, seen from both accounts.
LEMMA ExchangeChains ==
    ASSUME IInv, IInv', NEW s \in Side, NEW e, NEW out \in Seq(Frame),
           NEW taken \in BOOLEAN, taken => Arriving(s) # <<>>,
           Exchange(s, ep[s].link, e, out, taken)
    PROVE  /\ Chains(s)' <= Chains(s) + (Load(out) - TakenAck(Arriving(s), taken))
           /\ Chains(Other(s))'
                <= Chains(Other(s)) + (AckedOn(out) - TakenLoad(Arriving(s), taken))
           /\ TakenLoad(Arriving(s), taken) \in Nat /\ TakenAck(Arriving(s), taken) \in Nat
           /\ Load(out) \in Nat /\ AckedOn(out) \in Nat
<1>1. PICK g \in Gen : g = ep[s].link
  BY ObjectFacts
<1>2. PICK o \in Side : o = Other(s) /\ Other(o) = s
  BY ConstantFacts DEF Side, Other
<1>3. Exchanged(s, o, g, e, out, taken)
  BY <1>1, <1>2, ExchangeFacts
<1>4. wire[s][g] \in Seq(Frame) /\ wire[o][g] \in Seq(Frame)
  BY <1>1, <1>2 DEF IInv, TypeOK
<1>5. /\ wire'[s][g] \in {wire[s][g], wire[s][g] \o out}
      /\ wire'[o][g] \in {<<>>, IF taken THEN Tail(wire[o][g]) ELSE wire[o][g]}
      /\ \A h \in Gen : h # g => wire'[s][h] = wire[s][h] /\ wire'[o][h] = wire[o][h]
  BY <1>1, <1>2, <1>3 DEF Exchanged
<1>6. wire[o][g] = Arriving(s)
  BY <1>1, <1>2 DEF Arriving
<1> DEFINE l == TakenLoad(wire[o][g], taken)
           k == TakenAck(wire[o][g], taken)
<1>7. /\ l \in Nat /\ k \in Nat /\ Load(out) \in Nat /\ AckedOn(out) \in Nat
      /\ Load(wire'[s][g]) + AckedOn(wire'[o][g])
           <= Load(wire[s][g]) + AckedOn(wire[o][g]) + (Load(out) - k)
      /\ Load(wire'[o][g]) + AckedOn(wire'[s][g])
           <= Load(wire[o][g]) + AckedOn(wire[s][g]) + (AckedOn(out) - l)
  BY <1>4, <1>5, <1>6, ExchangedWeights
<1> HIDE DEF l, k
<1>8. /\ \A h \in Gen : /\ Chain(s, h) = Load(wire[s][h]) + AckedOn(wire[o][h])
                        /\ Chain(s, h)' = Load(wire'[s][h]) + AckedOn(wire'[o][h])
                        /\ Chain(o, h) = Load(wire[o][h]) + AckedOn(wire[s][h])
                        /\ Chain(o, h)' = Load(wire'[o][h]) + AckedOn(wire'[s][h])
  BY <1>2 DEF Chain
<1>9. \A h \in Gen : Chain(s, h) \in Nat /\ Chain(o, h) \in Nat
  BY <1>2, AccountTypes
<1>10. \A h \in Gen : h # g => Chain(s, h)' <= Chain(s, h) /\ Chain(o, h)' <= Chain(o, h)
  <2>1. \A n \in Nat : n <= n
    OBVIOUS
  <2>2. \A h \in Gen : h # g => Chain(s, h)' = Chain(s, h) /\ Chain(o, h)' = Chain(o, h)
    BY <1>5, <1>8
  <2> QED
    BY <1>9, <2>1, <2>2
<1>11. /\ Chain(s, g)' <= Chain(s, g) + (Load(out) - k)
       /\ Chain(o, g)' <= Chain(o, g) + (AckedOn(out) - l)
  BY <1>7, <1>8
<1>12. Load(out) - k \in Int /\ AckedOn(out) - l \in Int
  BY <1>7
<1>13. Chains(s)' <= Chains(s) + (Load(out) - k)
  BY <1>10, <1>11, <1>12, ChainsGrow
<1>14. Chains(o)' <= Chains(o) + (AckedOn(out) - l)
  BY <1>10, <1>11, <1>12, ChainsGrow
<1> QED
  BY <1>2, <1>6, <1>7, <1>13, <1>14 DEF l, k
-----------------------------------------------------------------------------
(* A step that keeps the accounts.                                           *)

\* Side s becomes e, may take a frame and sends out. What it comes to hold was
\* on the channel, and what it sends was held; what its writer sends or keeps
\* on hand is on its account, unless an acknowledgement takes it off.
FlowStep(s, e, out, taken) ==
    LET o == Other(s)
    IN  /\ Exchange(s, ep[s].link, e, out, taken)
        /\ out \in Seq(Frame) /\ NoResume(out)
        /\ taken => Arriving(s) # <<>>
        /\ Held(e) + AckedOn(out) <= Held(ep[s]) + TakenLoad(Arriving(s), taken)
        /\ Load(out) + Buffered(e) + Account(s)
             <= Buffered(ep[s]) + Account(s)' + TakenAck(Arriving(s), taken)
        /\ early'[o] = early[o] /\ forgiven'[o] = forgiven[o]
        /\ LostOf(e)
        /\ forgiven'[s] # forgiven[s] => taken /\ Head(Arriving(s)).t = "resume"

\* The types of the accounts, also after a step.
AccountsTyped ==
    \A s \in Side : /\ Held(ep[s]) \in Nat /\ Buffered(ep[s]) \in Nat
                    /\ Account(s) \in Int /\ Chains(s) \in Nat

LEMMA AccountTypesNext == IInv' => AccountsTyped'
<1>1. IInv => AccountsTyped
  BY AccountTypes DEF AccountsTyped
<1> QED
  BY <1>1, PTL

\* It keeps the bytes covered.
LEMMA FlowStepCovered ==
    ASSUME FInv, IInv', NEW s \in Side, NEW e, NEW out, NEW taken \in BOOLEAN,
           FlowStep(s, e, out, taken), NEW t \in Side
    PROVE  Covered(t)' /\ LostOf(ep[t])'
<1>1. PICK o \in Side : o = Other(s) /\ s = Other(o) /\ (t = s \/ t = o) /\ o # s
  BY DEF Side, Other
<1>2. IInv
  BY DEF FInv, EInv, OInv
<1>3. ep'[s] = e /\ ep'[o] = ep[o]
  BY <1>1, <1>2 DEF FlowStep, Exchange, IInv, TypeOK
<1>4. Exchange(s, ep[s].link, e, out, taken) /\ out \in Seq(Frame)
      /\ (taken => Arriving(s) # <<>>)
  BY DEF FlowStep
<1> DEFINE k == TakenAck(Arriving(s), taken)
           l == TakenLoad(Arriving(s), taken)
<1>5. /\ Chains(s)' <= Chains(s) + (Load(out) - k)
      /\ Chains(o)' <= Chains(o) + (AckedOn(out) - l)
      /\ k \in Nat /\ l \in Nat /\ Load(out) \in Nat /\ AckedOn(out) \in Nat
  BY <1>1, <1>2, <1>4, ExchangeChains
<1>6. /\ Held(e) + AckedOn(out) <= Held(ep[s]) + l
      /\ Load(out) + Buffered(e) + Account(s) <= Buffered(ep[s]) + Account(s)' + k
  BY DEF FlowStep
<1> HIDE DEF k, l
<1>7. /\ Held(ep[s]) \in Nat /\ Held(ep[o]) \in Nat
      /\ Buffered(ep[s]) \in Nat /\ Buffered(ep[o]) \in Nat
      /\ Account(s) \in Int /\ Account(o) \in Int /\ Chains(s) \in Nat /\ Chains(o) \in Nat
  BY <1>2, AccountTypes
<1>8. /\ Held(e) \in Nat /\ Buffered(e) \in Nat
      /\ Account(s)' \in Int /\ Chains(s)' \in Nat /\ Chains(o)' \in Nat
  <2>1. /\ Held(ep[s])' \in Nat /\ Buffered(ep[s])' \in Nat
        /\ Account(s)' \in Int /\ Chains(s)' \in Nat /\ Chains(o)' \in Nat
    BY AccountTypesNext DEF AccountsTyped
  <2> QED
    BY <1>3, <2>1 DEF Held, Buffered
<1>9. /\ Chains(s) + Held(ep[o]) + Buffered(ep[s]) <= Account(s)
      /\ Chains(o) + Held(ep[s]) + Buffered(ep[o]) <= Account(o)
  BY <1>1 DEF FInv, Covered, Outstanding
<1>10. Account(o)' = Account(o)
  BY <1>1, <1>3 DEF FlowStep, Account
<1>11. ASSUME NEW c \in Nat, NEW cn \in Nat, NEW h \in Nat, NEW b \in Nat, NEW bn \in Nat,
              NEW a \in Int, NEW an \in Int, NEW d \in Nat, NEW m \in Nat,
              cn <= c + (d - m), d + bn + a <= b + an + m, c + h + b <= a
       PROVE  cn + h + bn <= an
  BY <1>11
<1>12. ASSUME NEW c \in Nat, NEW cn \in Nat, NEW h \in Nat, NEW hn \in Nat, NEW b \in Nat,
              NEW a \in Int, NEW d \in Nat, NEW m \in Nat,
              cn <= c + (d - m), hn + d <= h + m, c + h + b <= a
       PROVE  cn + hn + b <= a
  BY <1>12
<1>13. Chains(s)' + Held(ep[o]) + Buffered(e) <= Account(s)'
  BY <1>5, <1>6, <1>7, <1>8, <1>9, <1>11
<1>14. Chains(o)' + Held(e) + Buffered(ep[o]) <= Account(o)
  BY <1>5, <1>6, <1>7, <1>8, <1>9, <1>12
<1>15. Covered(s)' /\ Covered(o)'
  BY <1>1, <1>3, <1>10, <1>13, <1>14 DEF Covered, Outstanding, Held, Buffered
<1>16. LostOf(ep[s])' /\ LostOf(ep[o])'
  BY <1>1, <1>3 DEF FlowStep, FInv, LostOf
<1> QED
  BY <1>1, <1>15, <1>16

\* The frames of a channel after a send and a receive.
LEMMA NoResumeFacts ==
    ASSUME NEW q \in Seq(Frame), NoResume(q)
    PROVE  /\ \A r \in Seq(Frame) : NoResume(r) => NoResume(q \o r)
           /\ q # <<>> => Head(q).t # "resume" /\ NoResume(Tail(q))
           /\ NoResume(<<>>)
<1>1. ASSUME NEW r \in Seq(Frame), NoResume(r) PROVE NoResume(q \o r)
  <2>1. /\ Len(q \o r) = Len(q) + Len(r)
        /\ \A i \in 1 .. Len(q) : (q \o r)[i] = q[i]
        /\ \A i \in Len(q) + 1 .. Len(q) + Len(r) : (q \o r)[i] = r[i - Len(q)]
    OBVIOUS
  <2>2. ASSUME NEW i \in 1 .. Len(q) + Len(r) PROVE (q \o r)[i].t # "resume"
    <3>1. CASE i <= Len(q)
      BY <2>1, <3>1 DEF NoResume
    <3>2. CASE ~(i <= Len(q))
      <4>1. i - Len(q) \in 1 .. Len(r) /\ i \in Len(q) + 1 .. Len(q) + Len(r)
        BY <3>2
      <4> QED
        BY <1>1, <2>1, <4>1 DEF NoResume
    <3> QED
      BY <3>1, <3>2
  <2> QED
    BY <2>1, <2>2 DEF NoResume
<1>2. ASSUME q # <<>> PROVE Head(q).t # "resume" /\ NoResume(Tail(q))
  <2>1. Head(q) = q[1] /\ 1 \in 1 .. Len(q) /\ Len(Tail(q)) = Len(q) - 1
        /\ \A i \in 1 .. Len(q) - 1 : Tail(q)[i] = q[i + 1] /\ i + 1 \in 1 .. Len(q)
    BY <1>2
  <2> QED
    BY <2>1 DEF NoResume
<1> QED
  BY <1>1, <1>2, ControlWeights

\* Nothing is forgiven while no channel was lost.
LEMMA FlowStepUnbroken ==
    ASSUME FInv, IInv', NEW s \in Side, NEW e, NEW out, NEW taken \in BOOLEAN,
           FlowStep(s, e, out, taken)
    PROVE  Unbroken'
<1> SUFFICES ASSUME \A t \in Side : dead'[t] = {0}
             PROVE  \A t \in Side : forgiven'[t] = 0 /\ \A h \in Gen : NoResume(wire'[t][h])
  BY DEF Unbroken
<1>1. PICK o \in Side : o = Other(s) /\ s = Other(o) /\ \A t \in Side : t = s \/ t = o
  BY DEF Side, Other
<1>2. IInv /\ Exchange(s, ep[s].link, e, out, taken) /\ out \in Seq(Frame) /\ NoResume(out)
      /\ (taken => Arriving(s) # <<>>)
  BY DEF FInv, EInv, OInv, FlowStep
<1>3. PICK g \in Gen : g = ep[s].link
  BY <1>2, ObjectFacts
<1>4. Exchanged(s, o, g, e, out, taken)
  BY <1>1, <1>2, <1>3, ExchangeFacts
<1>5. \A t \in Side : dead[t] = {0}
  <2>1. \A t \in Side : 0 \in dead[t]
    BY ChannelFacts DEF FInv, EInv, OInv
  <2>2. \A t \in Side : dead[t] \subseteq dead'[t]
    BY <1>1, <1>4 DEF Exchanged
  <2> QED
    BY <2>1, <2>2
<1>6. \A t \in Side : forgiven[t] = 0 /\ \A h \in Gen : NoResume(wire[t][h])
  BY <1>5 DEF FInv, Unbroken
<1>7. \A t \in Side, h \in Gen : wire[t][h] \in Seq(Frame)
  BY <1>2 DEF IInv, TypeOK
<1>8. wire[o][g] = Arriving(s)
  BY <1>1, <1>3 DEF Arriving
<1>9. \A h \in Gen : NoResume(wire'[s][h])
  BY <1>2, <1>4, <1>6, <1>7, NoResumeFacts DEF Exchanged
<1>10. \A h \in Gen : NoResume(wire'[o][h])
  <2>1. taken => NoResume(Tail(wire[o][g]))
    BY <1>2, <1>6, <1>7, <1>8, NoResumeFacts
  <2> QED
    BY <1>4, <1>6, <2>1, ControlWeights DEF Exchanged
<1>11. taken => Head(Arriving(s)).t # "resume"
  BY <1>2, <1>6, <1>7, <1>8, NoResumeFacts
<1>12. forgiven'[s] = 0 /\ forgiven'[o] = 0
  BY <1>1, <1>6, <1>11 DEF FlowStep
<1> QED
  BY <1>1, <1>9, <1>10, <1>12

\* A step that keeps the accounts preserves the invariant.
LEMMA FlowStepFInv ==
    ASSUME FInv, EInv', NEW s \in Side, NEW e, NEW out, NEW taken \in BOOLEAN,
           FlowStep(s, e, out, taken)
    PROVE  FInv'
<1>1. IInv'
  BY DEF EInv, OInv
<1>2. \A t \in Side : Covered(t)' /\ LostOf(ep[t])'
  BY <1>1, FlowStepCovered
<1>3. Unbroken'
  BY <1>1, FlowStepUnbroken
<1> QED
  BY <1>2, <1>3 DEF FInv
-----------------------------------------------------------------------------
(* The actions that move no chunk and no acknowledgement.                    *)

\* What is held, in flight and on hand stays; the writer may drop its chunk.
SameAccount(e, f) ==
    /\ f \in Endpoint
    /\ f.items = e.items /\ f.consumed = e.consumed
    /\ f.sent = e.sent /\ f.inFlight = e.inFlight
    /\ f.writer = "buffering" => e.writer = "buffering"

LEMMA SameAccountTransitive ==
    ASSUME NEW e, NEW f, NEW h, SameAccount(e, f), SameAccount(f, h)
    PROVE  SameAccount(e, h)
  BY DEF SameAccount

\* Setting one field.
LEMMA FieldAccounts ==
    ASSUME NEW e \in Endpoint
    PROVE  /\ SameAccount(e, e)
           /\ \A w \in {"run", "failed", "waitPeer", "waitFlow"} :
                 SameAccount(e, [e EXCEPT !.writer = w])
           /\ SameAccount(e, [e EXCEPT !.link = 0])
           /\ SameAccount(e, [e EXCEPT !.flowEnabled = TRUE])
           /\ SameAccount(e, [e EXCEPT !.status = "closed"])
           /\ \A w \in {"closing", "closed"} : SameAccount(e, [e EXCEPT !.writeStatus = w])
           /\ \A c \in {"connected", "reconnecting", "disconnected"} :
                 SameAccount(e, [e EXCEPT !.conn = c])
           /\ \A x \in {"sent", "rejected"} : SameAccount(e, [e EXCEPT !.eof = x])
<1>1. SameAccount(e, e)
  BY DEF SameAccount
<1>2. \A w \in {"run", "failed", "waitPeer", "waitFlow"} :
          SameAccount(e, [e EXCEPT !.writer = w])
  BY DEF Endpoint, SameAccount
<1>3. SameAccount(e, [e EXCEPT !.link = 0])
  BY ConstantFacts DEF Endpoint, SameAccount
<1>4. SameAccount(e, [e EXCEPT !.flowEnabled = TRUE])
  BY DEF Endpoint, SameAccount
<1>5. SameAccount(e, [e EXCEPT !.status = "closed"])
  BY DEF Endpoint, SameAccount
<1>6. \A w \in {"closing", "closed"} : SameAccount(e, [e EXCEPT !.writeStatus = w])
  BY DEF Endpoint, SameAccount
<1>7. \A c \in {"connected", "reconnecting", "disconnected"} :
          SameAccount(e, [e EXCEPT !.conn = c])
  BY DEF Endpoint, SameAccount
<1>8. \A x \in {"sent", "rejected"} : SameAccount(e, [e EXCEPT !.eof = x])
  BY DEF Endpoint, SameAccount
<1> QED
  BY <1>1, <1>2, <1>3, <1>4, <1>5, <1>6, <1>7, <1>8

\* The ends of the read side.
LEMMA EndReadAccounts ==
    ASSUME NEW e \in Endpoint
    PROVE  /\ SameAccount(e, EndRead(e)) /\ (LostOf(e) => LostOf(EndRead(e)))
           /\ SameAccount(e, Fail(e))
<1>1. \A f \in {EndRead(e), Fail(e)} : SameAccount(e, f) /\ (LostOf(e) => LostOf(f))
  BY EndReadFields DEF Beside, SameAccount, LostOf
<1> QED
  BY <1>1

\* The handlers built from them.
LEMMA MethodAccounts ==
    ASSUME NEW e \in Endpoint, LostOf(e)
    PROVE  /\ SameAccount(e, MaybeFinalize(e)) /\ LostOf(MaybeFinalize(e))
           /\ SameAccount(e, Finalize(Fail(ShutDown(e)))) /\ LostOf(Finalize(Fail(ShutDown(e))))
           /\ SameAccount(e, PeerLeft(e)) /\ LostOf(PeerLeft(e))
           /\ SameAccount(e, PeerDisconnected(e)) /\ LostOf(PeerDisconnected(e))
<1>1. ASSUME NEW f \in Endpoint PROVE SameAccount(f, Finalize(f))
  <2>1. SameAccount(f, WakeWriter(f, "failed"))
    BY FieldAccounts DEF WakeWriter
  <2>2. WakeWriter(f, "failed") \in Endpoint
    BY <2>1 DEF SameAccount
  <2>3. SameAccount(WakeWriter(f, "failed"), Finalize(f))
    BY <2>2, FieldAccounts DEF Finalize
  <2> QED
    BY <2>1, <2>3, SameAccountTransitive
<1>2. SameAccount(e, MaybeFinalize(e)) /\ LostOf(MaybeFinalize(e))
  <2> DEFINE f == [e EXCEPT !.status = "closed"]
  <2>1. SameAccount(e, f) /\ f \in Endpoint /\ f.status = "closed"
    BY FieldAccounts, FieldReads DEF SameAccount
  <2>2. SameAccount(f, Finalize(f)) /\ Finalize(f).status = "closed"
    BY <1>1, <2>1, MethodReads
  <2>3. SameAccount(e, Finalize(f)) /\ LostOf(Finalize(f))
    BY <2>1, <2>2, SameAccountTransitive DEF LostOf
  <2>4. MaybeFinalize(e) \in {e, Finalize(f)}
    BY DEF MaybeFinalize
  <2> HIDE DEF f
  <2> QED
    BY <2>3, <2>4, FieldAccounts
<1> DEFINE d == ShutDown(e)
<1>3. SameAccount(e, d) /\ d \in Endpoint
  <2> DEFINE f == [e EXCEPT !.status = "closed"]
  <2>1. SameAccount(e, f) /\ f \in Endpoint
    BY FieldAccounts DEF SameAccount
  <2>2. d = [f EXCEPT !.writeStatus = "closed"]
    BY DEF ShutDown, Endpoint
  <2> HIDE DEF f, d
  <2>3. SameAccount(f, d)
    BY <2>1, <2>2, FieldAccounts
  <2>4. d \in Endpoint
    BY <2>3 DEF SameAccount
  <2> QED
    BY <2>1, <2>3, <2>4, SameAccountTransitive
<1>4. SameAccount(e, Finalize(Fail(d)))
  <2> HIDE DEF d
  <2>1. SameAccount(d, Fail(d)) /\ Fail(d) \in Endpoint
    BY <1>3, EndReadAccounts DEF SameAccount
  <2>2. SameAccount(Fail(d), Finalize(Fail(d)))
    BY <1>1, <2>1
  <2> QED
    BY <1>3, <2>1, <2>2, SameAccountTransitive
<1>5. SameAccount(e, PeerLeft(e))
  <2> DEFINE p == [d EXCEPT !.conn = "disconnected"]
  <2> HIDE DEF d
  <2>1. SameAccount(d, p) /\ p \in Endpoint
    BY <1>3, FieldAccounts DEF SameAccount
  <2>2. PeerLeft(e) = Finalize(EndRead(p))
    BY DEF PeerLeft, d
  <2> HIDE DEF p
  <2>3. SameAccount(p, EndRead(p)) /\ EndRead(p) \in Endpoint
    BY <2>1, EndReadAccounts DEF SameAccount
  <2>4. SameAccount(EndRead(p), Finalize(EndRead(p)))
    BY <1>1, <2>3
  <2> QED
    BY <1>3, <2>1, <2>2, <2>3, <2>4, SameAccountTransitive
<1>6. LostOf(Finalize(Fail(d))) /\ LostOf(PeerLeft(e))
  BY HandlerContinues DEF LostOf
<1>7. SameAccount(e, PeerDisconnected(e))
  BY FieldAccounts DEF PeerDisconnected
<1>8. LostOf(PeerDisconnected(e))
  BY DEF PeerDisconnected, LostOf, Endpoint
<1> QED
  BY <1>2, <1>4, <1>5, <1>6, <1>7, <1>8

\* A taken frame has a weight.
LEMMA ExchangeTaken ==
    ASSUME IInv, NEW s \in Side, NEW taken \in BOOLEAN, taken => Arriving(s) # <<>>
    PROVE  TakenLoad(Arriving(s), taken) \in Nat /\ TakenAck(Arriving(s), taken) \in Nat
<1>1. Arriving(s) \in Seq(Frame)
  BY ObjectFacts, ConstantFacts DEF Arriving, IInv, TypeOK
<1>2. taken => Head(Arriving(s)) \in Frame
  BY <1>1
<1> QED
  BY <1>2, FrameFacts DEF TakenLoad, TakenAck

\* A step that exchanges control frames only.
LEMMA SteadyStep ==
    ASSUME IInv, NEW s \in Side, NEW e, SameAccount(ep[s], e), LostOf(e),
           NEW out \in {<<>>, <<Ctl("eof")>>, <<Ctl("abort")>>}, NEW taken \in BOOLEAN,
           taken => Arriving(s) # <<>>,
           Exchange(s, ep[s].link, e, out, taken), UNCHANGED <<early, forgiven>>
    PROVE  FlowStep(s, e, out, taken)
<1>1. out \in Seq(Frame) /\ NoResume(out) /\ Load(out) = 0 /\ AckedOn(out) = 0
  BY ControlWeights
<1>2. ep'[s] = e
  BY DEF Exchange, IInv, TypeOK
<1>3. Held(e) = Held(ep[s]) /\ Account(s)' = Account(s)
  BY <1>2 DEF SameAccount, Held, Account
<1>4. Buffered(e) = Buffered(ep[s]) \/ Buffered(e) = 0
  BY DEF SameAccount, Buffered
<1>5. /\ Held(ep[s]) \in Nat /\ Buffered(ep[s]) \in Nat /\ Account(s) \in Int
  BY AccountTypes
<1>6. TakenLoad(Arriving(s), taken) \in Nat /\ TakenAck(Arriving(s), taken) \in Nat
  BY <1>1, ExchangeTaken
<1>7. ASSUME NEW h \in Nat, NEW b \in Nat, NEW bn \in Nat, NEW a \in Int, NEW l \in Nat,
             NEW k \in Nat, bn = b \/ bn = 0
      PROVE  h + 0 <= h + l /\ 0 + bn + a <= b + a + k
  BY <1>7
<1>8. /\ Held(e) + AckedOn(out) <= Held(ep[s]) + TakenLoad(Arriving(s), taken)
      /\ Load(out) + Buffered(e) + Account(s)
           <= Buffered(ep[s]) + Account(s)' + TakenAck(Arriving(s), taken)
  <2>1. 0 \in Nat /\ Buffered(e) \in Nat
    BY <1>4, <1>5
  <2> QED
    BY <1>1, <1>3, <1>4, <1>5, <1>6, <1>7, <2>1
<1> QED
  BY <1>1, <1>8 DEF FlowStep

\* A step that touches no channel.
LEMMA QuietExchange ==
    ASSUME IInv, NEW s \in Side, NEW e, ep' = [ep EXCEPT ![s] = e], e.link = ep[s].link,
           UNCHANGED <<wire, dead>>
    PROVE  Exchange(s, ep[s].link, e, <<>>, FALSE)
<1> DEFINE o == Other(s)
           g == ep[s].link
<1>1. g \in Gen /\ o \in Side /\ o # s /\ wire \in [Side -> [Gen -> Seq(Frame)]]
      /\ dead \in [Side -> SUBSET Gen]
  BY ObjectFacts, ConstantFacts DEF IInv, TypeOK
<1>2. wire[s][g] \o <<>> = wire[s][g]
  <2>1. wire[s][g] \in Seq(Frame)
    BY <1>1
  <2> QED
    BY <2>1
<1>3. dead = [dead EXCEPT ![s] = dead[s]]
  BY <1>1
<1>4. wire = [wire EXCEPT ![s][g] = wire[s][g], ![o][g] = wire[o][g]]
  BY <1>1
<1>5. wire' = [wire EXCEPT ![s][g] = IF g \in dead[o] THEN @ ELSE @ \o <<>>, ![o][g] = @]
  BY <1>1, <1>2, <1>4
<1> QED
  BY <1>3, <1>5 DEF Exchange
\* send(), close() and abort(); the writer's waits; the control frames that
\* change no count; the loss of the channel and the end of the grace time.
LEMMA SteadyActions ==
    ASSUME FInv, IInv', NEW s \in Side,
           \/ AppSend(s) \/ AppClose(s) \/ AppAbort(s) \/ CloseCompletes(s) \/ CloseRejects(s)
           \/ WriterFails(s) \/ WaitForPeer(s) \/ WaitForFlowWindow(s)
           \/ ReceiveEof(s) \/ ReceiveAbort(s) \/ ReceiveFlow(s)
           \/ LosePeer(s) \/ GraceExpires(s)
    PROVE  \E e, out : \E taken \in BOOLEAN : FlowStep(s, e, out, taken)
<1>0. /\ IInv /\ ep[s] \in Endpoint /\ ep \in [Side -> Endpoint] /\ LostOf(ep[s])
      /\ <<>> \in {<<>>, <<Ctl("eof")>>, <<Ctl("abort")>>}
  BY ObjectFacts DEF FInv, EInv, OInv
<1>1. ASSUME NEW e, SameAccount(ep[s], e), LostOf(e), e.link = ep[s].link,
             ep' = [ep EXCEPT ![s] = e], UNCHANGED <<wire, dead, early, forgiven>>
      PROVE  FlowStep(s, e, <<>>, FALSE)
  BY <1>0, <1>1, QuietExchange, SteadyStep
<1>2. ASSUME NEW t, Arrives(s, t), NEW e, SameAccount(ep[s], e), LostOf(e),
             Handle(s, e, <<>>), UNCHANGED <<early, forgiven>>
      PROVE  FlowStep(s, e, <<>>, TRUE)
  <2>1. Arriving(s) # <<>> /\ Exchange(s, ep[s].link, e, <<>>, TRUE)
    BY <1>2 DEF Arrives, Handle
  <2> QED
    BY <1>0, <1>2, <2>1, SteadyStep
<1>3. CASE AppSend(s)
  <2> DEFINE e == [ep[s] EXCEPT !.submitted = @ + 1]
  <2>1. ep' = [ep EXCEPT ![s] = e] /\ UNCHANGED <<wire, dead, early, forgiven>>
    BY <1>0, <1>3 DEF AppSend, account
  <2>2. ep'[s] = e /\ ep'[s] \in Endpoint
    BY <1>0, <2>1 DEF IInv, TypeOK
  <2>3. /\ e.items = ep[s].items /\ e.consumed = ep[s].consumed /\ e.sent = ep[s].sent
        /\ e.inFlight = ep[s].inFlight /\ e.writer = ep[s].writer /\ e.link = ep[s].link
        /\ e.status = ep[s].status /\ e.conn = ep[s].conn
    BY <1>0 DEF Endpoint
  <2> HIDE DEF e
  <2>4. SameAccount(ep[s], e) /\ LostOf(e)
    BY <1>0, <2>2, <2>3 DEF SameAccount, LostOf
  <2> QED
    BY <1>1, <2>1, <2>3, <2>4
<1>4. CASE AppClose(s)
  <2> DEFINE e == [ep[s] EXCEPT !.writeStatus = "closing"]
  <2>1. ep' = [ep EXCEPT ![s] = e] /\ UNCHANGED <<wire, dead, early, forgiven>>
    BY <1>0, <1>4 DEF AppClose, account
  <2>2. SameAccount(ep[s], e) /\ e.link = ep[s].link /\ LostOf(e)
    BY <1>0, FieldAccounts DEF LostOf, Endpoint
  <2> HIDE DEF e
  <2> QED
    BY <1>1, <2>1, <2>2
<1>5. CASE CloseRejects(s)
  <2> DEFINE e == [ep[s] EXCEPT !.eof = "rejected"]
  <2>1. ep' = [ep EXCEPT ![s] = e] /\ UNCHANGED <<wire, dead, early, forgiven>>
    BY <1>0, <1>5 DEF CloseRejects, account
  <2>2. SameAccount(ep[s], e) /\ e.link = ep[s].link /\ LostOf(e)
    BY <1>0, FieldAccounts DEF LostOf, Endpoint
  <2> HIDE DEF e
  <2> QED
    BY <1>1, <2>1, <2>2
<1>6. CASE WriterFails(s) \/ WaitForPeer(s) \/ WaitForFlowWindow(s)
  <2>1. PICK w \in {"failed", "waitPeer", "waitFlow"} :
          ep' = [ep EXCEPT ![s].writer = w] /\ UNCHANGED <<wire, dead, early, forgiven>>
    BY <1>6 DEF WriterFails, WaitForPeer, WaitForFlowWindow, account
  <2> DEFINE e == [ep[s] EXCEPT !.writer = w]
  <2>2. ep' = [ep EXCEPT ![s] = e]
    BY <1>0, <2>1
  <2>3. SameAccount(ep[s], e) /\ e.link = ep[s].link /\ LostOf(e)
    BY <1>0, FieldAccounts DEF LostOf, Endpoint
  <2> HIDE DEF e
  <2> QED
    BY <1>1, <2>1, <2>2, <2>3
<1>7. CASE AppAbort(s)
  <2> DEFINE e == Finalize(Fail(ShutDown(ep[s])))
  <2>1. PICK out \in {<<>>, <<Ctl("abort")>>} : Exchange(s, ep[s].link, e, out, FALSE)
    BY <1>7 DEF AppAbort, Local
  <2>2. SameAccount(ep[s], e) /\ LostOf(e) /\ UNCHANGED <<early, forgiven>>
    BY <1>0, <1>7, MethodAccounts DEF AppAbort, account
  <2> HIDE DEF e
  <2>3. FlowStep(s, e, out, FALSE)
    BY <1>0, <2>1, <2>2, SteadyStep
  <2> QED
    BY <2>3
<1>8. CASE CloseCompletes(s)
  <2> DEFINE x == [ep[s] EXCEPT !.writeStatus = "closed"]
             d == [ep[s] EXCEPT !.writeStatus = "closed", !.eof = "sent"]
             e == MaybeFinalize(d)
  <2>1. Exchange(s, ep[s].link, e, <<Ctl("eof")>>, FALSE) /\ UNCHANGED <<early, forgiven>>
    BY <1>8 DEF CloseCompletes, Local, account
  <2>2. SameAccount(ep[s], x) /\ x \in Endpoint
    BY <1>0, FieldAccounts DEF SameAccount
  <2>3. d = [x EXCEPT !.eof = "sent"] /\ LostOf(d)
    BY <1>0 DEF Endpoint, LostOf
  <2> HIDE DEF x, d
  <2>4. SameAccount(x, d) /\ d \in Endpoint
    BY <2>2, <2>3, FieldAccounts DEF SameAccount
  <2>5. SameAccount(d, e) /\ LostOf(e)
    BY <2>3, <2>4, MethodAccounts
  <2> HIDE DEF e
  <2>6. SameAccount(ep[s], e)
    BY <2>2, <2>4, <2>5, SameAccountTransitive
  <2>7. FlowStep(s, e, <<Ctl("eof")>>, FALSE)
    BY <1>0, <2>1, <2>5, <2>6, SteadyStep
  <2> QED
    BY <2>7
<1>9. CASE ReceiveEof(s)
  <2> DEFINE d == EndRead(ep[s])
             e == MaybeFinalize(d)
  <2>1. Arrives(s, "eof") /\ Handle(s, e, <<>>) /\ UNCHANGED <<early, forgiven>>
    BY <1>9 DEF ReceiveEof, account
  <2>2. SameAccount(ep[s], d) /\ LostOf(d) /\ d \in Endpoint
    BY <1>0, EndReadAccounts DEF SameAccount
  <2> HIDE DEF d
  <2>3. SameAccount(d, e) /\ LostOf(e)
    BY <2>2, MethodAccounts
  <2> HIDE DEF e
  <2>4. SameAccount(ep[s], e)
    BY <2>2, <2>3, SameAccountTransitive
  <2> QED
    BY <1>2, <2>1, <2>3, <2>4
<1>10. CASE ReceiveAbort(s)
  <2> DEFINE e == Finalize(Fail(ShutDown(ep[s])))
  <2>1. Arrives(s, "abort") /\ Handle(s, e, <<>>) /\ UNCHANGED <<early, forgiven>>
    BY <1>10 DEF ReceiveAbort, account
  <2>2. SameAccount(ep[s], e) /\ LostOf(e)
    BY <1>0, MethodAccounts
  <2> HIDE DEF e
  <2> QED
    BY <1>2, <2>1, <2>2
<1>11. CASE ReceiveFlow(s)
  <2> DEFINE e == [ep[s] EXCEPT !.flowEnabled = TRUE]
  <2>1. Arrives(s, "flow") /\ Handle(s, e, <<>>) /\ UNCHANGED <<early, forgiven>>
    BY <1>11 DEF ReceiveFlow, account
  <2>2. SameAccount(ep[s], e) /\ LostOf(e)
    BY <1>0, FieldAccounts DEF LostOf, Endpoint
  <2> HIDE DEF e
  <2> QED
    BY <1>2, <2>1, <2>2
<1>12. CASE LosePeer(s)
  <2> DEFINE d == [ep[s] EXCEPT !.link = 0]
             e == PeerDisconnected(d)
  <2>1. Exchange(s, ep[s].link, e, <<>>, FALSE) /\ UNCHANGED <<early, forgiven>>
    BY <1>12 DEF LosePeer, Local, account
  <2>2. SameAccount(ep[s], d) /\ d \in Endpoint
    BY <1>0, FieldAccounts DEF SameAccount
  <2> HIDE DEF d
  <2>3. SameAccount(d, e)
    BY <2>2, FieldAccounts DEF PeerDisconnected
  <2>4. LostOf(e)
    BY <2>2 DEF PeerDisconnected, LostOf, Endpoint
  <2> HIDE DEF e
  <2>5. SameAccount(ep[s], e)
    BY <2>2, <2>3, SameAccountTransitive
  <2>6. FlowStep(s, e, <<>>, FALSE)
    BY <1>0, <2>1, <2>4, <2>5, SteadyStep
  <2> QED
    BY <2>6
<1>13. CASE GraceExpires(s)
  <2> DEFINE e == PeerLeft(ep[s])
  <2>1. Exchange(s, ep[s].link, e, <<>>, FALSE) /\ UNCHANGED <<early, forgiven>>
    BY <1>13 DEF GraceExpires, Local, account
  <2>2. SameAccount(ep[s], e) /\ LostOf(e)
    BY <1>0, MethodAccounts
  <2> HIDE DEF e
  <2>3. FlowStep(s, e, <<>>, FALSE)
    BY <1>0, <2>1, <2>2, SteadyStep
  <2> QED
    BY <2>3
<1> QED
  BY <1>1, <1>2, <1>3, <1>4, <1>5, <1>6, <1>7, <1>8, <1>9, <1>10, <1>11, <1>12, <1>13

-----------------------------------------------------------------------------
(* What is given back: acknowledgements, and the resume frame.               *)

\* Setting the counted bytes and waking the writer.
LEMMA InFlightFacts ==
    ASSUME NEW e \in Endpoint, NEW i \in Int
    PROVE  LET f == WakeFlow([e EXCEPT !.inFlight = i])
           IN  /\ f \in Endpoint /\ f.inFlight = i
               /\ f.items = e.items /\ f.consumed = e.consumed /\ f.sent = e.sent
               /\ f.status = e.status /\ f.link = e.link /\ f.conn = e.conn
               /\ f.writer = "buffering" <=> e.writer = "buffering"
<1> DEFINE x == [e EXCEPT !.inFlight = i]
           y == [x EXCEPT !.writer = "run"]
<1>1. /\ x \in Endpoint /\ x.inFlight = i
      /\ x.items = e.items /\ x.consumed = e.consumed /\ x.sent = e.sent
      /\ x.status = e.status /\ x.link = e.link /\ x.conn = e.conn /\ x.writer = e.writer
  BY DEF Endpoint
<1> HIDE DEF x
<1>2. /\ y \in Endpoint /\ y.inFlight = x.inFlight
      /\ y.items = x.items /\ y.consumed = x.consumed /\ y.sent = x.sent
      /\ y.status = x.status /\ y.link = x.link /\ y.conn = x.conn /\ y.writer = "run"
  BY <1>1 DEF Endpoint
<1>3. WakeFlow(x) = IF x.writer = "waitFlow" THEN y ELSE x
  BY DEF WakeFlow
<1> HIDE DEF y
<1>4. LET f == WakeFlow(x)
      IN  /\ f \in Endpoint /\ f.inFlight = i
          /\ f.items = e.items /\ f.consumed = e.consumed /\ f.sent = e.sent
          /\ f.status = e.status /\ f.link = e.link /\ f.conn = e.conn
          /\ f.writer = "buffering" <=> e.writer = "buffering"
  BY <1>1, <1>2, <1>3
<1> QED
  BY <1>4 DEF x

\* The resume frame: what was counted is forgiven.
LEMMA ResumeFlow ==
    ASSUME FInv, NEW s \in Side, ReceiveResume(s)
    PROVE  \E e : FlowStep(s, e, <<Ctl("flow")>>, TRUE)
<1> DEFINE e == WakeFlow([ep[s] EXCEPT !.inFlight = 0])
           out == <<Ctl("flow")>>
<1>0. IInv /\ ep[s] \in Endpoint /\ LostOf(ep[s]) /\ Other(s) # s
  BY ObjectFacts, ConstantFacts DEF FInv, EInv, OInv
<1>1. /\ Arrives(s, "resume") /\ Exchange(s, ep[s].link, e, out, TRUE)
      /\ forgiven' = [forgiven EXCEPT ![s] = @ + ep[s].inFlight] /\ UNCHANGED early
  BY DEF ReceiveResume, Handle
<1>2. /\ e.inFlight = 0 /\ e.items = ep[s].items /\ e.consumed = ep[s].consumed
      /\ e.sent = ep[s].sent /\ e.status = ep[s].status /\ e.link = ep[s].link
      /\ e.conn = ep[s].conn /\ (e.writer = "buffering" <=> ep[s].writer = "buffering")
  BY <1>0, 0 \in Int, InFlightFacts
<1> HIDE DEF e
<1>3. out \in Seq(Frame) /\ NoResume(out) /\ Load(out) = 0 /\ AckedOn(out) = 0
  BY ControlWeights
<1> HIDE DEF out
<1>4. Arriving(s) # <<>> /\ Head(Arriving(s)).t = "resume"
  BY <1>1 DEF Arrives
<1>5. Held(e) = Held(ep[s]) /\ Buffered(e) = Buffered(ep[s]) /\ LostOf(e)
  BY <1>0, <1>2 DEF Held, Buffered, LostOf
<1>6. /\ ep'[s] = e /\ early' = early
      /\ forgiven'[s] = forgiven[s] + ep[s].inFlight /\ forgiven'[Other(s)] = forgiven[Other(s)]
  BY <1>0, <1>1 DEF Exchange, IInv, TypeOK
<1>7. /\ ep[s].inFlight \in Int /\ early[s] \in Int /\ forgiven[s] \in Int
      /\ Held(ep[s]) \in Nat /\ Buffered(ep[s]) \in Nat
      /\ TakenLoad(Arriving(s), TRUE) \in Nat /\ TakenAck(Arriving(s), TRUE) \in Nat
  BY <1>0, <1>4, AccountTypes, ExchangeTaken
<1>8. Account(s)' = 0 + early[s] + (forgiven[s] + ep[s].inFlight)
  BY <1>2, <1>6 DEF Account
<1>9. ASSUME NEW i \in Int, NEW a \in Int, NEW f \in Int, NEW h \in Nat, NEW b \in Nat,
             NEW l \in Nat, NEW k \in Nat
      PROVE  h + 0 <= h + l /\ 0 + b + (i + a + f) <= b + (0 + a + (f + i)) + k
  OBVIOUS
<1>10. /\ Held(e) + AckedOn(out) <= Held(ep[s]) + TakenLoad(Arriving(s), TRUE)
       /\ Load(out) + Buffered(e) + Account(s)
            <= Buffered(ep[s]) + Account(s)' + TakenAck(Arriving(s), TRUE)
  BY <1>3, <1>5, <1>7, <1>8, <1>9 DEF Account
<1>11. FlowStep(s, e, out, TRUE)
  BY <1>1, <1>3, <1>4, <1>5, <1>6, <1>10 DEF FlowStep
<1> QED
  BY <1>11 DEF out
\* An acknowledgement takes off what it acknowledges, or all that is counted.
LEMMA AckFlow ==
    ASSUME FInv, NEW s \in Side, ReceiveAck(s)
    PROVE  \E e : FlowStep(s, e, <<>>, TRUE)
<1> DEFINE f == Head(Arriving(s))
           b == f.bytes
           i == IF ep[s].inFlight > b THEN ep[s].inFlight - b ELSE 0
           e == Acknowledge(ep[s], b)
<1>0. IInv /\ ep[s] \in Endpoint /\ LostOf(ep[s]) /\ Other(s) # s
  BY ObjectFacts, ConstantFacts DEF FInv, EInv, OInv
<1>1. Arrives(s, "ack") /\ Exchange(s, ep[s].link, e, <<>>, TRUE) /\ UNCHANGED <<early, forgiven>>
  BY DEF ReceiveAck, Handle, account
<1>2. f \in Frame /\ f.t = "ack" /\ Arriving(s) # <<>>
  BY <1>0, <1>1, ArrivingFacts DEF Arriving
<1>3. b \in Nat
  BY <1>2 DEF Frame
<1>4. LoadOf(f) = 0 /\ AckOf(f) = b
  <2>1. LoadOf(f) = 0
    BY <1>2, FrameFacts
  <2> QED
    BY <1>2, <2>1 DEF AckOf
<1>5. TakenLoad(Arriving(s), TRUE) = 0 /\ TakenAck(Arriving(s), TRUE) = b
  BY <1>4 DEF TakenLoad, TakenAck
<1> HIDE DEF b, f
<1>6. ep[s].inFlight \in Int
  BY <1>0 DEF Endpoint
<1>7. i \in Int /\ ep[s].inFlight <= i + b
  BY <1>3, <1>6
<1>8. e = WakeFlow([ep[s] EXCEPT !.inFlight = i])
  BY <1>0 DEF Acknowledge, Endpoint
<1> HIDE DEF e, i
<1>9. /\ e.inFlight = i /\ e.items = ep[s].items /\ e.consumed = ep[s].consumed
      /\ e.sent = ep[s].sent /\ e.status = ep[s].status /\ e.link = ep[s].link
      /\ e.conn = ep[s].conn /\ (e.writer = "buffering" <=> ep[s].writer = "buffering")
  BY <1>0, <1>7, <1>8, InFlightFacts
<1>10. Held(e) = Held(ep[s]) /\ Buffered(e) = Buffered(ep[s]) /\ LostOf(e)
  BY <1>0, <1>9 DEF Held, Buffered, LostOf
<1>11. ep'[s] = e
  BY <1>0, <1>1 DEF Exchange, IInv, TypeOK
<1>12. early[s] \in Int /\ forgiven[s] \in Int /\ Held(ep[s]) \in Nat /\ Buffered(ep[s]) \in Nat
  BY <1>0, AccountTypes
<1>13. Account(s)' = i + early[s] + forgiven[s]
  BY <1>1, <1>9, <1>11 DEF Account
<1>14. ASSUME NEW n \in Int, NEW m \in Int, NEW a \in Int, NEW g \in Int, NEW h \in Nat,
              NEW k \in Nat, NEW d \in Nat, n <= m + d
       PROVE  h + 0 <= h + 0 /\ 0 + k + (n + a + g) <= k + (m + a + g) + d
  BY <1>14
<1>15. Load(<<>>) = 0 /\ AckedOn(<<>>) = 0 /\ NoResume(<<>>) /\ <<>> \in Seq(Frame)
  BY ControlWeights
<1>16. /\ Held(e) + AckedOn(<<>>) <= Held(ep[s]) + TakenLoad(Arriving(s), TRUE)
       /\ Load(<<>>) + Buffered(e) + Account(s)
            <= Buffered(ep[s]) + Account(s)' + TakenAck(Arriving(s), TRUE)
  <2>1. Account(s) = ep[s].inFlight + early[s] + forgiven[s]
    BY DEF Account
  <2>2. /\ Held(ep[s]) + 0 <= Held(ep[s]) + 0
        /\ 0 + Buffered(ep[s]) + (ep[s].inFlight + early[s] + forgiven[s])
             <= Buffered(ep[s]) + (i + early[s] + forgiven[s]) + b
    BY <1>3, <1>6, <1>7, <1>12, <1>14
  <2> QED
    BY <1>5, <1>10, <1>13, <1>15, <2>1, <2>2
<1>17. FlowStep(s, e, <<>>, TRUE)
  BY <1>1, <1>2, <1>10, <1>15, <1>16 DEF FlowStep
<1> QED
  BY <1>17

-----------------------------------------------------------------------------
(* The writer.                                                               *)

\* The frame of a chunk.
LEMMA ChunkFrame ==
    ASSUME NEW n \in 1 .. MaxChunks
    PROVE  LET out == <<[t |-> "data", n |-> n]>>
           IN  /\ out \in Seq(Frame) /\ NoResume(out)
               /\ Load(out) = SizeOf[n] /\ AckedOn(out) = 0
<1> DEFINE f == [t |-> "data", n |-> n]
<1>1. f \in Frame /\ f.t = "data" /\ f.n = n
  BY DEF Frame
<1>2. LoadOf(f) = SizeOf[n]
  BY <1>1 DEF LoadOf
<1> HIDE DEF f
<1>3. AckOf(f) = 0
  BY <1>1, FrameFacts
<1>4. <<f>> \in Seq(Frame) /\ Len(<<f>>) = 1 /\ <<f>>[1] = f
  BY <1>1
<1>5. Load(<<f>>) = SizeOf[n] /\ AckedOn(<<f>>) = 0
  <2>1. <<>> \in Seq(Frame)
    OBVIOUS
  <2> QED
    BY <1>1, <1>2, <1>3, <2>1, LoadFacts, AckFacts
<1>6. NoResume(<<f>>)
  BY <1>1, <1>4 DEF NoResume
<1> QED
  BY <1>4, <1>5, <1>6 DEF f

\* The channel takes the chunk of e: it must be on the account already, or have
\* been on the writer's hand.
LEMMA AcceptFlow ==
    ASSUME FInv, NEW s \in Side, NEW e \in Endpoint, ep[s].sent + 1 \in 1 .. MaxChunks,
           e.items = ep[s].items, e.consumed = ep[s].consumed, e.sent = ep[s].sent,
           e.link = ep[s].link, e.status = ep[s].status, e.conn = ep[s].conn,
           early'[s] \in Int, Accept(s, e), early'[Other(s)] = early[Other(s)], UNCHANGED forgiven,
           SizeOf[ep[s].sent + 1] + Account(s)
             <= Buffered(ep[s]) + (e.inFlight + early'[s] + forgiven[s])
    PROVE  \E f, out : FlowStep(s, f, out, FALSE)
<1> DEFINE f == [e EXCEPT !.sent = @ + 1, !.writer = "run", !.bufGen = 0]
           out == <<[t |-> "data", n |-> e.sent + 1]>>
<1>0. IInv /\ LostOf(ep[s])
  BY DEF FInv, EInv, OInv
<1>1. Exchange(s, ep[s].link, f, out, FALSE)
  BY DEF Accept, Local
<1>2. /\ f.items = e.items /\ f.consumed = e.consumed /\ f.inFlight = e.inFlight
      /\ f.writer = "run" /\ f.link = e.link /\ f.status = e.status /\ f.conn = e.conn
  BY DEF Endpoint
<1>3. out \in Seq(Frame) /\ NoResume(out) /\ Load(out) = SizeOf[ep[s].sent + 1] /\ AckedOn(out) = 0
  BY ChunkFrame
<1> HIDE DEF f, out
<1>4. ep'[s] = f
  BY <1>0, <1>1 DEF Exchange, IInv, TypeOK
<1>5. Held(f) = Held(ep[s]) /\ Buffered(f) = 0 /\ LostOf(f)
  BY <1>0, <1>2 DEF Held, Buffered, LostOf
<1>6. Account(s)' = e.inFlight + early'[s] + forgiven[s]
  BY <1>2, <1>4 DEF Account
<1>7. TakenLoad(Arriving(s), FALSE) = 0 /\ TakenAck(Arriving(s), FALSE) = 0
  BY DEF TakenLoad, TakenAck
<1>8. Held(ep[s]) \in Nat /\ Buffered(ep[s]) \in Nat /\ Account(s) \in Int
  BY <1>0, AccountTypes
<1>9. Account(s)' \in Int /\ SizeOf[ep[s].sent + 1] \in Nat
  <2>1. Account(s)' \in Int
    <3>1. e.inFlight \in Int /\ forgiven[s] \in Int
      BY <1>0, AccountTypes DEF Endpoint
    <3> QED
      BY <1>6, <3>1
  <2> QED
    BY <2>1, SizeFacts
<1>10. ASSUME NEW h \in Nat, NEW z \in Nat, NEW a \in Int, NEW k \in Nat, NEW an \in Int,
              z + a <= k + an
       PROVE  h + 0 <= h + 0 /\ z + 0 + a <= k + an + 0
  BY <1>10
<1>11. /\ Held(f) + AckedOn(out) <= Held(ep[s]) + TakenLoad(Arriving(s), FALSE)
       /\ Load(out) + Buffered(f) + Account(s)
            <= Buffered(ep[s]) + Account(s)' + TakenAck(Arriving(s), FALSE)
  <2>1. SizeOf[ep[s].sent + 1] + Account(s) <= Buffered(ep[s]) + Account(s)'
    BY <1>6
  <2>2. /\ Held(ep[s]) + 0 <= Held(ep[s]) + 0
        /\ SizeOf[ep[s].sent + 1] + 0 + Account(s) <= Buffered(ep[s]) + Account(s)' + 0
    BY <1>8, <1>9, <1>10, <2>1
  <2> QED
    BY <1>3, <1>5, <1>7, <2>2
<1>12. FlowStep(s, f, out, FALSE)
  BY <1>1, <1>3, <1>5, <1>11 DEF FlowStep
<1> QED
  BY <1>12
\* The credit of an admitted chunk.
LEMMA TakenFacts ==
    ASSUME IInv, NEW s \in Side, Admitted(s)
    PROVE  LET t == Taken(s) e == ep[s] b == ChunkSize(s)
           IN  /\ t \in Endpoint
               /\ t.items = e.items /\ t.consumed = e.consumed /\ t.sent = e.sent
               /\ t.link = e.link /\ t.status = e.status /\ t.conn = e.conn
               /\ t.flowEnabled = e.flowEnabled /\ t.inFlight = e.inFlight + Credit(e, b)
               /\ e.sent + 1 \in 1 .. MaxChunks /\ b = SizeOf[e.sent + 1] /\ b \in Nat
               /\ Credit(e, b) \in Nat /\ Buffered(e) = 0
               /\ early' = [early EXCEPT ![s] = @ + Uncounted(e, b)] =>
                    early'[s] \in Int /\ early'[Other(s)] = early[Other(s)]
                      /\ early'[s] = early[s] + (b - Credit(e, b))
<1>1. HasWork(s) /\ ep[s].writer = "run"
  BY DEF Admitted, HasWork
<1>2. /\ ep[s].sent + 1 \in 1 .. MaxChunks /\ ChunkSize(s) = SizeOf[ep[s].sent + 1]
      /\ ChunkSize(s) \in Nat /\ Credit(ep[s], ChunkSize(s)) \in Nat /\ Buffered(ep[s]) = 0
  BY <1>1, ChunkSizeFacts DEF Buffered
<1>3. Taken(s) \in Endpoint
  BY TakenGood DEF Good
<1> DEFINE i == ep[s].inFlight + Credit(ep[s], ChunkSize(s))
<1>4. Taken(s) = [ep[s] EXCEPT !.inFlight = i] /\ ep[s] \in Endpoint
  BY ObjectFacts DEF Taken, Endpoint
<1> HIDE DEF i
<1>5. LET t == Taken(s) e == ep[s]
      IN  /\ t.items = e.items /\ t.consumed = e.consumed /\ t.sent = e.sent
          /\ t.link = e.link /\ t.status = e.status /\ t.conn = e.conn
          /\ t.flowEnabled = e.flowEnabled /\ t.inFlight = i
  BY <1>4 DEF Endpoint
<1>6. ASSUME early' = [early EXCEPT ![s] = @ + Uncounted(ep[s], ChunkSize(s))]
      PROVE  early'[s] \in Int /\ early'[Other(s)] = early[Other(s)]
               /\ early'[s] = early[s] + (ChunkSize(s) - Credit(ep[s], ChunkSize(s)))
  <2>1. early \in [Side -> Int] /\ Other(s) # s /\ Other(s) \in Side
    BY ConstantFacts DEF IInv, TypeOK
  <2>2. early'[s] = early[s] + Uncounted(ep[s], ChunkSize(s))
        /\ early'[Other(s)] = early[Other(s)]
    BY <1>6, <2>1
  <2>3. early[s] \in Int
    BY <2>1
  <2> QED
    BY <1>2, <2>2, <2>3 DEF Uncounted
<1> QED
  BY <1>2, <1>3, <1>5, <1>6 DEF i

\* sendFrame with room, or above the high-water mark; the buffer drains.
LEMMA SendFlow ==
    ASSUME FInv, NEW s \in Side, SendNow(s) \/ SendBuffers(s) \/ BufferDrains(s)
    PROVE  \E e, out : FlowStep(s, e, out, FALSE)
<1>0. /\ IInv /\ ep[s] \in Endpoint /\ Good(ep[s]) /\ LostOf(ep[s]) /\ Other(s) # s
      /\ Other(s) \in Side
  BY ObjectFacts, ConstantFacts DEF FInv, EInv, OInv
<1>1. ep[s].inFlight \in Int /\ early[s] \in Int /\ forgiven[s] \in Int /\ Held(ep[s]) \in Nat
  BY <1>0, AccountTypes
<1>2. ASSUME NEW z \in Nat, NEW c \in Int, NEW i \in Int, NEW a \in Int, NEW g \in Int
      PROVE  z + (i + a + g) <= 0 + ((i + c) + (a + (z - c)) + g)
  OBVIOUS
<1> DEFINE b == ChunkSize(s)
           c == Credit(ep[s], b)
<1>3. CASE SendNow(s)
  <2> DEFINE e == Taken(s)
  <2>1. Admitted(s) /\ Accept(s, e) /\ UNCHANGED forgiven
        /\ early' = [early EXCEPT ![s] = @ + Uncounted(ep[s], b)]
    BY <1>3 DEF SendNow
  <2>2. /\ e \in Endpoint /\ e.items = ep[s].items /\ e.consumed = ep[s].consumed
        /\ e.sent = ep[s].sent /\ e.link = ep[s].link /\ e.status = ep[s].status
        /\ e.conn = ep[s].conn /\ e.inFlight = ep[s].inFlight + c
        /\ ep[s].sent + 1 \in 1 .. MaxChunks /\ b = SizeOf[ep[s].sent + 1] /\ b \in Nat
        /\ c \in Nat /\ Buffered(ep[s]) = 0
        /\ early'[s] \in Int /\ early'[Other(s)] = early[Other(s)]
        /\ early'[s] = early[s] + (b - c)
    BY <1>0, <2>1, TakenFacts
  <2> HIDE DEF e, b, c
  <2>3. b + (ep[s].inFlight + early[s] + forgiven[s])
          <= 0 + ((ep[s].inFlight + c) + (early[s] + (b - c)) + forgiven[s])
    BY <1>1, <1>2, <2>2
  <2>4. SizeOf[ep[s].sent + 1] + Account(s)
          <= Buffered(ep[s]) + (e.inFlight + early'[s] + forgiven[s])
    BY <2>2, <2>3 DEF Account
  <2> QED
    BY <2>1, <2>2, <2>4, AcceptFlow
<1>4. CASE BufferDrains(s)
  <2>1. ep[s].writer = "buffering" /\ Accept(s, ep[s]) /\ UNCHANGED <<early, forgiven>>
    BY <1>4 DEF BufferDrains, account
  <2>2. ep[s].sent + 1 \in 1 .. MaxChunks
    BY <1>0, <2>1, ChunkAssumption DEF Good, Endpoint, WorkOf
  <2>3. SizeOf[ep[s].sent + 1] \in Nat /\ Buffered(ep[s]) = SizeOf[ep[s].sent + 1]
    BY <2>1, <2>2, SizeFacts DEF Buffered
  <2>4. ASSUME NEW z \in Nat, NEW a \in Int PROVE z + a <= z + a
    OBVIOUS
  <2>5. ep[s].inFlight + early[s] + forgiven[s] \in Int
    BY <1>1
  <2>6. SizeOf[ep[s].sent + 1] + Account(s)
          <= Buffered(ep[s]) + (ep[s].inFlight + early'[s] + forgiven[s])
    BY <2>1, <2>3, <2>4, <2>5 DEF Account
  <2> QED
    BY <1>0, <1>1, <2>1, <2>2, <2>6, AcceptFlow
<1>5. CASE SendBuffers(s)
  <2> DEFINE t == Taken(s)
             f == [t EXCEPT !.writer = "buffering", !.bufGen = ep[s].link]
  <2>1. /\ Admitted(s) /\ ep' = [ep EXCEPT ![s] = f] /\ UNCHANGED <<wire, dead, forgiven>>
        /\ early' = [early EXCEPT ![s] = @ + Uncounted(ep[s], b)]
    BY <1>5 DEF SendBuffers
  <2>2. /\ t \in Endpoint /\ t.items = ep[s].items /\ t.consumed = ep[s].consumed
        /\ t.sent = ep[s].sent /\ t.link = ep[s].link /\ t.status = ep[s].status
        /\ t.conn = ep[s].conn /\ t.inFlight = ep[s].inFlight + c
        /\ b = SizeOf[ep[s].sent + 1] /\ b \in Nat /\ c \in Nat /\ Buffered(ep[s]) = 0
        /\ early'[Other(s)] = early[Other(s)] /\ early'[s] = early[s] + (b - c)
    BY <1>0, <2>1, TakenFacts
  <2> HIDE DEF t, b, c
  <2>3. /\ f.items = t.items /\ f.consumed = t.consumed /\ f.sent = t.sent /\ f.link = t.link
        /\ f.status = t.status /\ f.conn = t.conn /\ f.inFlight = t.inFlight
        /\ f.writer = "buffering"
    BY <2>2 DEF Endpoint
  <2> HIDE DEF f
  <2>4. Exchange(s, ep[s].link, f, <<>>, FALSE)
    BY <1>0, <2>1, <2>2, <2>3, QuietExchange
  <2>5. ep'[s] = f
    BY <1>0, <2>1 DEF IInv, TypeOK
  <2>6. Held(f) = Held(ep[s]) /\ Buffered(f) = b /\ LostOf(f)
    BY <1>0, <2>2, <2>3 DEF Held, Buffered, LostOf
  <2>7. b + (ep[s].inFlight + early[s] + forgiven[s])
          <= 0 + ((ep[s].inFlight + c) + (early[s] + (b - c)) + forgiven[s])
    BY <1>1, <1>2, <2>2
  <2>8. b + Account(s) <= Buffered(ep[s]) + Account(s)'
    BY <2>1, <2>2, <2>3, <2>5, <2>7 DEF Account
  <2>9. Account(s) \in Int /\ Account(s)' \in Int
    <3>1. Account(s)' = (ep[s].inFlight + c) + (early[s] + (b - c)) + forgiven[s]
      BY <2>1, <2>2, <2>3, <2>5 DEF Account
    <3> QED
      BY <1>1, <2>2, <3>1 DEF Account
  <2>10. ASSUME NEW h \in Nat, NEW z \in Nat, NEW a \in Int, NEW an \in Int, z + a <= 0 + an
         PROVE  h + 0 <= h + 0 /\ 0 + z + a <= 0 + an + 0
    BY <2>10
  <2>11. /\ Held(ep[s]) + 0 <= Held(ep[s]) + 0
         /\ 0 + b + Account(s) <= 0 + Account(s)' + 0
    BY <1>1, <2>2, <2>8, <2>9, <2>10
  <2>12. /\ Load(<<>>) = 0 /\ AckedOn(<<>>) = 0 /\ NoResume(<<>>) /\ <<>> \in Seq(Frame)
         /\ TakenLoad(Arriving(s), FALSE) = 0 /\ TakenAck(Arriving(s), FALSE) = 0
    BY ControlWeights DEF TakenLoad, TakenAck
  <2>13. /\ Held(f) + AckedOn(<<>>) <= Held(ep[s]) + TakenLoad(Arriving(s), FALSE)
         /\ Load(<<>>) + Buffered(f) + Account(s)
              <= Buffered(ep[s]) + Account(s)' + TakenAck(Arriving(s), FALSE)
    BY <2>2, <2>6, <2>11, <2>12
  <2>14. FlowStep(s, f, <<>>, FALSE)
    BY <2>1, <2>2, <2>4, <2>6, <2>12, <2>13 DEF FlowStep
  <2> QED
    BY <2>14
<1> QED
  BY <1>3, <1>4, <1>5
\* What the catch block of send() gives back.
LEMMA ErrorFacts ==
    ASSUME NEW e \in Endpoint, LostOf(e), NEW b \in Nat
    PROVE  LET f == SendError(e, b)
           IN  /\ f.items = e.items /\ f.consumed = e.consumed
               /\ f.inFlight = e.inFlight - Credit(e, b) /\ f.writer # "buffering"
               /\ LostOf(f)
<1> DEFINE i == e.inFlight - Credit(e, b)
           x == [e EXCEPT !.inFlight = i]
           y == [x EXCEPT !.bufGen = 0]
           z == [y EXCEPT !.writer = "run"]
           back == [e EXCEPT !.inFlight = @ - Credit(e, b), !.bufGen = 0,
                             !.writer = "run"]
<1>1. e.inFlight \in Int /\ i \in Int
  <2>1. e.inFlight \in Int /\ Credit(e, b) \in Int
    BY DEF Endpoint, Credit
  <2> QED
    BY <2>1
<1>2. back = z
  BY DEF Endpoint
<1> HIDE DEF i
<1>3. /\ x \in Endpoint /\ x.items = e.items /\ x.consumed = e.consumed /\ x.inFlight = i
      /\ x.link = e.link /\ x.status = e.status /\ x.conn = e.conn
  BY <1>1 DEF Endpoint
<1> HIDE DEF x
<1>4. /\ y \in Endpoint /\ y.items = x.items /\ y.consumed = x.consumed /\ y.inFlight = x.inFlight
      /\ y.link = x.link /\ y.status = x.status /\ y.conn = x.conn
  BY <1>3, ConstantFacts DEF Endpoint
<1> HIDE DEF y
<1>5. /\ z \in Endpoint /\ z.items = y.items /\ z.consumed = y.consumed /\ z.inFlight = y.inFlight
      /\ z.link = y.link /\ z.status = y.status /\ z.conn = y.conn /\ z.writer = "run"
  BY <1>4 DEF Endpoint
<1> HIDE DEF z, back
<1>6. LostOf(z)
  BY <1>3, <1>4, <1>5 DEF LostOf
<1> DEFINE w == [z EXCEPT !.writer = "failed"]
<1>7. /\ w.items = z.items /\ w.consumed = z.consumed /\ w.inFlight = z.inFlight
      /\ w.writer = "failed" /\ LostOf(w)
  BY <1>5, <1>6 DEF Endpoint, LostOf
<1> DEFINE p == PeerDisconnected(z)
<1>8. p.items = z.items /\ p.consumed = z.consumed /\ p.inFlight = z.inFlight
      /\ p.writer # "buffering" /\ LostOf(p)
  <2>1. SameAccount(z, p) /\ LostOf(p)
    BY <1>5, <1>6, MethodAccounts
  <2> HIDE DEF p
  <2> QED
    BY <1>5, <2>1 DEF SameAccount
<1>9. SendError(e, b) \in {w, p}
  BY <1>2 DEF SendError, back
<1> HIDE DEF w, p
<1> QED
  BY <1>3, <1>4, <1>5, <1>7, <1>8, <1>9 DEF i

\* sendFrame rejects: the credit returns, and the bytes counted before flow:1.
LEMMA RejectFlow ==
    ASSUME FInv, NEW s \in Side, SendRejects(s)
    PROVE  \E e : FlowStep(s, e, <<>>, FALSE)
<1> DEFINE b == ChunkSize(s)
           c == Credit(ep[s], b)
           t == IF ep[s].writer = "buffering" THEN ep[s] ELSE Taken(s)
           e == SendError(t, b)
<1>0. /\ IInv /\ ep[s] \in Endpoint /\ Good(ep[s]) /\ LostOf(ep[s]) /\ Other(s) # s
      /\ Other(s) \in Side /\ early \in [Side -> Int]
  BY ObjectFacts, ConstantFacts DEF FInv, EInv, OInv, IInv, TypeOK
<1>1. /\ Exchange(s, ep[s].link, e, <<>>, FALSE) /\ UNCHANGED forgiven
      /\ early' = IF ep[s].writer = "buffering"
                  THEN [early EXCEPT ![s] = @ - Uncounted(ep[s], b)] ELSE early
      /\ ep[s].writer = "buffering" \/ Admitted(s)
  BY DEF SendRejects, Local
<1>2. /\ ep[s].inFlight \in Int /\ early[s] \in Int /\ forgiven[s] \in Int
      /\ Held(ep[s]) \in Nat /\ Buffered(ep[s]) \in Nat
  BY <1>0, AccountTypes
<1>3. /\ b \in Nat /\ c \in Int /\ t \in Endpoint /\ LostOf(t)
      /\ t.items = ep[s].items /\ t.consumed = ep[s].consumed
      /\ Credit(t, b) = c
      /\ early'[Other(s)] = early[Other(s)]
      /\ \/ /\ Buffered(ep[s]) = b /\ t.inFlight = ep[s].inFlight
            /\ early'[s] = early[s] - (b - c)
         \/ /\ Buffered(ep[s]) = 0 /\ t.inFlight = ep[s].inFlight + c
            /\ early'[s] = early[s]
  <2>1. CASE ep[s].writer = "buffering"
    <3>1. ep[s].sent + 1 \in 1 .. MaxChunks
      BY <1>0, <2>1, NextChunk
    <3>2. b \in Nat /\ Buffered(ep[s]) = b /\ c \in Int
      BY <2>1, <3>1, SizeFacts DEF Buffered, ChunkSize, Credit
    <3>3. early'[s] = early[s] - (b - c) /\ early'[Other(s)] = early[Other(s)]
      BY <1>0, <1>1, <2>1 DEF Uncounted
    <3> QED
      BY <1>0, <2>1, <3>2, <3>3
  <2>2. CASE ep[s].writer # "buffering"
    <3>1. Admitted(s) /\ t = Taken(s) /\ early' = early
      BY <1>1, <2>2
    <3> DEFINE k == Taken(s)
    <3>2. /\ k \in Endpoint /\ k.items = ep[s].items /\ k.consumed = ep[s].consumed
          /\ k.link = ep[s].link /\ k.status = ep[s].status /\ k.conn = ep[s].conn
          /\ k.flowEnabled = ep[s].flowEnabled /\ k.inFlight = ep[s].inFlight + c
          /\ b \in Nat /\ c \in Nat /\ Buffered(ep[s]) = 0
      BY <1>0, <3>1, TakenFacts
    <3> HIDE DEF k
    <3>3. t = k
      BY <3>1 DEF k
    <3> HIDE DEF t
    <3>4. Credit(t, b) = c
      BY <3>2, <3>3 DEF Credit
    <3>5. LostOf(t)
      BY <1>0, <3>2, <3>3 DEF LostOf
    <3> HIDE DEF b, c
    <3> QED
      BY <3>1, <3>2, <3>3, <3>4, <3>5
  <2> QED
    BY <2>1, <2>2
<1> HIDE DEF b, c, t
<1>4. /\ e.items = t.items /\ e.consumed = t.consumed /\ e.inFlight = t.inFlight - Credit(t, b)
      /\ e.writer # "buffering" /\ LostOf(e)
  BY <1>3, ErrorFacts
<1> HIDE DEF e
<1>5. ep'[s] = e
  BY <1>0, <1>1 DEF Exchange, IInv, TypeOK
<1>6. Held(e) = Held(ep[s]) /\ Buffered(e) = 0
  BY <1>3, <1>4 DEF Held, Buffered
<1>7. ASSUME NEW z \in Nat, NEW k \in Int, NEW i \in Int, NEW a \in Int, NEW g \in Int
      PROVE  /\ 0 + 0 + (i + a + g) <= z + ((i - k) + (a - (z - k)) + g) + 0
             /\ 0 + 0 + (i + a + g) <= 0 + (((i + k) - k) + a + g) + 0
  OBVIOUS
<1>8. 0 + 0 + (ep[s].inFlight + early[s] + forgiven[s])
        <= Buffered(ep[s]) + (e.inFlight + early'[s] + forgiven[s]) + 0
  <2>1. CASE Buffered(ep[s]) = b /\ t.inFlight = ep[s].inFlight /\ early'[s] = early[s] - (b - c)
    <3>1. e.inFlight = ep[s].inFlight - c
      BY <1>3, <1>4, <2>1
    <3>2. 0 + 0 + (ep[s].inFlight + early[s] + forgiven[s])
            <= b + ((ep[s].inFlight - c) + (early[s] - (b - c)) + forgiven[s]) + 0
      BY <1>2, <1>3, <1>7
    <3> QED
      BY <2>1, <3>1, <3>2
  <2>2. CASE Buffered(ep[s]) = 0 /\ t.inFlight = ep[s].inFlight + c /\ early'[s] = early[s]
    <3>1. e.inFlight = (ep[s].inFlight + c) - c
      BY <1>3, <1>4, <2>2
    <3>2. 0 + 0 + (ep[s].inFlight + early[s] + forgiven[s])
            <= 0 + (((ep[s].inFlight + c) - c) + early[s] + forgiven[s]) + 0
      BY <1>2, <1>3, <1>7
    <3> QED
      BY <2>2, <3>1, <3>2
  <2> QED
    BY <1>3, <2>1, <2>2
<1>9. 0 + 0 + Account(s) <= Buffered(ep[s]) + Account(s)' + 0
  BY <1>1, <1>5, <1>8 DEF Account
<1>10. ASSUME NEW h \in Nat PROVE h + 0 <= h + 0
  OBVIOUS
<1>11. Held(ep[s]) + 0 <= Held(ep[s]) + 0
  BY <1>2, <1>10
<1>12. /\ Load(<<>>) = 0 /\ AckedOn(<<>>) = 0 /\ NoResume(<<>>) /\ <<>> \in Seq(Frame)
       /\ TakenLoad(Arriving(s), FALSE) = 0 /\ TakenAck(Arriving(s), FALSE) = 0
  BY ControlWeights DEF TakenLoad, TakenAck
<1>13. /\ Held(e) + AckedOn(<<>>) <= Held(ep[s]) + TakenLoad(Arriving(s), FALSE)
       /\ Load(<<>>) + Buffered(e) + Account(s)
            <= Buffered(ep[s]) + Account(s)' + TakenAck(Arriving(s), FALSE)
  BY <1>6, <1>9, <1>11, <1>12
<1>14. FlowStep(s, e, <<>>, FALSE)
  BY <1>1, <1>3, <1>4, <1>12, <1>13 DEF FlowStep
<1> QED
  BY <1>14

-----------------------------------------------------------------------------
(* The reader.                                                               *)

\* A chunk that arrives is held by the object, or thrown away.
LEMMA ReceiveFlowData ==
    ASSUME FInv, NEW s \in Side, ReceiveData(s)
    PROVE  \E e : FlowStep(s, e, <<>>, TRUE)
<1> DEFINE f == Head(Arriving(s))
           item == [n |-> f.n, g |-> ep[s].link]
<1>0. /\ IInv /\ ep[s] \in Endpoint /\ Good(ep[s]) /\ LostOf(ep[s]) /\ Other(s) # s
      /\ ep[s].items \in Seq(Item) /\ ep[s].link \in Gen /\ Waits
  BY ObjectFacts, ConstantFacts DEF FInv, EInv, OInv, Endpoint
<1>1. Arrives(s, "data") /\ UNCHANGED <<early, forgiven>>
  BY DEF ReceiveData, account
<1>2. f \in Frame /\ f.t = "data" /\ Arriving(s) # <<>>
  BY <1>0, <1>1, ArrivingFacts DEF Arriving
<1>3. f.n \in 1 .. MaxChunks /\ item \in Item /\ SizeOf[f.n] \in Nat
  BY <1>0, <1>2, SizeFacts DEF Frame, Item
<1>4. TakenLoad(Arriving(s), TRUE) = SizeOf[f.n] /\ TakenAck(Arriving(s), TRUE) = 0
  <2>1. AckOf(f) = 0
    BY <1>2, FrameFacts
  <2> QED
    BY <1>2, <2>1 DEF TakenLoad, TakenAck, LoadOf
<1> DEFINE z == SizeOf[f.n]
<1>5. /\ Held(ep[s]) \in Nat /\ Buffered(ep[s]) \in Nat /\ Account(s) \in Int
  BY <1>0, AccountTypes
<1>6. ASSUME NEW e, Handle(s, e, <<>>), Held(e) \in Nat, Held(e) <= Held(ep[s]) + z,
             e.writer = ep[s].writer, e.sent = ep[s].sent, e.inFlight = ep[s].inFlight,
             e.status = ep[s].status, e.link = ep[s].link, e.conn = ep[s].conn
      PROVE  FlowStep(s, e, <<>>, TRUE)
  <2>1. Exchange(s, ep[s].link, e, <<>>, TRUE)
    BY <1>6 DEF Handle
  <2>2. ep'[s] = e
    BY <1>0, <2>1 DEF Exchange, IInv, TypeOK
  <2>3. Account(s)' = Account(s) /\ Buffered(e) = Buffered(ep[s]) /\ LostOf(e)
    BY <1>0, <1>1, <1>6, <2>2 DEF Account, Buffered, LostOf
  <2>4. /\ Load(<<>>) = 0 /\ AckedOn(<<>>) = 0 /\ NoResume(<<>>) /\ <<>> \in Seq(Frame)
    BY ControlWeights
  <2>5. ASSUME NEW h \in Nat, NEW n \in Nat, NEW l \in Nat, NEW k \in Nat, NEW a \in Int,
               n <= h + l
        PROVE  n + 0 <= h + l /\ 0 + k + a <= k + a + 0
    BY <2>5
  <2> HIDE DEF z
  <2>6. z \in Nat
    BY <1>3 DEF z
  <2>7. /\ Held(e) + 0 <= Held(ep[s]) + z
        /\ 0 + Buffered(ep[s]) + Account(s) <= Buffered(ep[s]) + Account(s) + 0
    BY <1>5, <1>6, <2>5, <2>6
  <2>8. /\ Held(e) + AckedOn(<<>>) <= Held(ep[s]) + TakenLoad(Arriving(s), TRUE)
        /\ Load(<<>>) + Buffered(e) + Account(s)
             <= Buffered(ep[s]) + Account(s)' + TakenAck(Arriving(s), TRUE)
    BY <1>4, <2>3, <2>4, <2>7 DEF z
  <2> QED
    BY <1>1, <1>2, <2>1, <2>3, <2>4, <2>8 DEF FlowStep
<1>7. /\ Bytes(ep[s].items) \in Nat /\ ep[s].consumed \in Nat /\ z \in Nat
      /\ Held(ep[s]) = Bytes(ep[s].items) + ep[s].consumed
  BY <1>0, <1>3, BytesFacts DEF Held, Endpoint
<1>8. ASSUME NEW q \in Nat, NEW c \in Nat, NEW l \in Nat
      PROVE  /\ q + c <= (q + c) + l /\ q + l <= (q + c) + l /\ (q + l) + c <= (q + c) + l
             /\ q + l \in Nat /\ (q + l) + c \in Nat
  OBVIOUS
<1>9. CASE ep[s].readClosed
  <2>1. Handle(s, ep[s], <<>>)
    BY <1>9 DEF ReceiveData
  <2>2. Held(ep[s]) <= Held(ep[s]) + z
    <3>1. Bytes(ep[s].items) + ep[s].consumed <= (Bytes(ep[s].items) + ep[s].consumed) + z
      BY ONLY <1>7, <1>8
    <3> QED
      BY ONLY <1>7, <3>1
  <2> QED
    BY <1>5, <1>6, <2>1, <2>2
<1>10. CASE ~ep[s].readClosed /\ ep[s].reader = "waiting"
  <2> DEFINE e == [ep[s] EXCEPT !.reader = "busy", !.consumed = SizeOf[item.n]]
  <2>1. Handle(s, e, <<>>)
    BY <1>10 DEF ReceiveData
  <2>2. /\ e.writer = ep[s].writer /\ e.sent = ep[s].sent /\ e.inFlight = ep[s].inFlight
        /\ e.status = ep[s].status /\ e.link = ep[s].link /\ e.conn = ep[s].conn
        /\ e.items = ep[s].items /\ e.consumed = z
    BY <1>0 DEF Endpoint
  <2> HIDE DEF e, z
  <2>3. Held(e) = Bytes(ep[s].items) + z
    BY <2>2 DEF Held
  <2>4. Held(e) \in Nat /\ Held(e) <= Held(ep[s]) + z
    BY <1>7, <1>8, <2>3
  <2> QED
    BY <1>6, <2>1, <2>2, <2>4
<1>11. CASE ~ep[s].readClosed /\ ep[s].reader # "waiting"
  <2> DEFINE e == [ep[s] EXCEPT !.items = Enqueue(@, item)]
  <2>1. Handle(s, e, <<>>)
    BY <1>11 DEF ReceiveData
  <2>2. /\ e.writer = ep[s].writer /\ e.sent = ep[s].sent /\ e.inFlight = ep[s].inFlight
        /\ e.status = ep[s].status /\ e.link = ep[s].link /\ e.conn = ep[s].conn
        /\ e.items = Append(ep[s].items, item) /\ e.consumed = ep[s].consumed
    BY <1>0 DEF Endpoint, Enqueue
  <2>3. Bytes(Append(ep[s].items, item)) = Bytes(ep[s].items) + z
    <3>1. item.n = f.n
      OBVIOUS
    <3> HIDE DEF item
    <3> QED
      BY <1>0, <1>3, <3>1, BytesFacts
  <2> HIDE DEF e, z, item
  <2>4. Held(e) = (Bytes(ep[s].items) + z) + ep[s].consumed
    BY <2>2, <2>3 DEF Held
  <2>5. Held(e) \in Nat /\ Held(e) <= Held(ep[s]) + z
    BY <1>7, <1>8, <2>4
  <2> QED
    BY <1>6, <2>1, <2>2, <2>5
<1> QED
  BY <1>9, <1>10, <1>11

\* next(): what the consumer has finished with is acknowledged, and the next
\* chunk is in its hands.
LEMMA NextCallFlow ==
    ASSUME FInv, NEW s \in Side, NextCall(s)
    PROVE  \E e, out : FlowStep(s, e, out, FALSE)
<1> DEFINE acks == Acks(ep[s])
           c == ep[s].consumed
           q == ep[s].items
<1>0. /\ IInv /\ ep[s] \in Endpoint /\ LostOf(ep[s]) /\ Other(s) # s
      /\ q \in Seq(Item) /\ c \in Nat
  BY ObjectFacts, ConstantFacts DEF FInv, EInv, OInv, Endpoint
<1>1. acks \in Seq(Frame) /\ NoResume(acks) /\ Load(acks) = 0 /\ AckedOn(acks) = c
  <2>1. CASE c > 0
    <3> DEFINE f == [t |-> "ack", bytes |-> c]
    <3>1. f \in Frame /\ f.t = "ack" /\ f.bytes = c
      BY <1>0, <2>1 DEF Frame
    <3>2. acks = <<f>>
      BY <2>1 DEF Acks
    <3>3. AckOf(f) = c
      BY <3>1 DEF AckOf
    <3> HIDE DEF f, acks
    <3>4. LoadOf(f) = 0
      BY <3>1, FrameFacts
    <3>5. <<f>> \in Seq(Frame) /\ Len(<<f>>) = 1 /\ <<f>>[1] = f /\ <<>> \in Seq(Frame)
      BY <3>1
    <3>6. Load(<<f>>) = 0 /\ AckedOn(<<f>>) = c
      BY <3>1, <3>3, <3>4, <3>5, LoadFacts, AckFacts
    <3>7. NoResume(<<f>>)
      BY <3>1, <3>5 DEF NoResume
    <3> QED
      BY <3>2, <3>5, <3>6, <3>7
  <2>2. CASE ~(c > 0)
    <3>1. acks = <<>> /\ c = 0
      BY <1>0, <2>2 DEF Acks
    <3> HIDE DEF acks, c
    <3> QED
      BY <3>1, ControlWeights
  <2> QED
    BY <2>1, <2>2
<1> HIDE DEF acks
<1>2. /\ Held(ep[s]) \in Nat /\ Buffered(ep[s]) \in Nat /\ Account(s) \in Int
      /\ Held(ep[s]) = Bytes(q) + c /\ Bytes(q) \in Nat
  <2>1. Bytes(q) \in Nat
    BY <1>0, BytesFacts
  <2> QED
    BY <1>0, <2>1, AccountTypes DEF Held
<1>3. UNCHANGED <<early, forgiven>>
  BY DEF NextCall, account
<1>4. ASSUME NEW e, Exchange(s, ep[s].link, e, acks, FALSE), Held(e) = Bytes(q),
             e.writer = ep[s].writer, e.sent = ep[s].sent, e.inFlight = ep[s].inFlight,
             e.status = ep[s].status, e.link = ep[s].link, e.conn = ep[s].conn
      PROVE  FlowStep(s, e, acks, FALSE)
  <2>1. ep'[s] = e
    BY <1>0, <1>4 DEF Exchange, IInv, TypeOK
  <2>2. Account(s)' = Account(s) /\ Buffered(e) = Buffered(ep[s]) /\ LostOf(e)
    BY <1>0, <1>3, <1>4, <2>1 DEF Account, Buffered, LostOf
  <2>3. TakenLoad(Arriving(s), FALSE) = 0 /\ TakenAck(Arriving(s), FALSE) = 0
    BY DEF TakenLoad, TakenAck
  <2>4. ASSUME NEW m \in Nat, NEW d \in Nat, NEW k \in Nat, NEW a \in Int
        PROVE  m + d <= (m + d) + 0 /\ 0 + k + a <= k + a + 0
    OBVIOUS
  <2> HIDE DEF q, c
  <2>5. /\ Bytes(q) + c <= (Bytes(q) + c) + 0
        /\ 0 + Buffered(ep[s]) + Account(s) <= Buffered(ep[s]) + Account(s) + 0
    BY <1>0, <1>2, <2>4
  <2>6. /\ Held(e) + AckedOn(acks) <= Held(ep[s]) + TakenLoad(Arriving(s), FALSE)
        /\ Load(acks) + Buffered(e) + Account(s)
             <= Buffered(ep[s]) + Account(s)' + TakenAck(Arriving(s), FALSE)
    BY <1>1, <1>2, <1>4, <2>2, <2>3, <2>5
  <2> QED
    BY <1>1, <1>3, <1>4, <2>2, <2>6 DEF FlowStep
<1>5. CASE q # <<>>
  <2> DEFINE e == [ep[s] EXCEPT !.items = Tail(@), !.consumed = SizeOf[Head(ep[s].items).n]]
  <2>1. Exchange(s, ep[s].link, e, acks, FALSE)
    BY <1>5 DEF NextCall, Local, acks
  <2>2. /\ e.writer = ep[s].writer /\ e.sent = ep[s].sent /\ e.inFlight = ep[s].inFlight
        /\ e.status = ep[s].status /\ e.link = ep[s].link /\ e.conn = ep[s].conn
        /\ e.items = Tail(q) /\ e.consumed = SizeOf[Head(q).n]
    BY <1>0 DEF Endpoint
  <2> HIDE DEF e, q
  <2>3. /\ Bytes(q) = SizeOf[Head(q).n] + Bytes(Tail(q))
        /\ SizeOf[Head(q).n] \in Nat /\ Bytes(Tail(q)) \in Nat
    <3>1. Head(q) \in Item /\ Tail(q) \in Seq(Item)
      BY <1>0, <1>5
    <3> QED
      BY <1>0, <1>5, <3>1, BytesFacts
  <2>4. ASSUME NEW x \in Nat, NEW y \in Nat PROVE x + y = y + x
    OBVIOUS
  <2>5. Held(e) = Bytes(q)
    BY <2>2, <2>3, <2>4 DEF Held
  <2> QED
    BY <1>4, <2>1, <2>2, <2>5
<1>6. CASE q = <<>>
  <2> DEFINE e == [ep[s] EXCEPT !.consumed = 0,
                                !.reader = IF ep[s].readClosed THEN "done" ELSE "waiting"]
  <2>1. Exchange(s, ep[s].link, e, acks, FALSE)
    BY <1>6 DEF NextCall, Local, acks
  <2>2. /\ e.writer = ep[s].writer /\ e.sent = ep[s].sent /\ e.inFlight = ep[s].inFlight
        /\ e.status = ep[s].status /\ e.link = ep[s].link /\ e.conn = ep[s].conn
        /\ e.items = q /\ e.consumed = 0
    BY <1>0 DEF Endpoint
  <2> HIDE DEF e, q
  <2>3. ASSUME NEW x \in Nat PROVE x + 0 = x
    OBVIOUS
  <2>4. Held(e) = Bytes(q)
    BY <1>2, <2>2, <2>3 DEF Held
  <2> QED
    BY <1>4, <2>1, <2>2, <2>4
<1> QED
  BY <1>5, <1>6
-----------------------------------------------------------------------------
(* A new channel, and a channel that is refused.                             *)

\* Frames may vanish: what is left of the account covers what is left of them.
LEMMA ShrinkCovered ==
    ASSUME FInv, IInv', NEW t \in Side,
           \A r \in Side, h \in Gen : /\ Load(wire'[r][h]) <= Load(wire[r][h])
                                      /\ AckedOn(wire'[r][h]) <= AckedOn(wire[r][h]),
           Held(ep[Other(t)])' = Held(ep[Other(t)]), Buffered(ep[t])' = Buffered(ep[t]),
           Account(t)' = Account(t)
    PROVE  Covered(t)'
<1>0. IInv /\ Other(t) \in Side /\ 0 \in Gen
  BY ConstantFacts DEF FInv, EInv, OInv
<1>1. ASSUME NEW h \in Gen PROVE Chain(t, h)' <= Chain(t, h) + 0
  <2>1. /\ Load(wire[t][h]) \in Nat /\ AckedOn(wire[Other(t)][h]) \in Nat
    <3>1. wire[t][h] \in Seq(Frame) /\ wire[Other(t)][h] \in Seq(Frame)
      BY <1>0 DEF IInv, TypeOK
    <3> QED
      BY <3>1, LoadFacts, AckFacts
  <2>2. /\ Load(wire'[t][h]) \in Nat /\ AckedOn(wire'[Other(t)][h]) \in Nat
    <3>1. wire'[t][h] \in Seq(Frame) /\ wire'[Other(t)][h] \in Seq(Frame)
      BY <1>0 DEF IInv, TypeOK
    <3> QED
      BY <3>1, LoadFacts, AckFacts
  <2>3. Load(wire'[t][h]) <= Load(wire[t][h])
        /\ AckedOn(wire'[Other(t)][h]) <= AckedOn(wire[Other(t)][h])
    BY <1>0
  <2>4. ASSUME NEW a \in Nat, NEW b \in Nat, NEW an \in Nat, NEW bn \in Nat, an <= a, bn <= b
        PROVE  an + bn <= a + b + 0
    BY <2>4
  <2>5. Load(wire'[t][h]) + AckedOn(wire'[Other(t)][h])
          <= Load(wire[t][h]) + AckedOn(wire[Other(t)][h]) + 0
    BY <2>1, <2>2, <2>3, <2>4
  <2> QED
    BY <2>5 DEF Chain
<1>2. \A h \in Gen : Chain(t, h)' <= Chain(t, h)
  <2>1. \A h \in Gen : Chain(t, h) \in Nat
    BY <1>0, AccountTypes
  <2>2. ASSUME NEW x \in Nat PROVE x + 0 = x
    OBVIOUS
  <2> QED
    BY <1>1, <2>1, <2>2
<1>3. Chains(t)' <= Chains(t) + 0
  BY <1>0, <1>1, <1>2, 0 \in Int, ChainsGrow
<1>4. /\ Held(ep[Other(t)]) \in Nat /\ Buffered(ep[t]) \in Nat /\ Account(t) \in Int
      /\ Chains(t) \in Nat /\ Chains(t)' \in Nat
  <2>1. Chains(t)' \in Nat
    BY AccountTypesNext DEF AccountsTyped
  <2> QED
    BY <1>0, <2>1, AccountTypes
<1>5. Chains(t) + Held(ep[Other(t)]) + Buffered(ep[t]) <= Account(t)
  BY DEF FInv, Covered, Outstanding
<1>6. ASSUME NEW c \in Nat, NEW cn \in Nat, NEW h \in Nat, NEW b \in Nat, NEW a \in Int,
             cn <= c + 0, c + h + b <= a
      PROVE  cn + h + b <= a
  BY <1>6
<1>7. Chains(t)' + Held(ep[Other(t)]) + Buffered(ep[t]) <= Account(t)
  BY <1>3, <1>4, <1>5, <1>6
<1> QED
  BY <1>7 DEF Covered, Outstanding

\* peerReconnected forgives what was counted.
LEMMA ReboundAccounts ==
    ASSUME NEW s \in Side, NEW g \in Gen, ep[s] \in Endpoint, ep[s].conn = "reconnecting"
    PROVE  LET f == Rebound(s, g)
           IN  /\ f.items = ep[s].items /\ f.consumed = ep[s].consumed /\ f.sent = ep[s].sent
               /\ f.inFlight = 0 /\ f.link = g
               /\ f.writer = "buffering" <=> ep[s].writer = "buffering"
<1> DEFINE e == ep[s]
           x == [e EXCEPT !.link = g]
           y == [x EXCEPT !.conn = "connected"]
           z == [y EXCEPT !.inFlight = 0]
           w == [z EXCEPT !.writer = "run"]
<1>1. /\ x \in Endpoint /\ x.items = e.items /\ x.consumed = e.consumed /\ x.sent = e.sent
      /\ x.link = g /\ x.writer = e.writer /\ x.conn = "reconnecting"
  BY DEF Endpoint
<1>2. Rebound(s, g) = WakeWriter(z, "run")
  <2> HIDE DEF x
  <2>1. z = [x EXCEPT !.conn = "connected", !.inFlight = 0]
    BY <1>1 DEF Endpoint
  <2> HIDE DEF z
  <2>2. Rebound(s, g) = PeerReconnected(x)
    BY DEF Rebound, x
  <2> QED
    BY <1>1, <2>1, <2>2 DEF PeerReconnected
<1> HIDE DEF x
<1>3. /\ y \in Endpoint /\ y.items = x.items /\ y.consumed = x.consumed /\ y.sent = x.sent
      /\ y.link = x.link /\ y.writer = x.writer
  BY <1>1 DEF Endpoint
<1> HIDE DEF y
<1>4. /\ z \in Endpoint /\ z.items = y.items /\ z.consumed = y.consumed /\ z.sent = y.sent
      /\ z.link = y.link /\ z.writer = y.writer /\ z.inFlight = 0
  <2>1. \A i \in Int : [y EXCEPT !.inFlight = i] \in Endpoint
    BY <1>3 DEF Endpoint
  <2>2. z \in Endpoint
    BY <2>1
  <2>3. /\ z.items = y.items /\ z.consumed = y.consumed /\ z.sent = y.sent
        /\ z.link = y.link /\ z.writer = y.writer /\ z.inFlight = 0
    BY <1>3 DEF Endpoint
  <2> QED
    BY <2>2, <2>3
<1> HIDE DEF z
<1>5. /\ w.items = z.items /\ w.consumed = z.consumed /\ w.sent = z.sent
      /\ w.link = z.link /\ w.writer = "run" /\ w.inFlight = z.inFlight
  BY <1>4 DEF Endpoint
<1>6. WakeWriter(z, "run") = IF z.writer \in {"waitFlow", "waitPeer"} THEN w ELSE z
  BY DEF WakeWriter
<1> HIDE DEF w
<1> QED
  BY <1>1, <1>2, <1>3, <1>4, <1>5, <1>6

\* Rebinding preserves the invariant.
LEMMA RebindFInv ==
    ASSUME FInv, EInv', NEW s \in Side, NEW g \in Gen, RebindStep(s, g),
           ep[s].status = "open", ep'[s] = Rebound(s, g), UNCHANGED early,
           forgiven' = [forgiven EXCEPT ![s] = @ + ep[s].inFlight],
           \A r \in Side, h \in Gen : /\ Load(wire'[r][h]) <= Load(wire[r][h])
                                      /\ AckedOn(wire'[r][h]) <= AckedOn(wire[r][h])
    PROVE  FInv'
<1>1. PICK o \in Side : o = Other(s) /\ s = Other(o) /\ o # s /\ \A t \in Side : t = s \/ t = o
  BY DEF Side, Other
<1>2. /\ IInv /\ IInv' /\ ep[s] \in Endpoint /\ LostOf(ep[s]) /\ LostOf(ep[o])
      /\ forgiven \in [Side -> Int]
  BY ObjectFacts DEF FInv, EInv, OInv, IInv, TypeOK
<1>3. ep[s].link = 0 /\ ep'[s].link = g /\ g \notin Had(s) /\ ep'[o] = ep[o] /\ dead' = dead
  BY <1>1 DEF RebindStep
<1>4. ep[s].conn = "reconnecting"
  BY <1>2, <1>3 DEF LostOf
<1> DEFINE f == Rebound(s, g)
<1>5. /\ f.items = ep[s].items /\ f.consumed = ep[s].consumed /\ f.sent = ep[s].sent
      /\ f.inFlight = 0 /\ (f.writer = "buffering" <=> ep[s].writer = "buffering")
  BY <1>2, <1>4, ReboundAccounts
<1>6. ep'[s] = f
  OBVIOUS
<1> HIDE DEF f
<1>7. \A t \in Side : Held(ep[t])' = Held(ep[t]) /\ Buffered(ep[t])' = Buffered(ep[t])
  BY <1>1, <1>3, <1>5, <1>6 DEF Held, Buffered
<1>8. Account(s)' = Account(s)
  <2>1. ep[s].inFlight \in Int /\ early[s] \in Int /\ forgiven[s] \in Int
    BY <1>2, AccountTypes
  <2>2. forgiven'[s] = forgiven[s] + ep[s].inFlight
    BY <1>2
  <2>3. ASSUME NEW i \in Int, NEW a \in Int, NEW r \in Int
        PROVE  0 + a + (r + i) = i + a + r
    OBVIOUS
  <2>4. 0 + early[s] + (forgiven[s] + ep[s].inFlight) = ep[s].inFlight + early[s] + forgiven[s]
    BY <2>1, <2>3
  <2> QED
    BY <1>5, <1>6, <2>2, <2>4 DEF Account
<1>9. Account(o)' = Account(o)
  BY <1>1, <1>2, <1>3 DEF Account
<1>10. \A t \in Side : Covered(t)'
  <2>1. \A t \in Side : Account(t)' = Account(t) /\ Other(t) \in Side
    BY <1>1, <1>8, <1>9
  <2> QED
    BY <1>2, <1>7, <2>1, ShrinkCovered
<1>11. g # 0
  BY <1>3, ChannelFacts DEF FInv, EInv, OInv, Had
<1>12. \A t \in Side : LostOf(ep[t])'
  BY <1>1, <1>2, <1>3, <1>11 DEF LostOf
<1>13. Unbroken'
  <2>1. 1 \in Had(s)
    BY DEF FInv, EInv
  <2>2. dead'[s] # {0}
    BY <1>3, <2>1 DEF Had
  <2> QED
    BY <2>2 DEF Unbroken
<1> QED
  BY <1>10, <1>12, <1>13 DEF FInv

\* The frames a rebinding side sends weigh nothing.
LEMMA GreetingWeights ==
    ASSUME NEW e, NEW q \in Seq(Frame)
    PROVE  /\ Greeting(e) \in Seq(Frame)
           /\ Load(q \o Greeting(e)) = Load(q) /\ AckedOn(q \o Greeting(e)) = AckedOn(q)
<1>1. ASSUME NEW p \in Seq(Frame), NEW r \in Seq(Frame), Load(r) = 0, AckedOn(r) = 0
      PROVE  Load(p \o r) = Load(p) /\ AckedOn(p \o r) = AckedOn(p)
  <2>1. /\ Load(p) \in Nat /\ AckedOn(p) \in Nat
        /\ Load(p \o r) = Load(p) + 0 /\ AckedOn(p \o r) = AckedOn(p) + 0
    BY <1>1, LoadFacts, AckFacts
  <2> QED
    BY <2>1
<1> DEFINE a == <<Ctl("resume")>>
           b == <<Ctl("flow")>>
<1>2. /\ a \in Seq(Frame) /\ Load(a) = 0 /\ AckedOn(a) = 0
      /\ b \in Seq(Frame) /\ Load(b) = 0 /\ AckedOn(b) = 0
      /\ <<>> \in Seq(Frame) /\ Load(<<>>) = 0 /\ AckedOn(<<>>) = 0
  BY ControlWeights
<1>3. a \o b = <<Ctl("resume"), Ctl("flow")>>
  <2>1. ASSUME NEW x \in Frame, NEW y \in Frame PROVE <<x>> \o <<y>> = <<x, y>>
    <3>1. <<x>> \o <<y>> \in Seq(Frame) /\ <<x, y>> \in Seq(Frame)
      OBVIOUS
    <3>2. Len(<<x>> \o <<y>>) = 2 /\ Len(<<x, y>>) = 2
      OBVIOUS
    <3>3. (<<x>> \o <<y>>)[1] = <<x, y>>[1]
      OBVIOUS
    <3>4. (<<x>> \o <<y>>)[2] = <<x, y>>[2]
      OBVIOUS
    <3>5. ASSUME NEW p \in Seq(Frame), NEW r \in Seq(Frame), Len(p) = 2, Len(r) = 2,
                 p[1] = r[1], p[2] = r[2]
          PROVE  p = r
      <4>1. \A i \in 1 .. 2 : i = 1 \/ i = 2
        OBVIOUS
      <4>2. \A i \in 1 .. Len(p) : p[i] = r[i]
        BY <3>5, <4>1
      <4> QED
        BY <3>5, <4>2
    <3> QED
      BY <3>1, <3>2, <3>3, <3>4, <3>5
  <2> QED
    BY <2>1, CtlFrames
<1> HIDE DEF a, b
<1>4. Load(a \o b) = 0 /\ AckedOn(a \o b) = 0 /\ a \o b \in Seq(Frame)
  BY <1>1, <1>2
<1>5. Greeting(e) \in {a \o b, <<>>}
  BY <1>3 DEF Greeting
<1>6. Greeting(e) \in Seq(Frame) /\ Load(Greeting(e)) = 0 /\ AckedOn(Greeting(e)) = 0
  BY <1>2, <1>4, <1>5
<1> QED
  BY <1>1, <1>6
\* claimPeer and activateStream.
LEMMA ChannelFInv ==
    ASSUME FInv, EInv', Claim \/ \E g \in Gen : Activate(g)
    PROVE  FInv'
<1>0. /\ OInv /\ IInv /\ wire \in [Side -> [Gen -> Seq(Frame)]]
      /\ "client" \in Side /\ "server" \in Side /\ \A t \in Side : t = "client" \/ t = "server"
  BY DEF Side, FInv, EInv, OInv, IInv, TypeOK
<1>1. ASSUME NEW q \in Seq(Frame)
      PROVE  Load(q) \in Nat /\ AckedOn(q) \in Nat /\ Load(q) <= Load(q) /\ AckedOn(q) <= AckedOn(q)
  <2>1. \A n \in Nat : n <= n
    OBVIOUS
  <2> QED
    BY <2>1, LoadFacts, AckFacts
<1>2. CASE Claim
  <2> DEFINE g == NextGen
             w == <<Ctl("ready")>> \o Greeting(ep["client"])
  <2>1. /\ g \in Gen /\ RebindStep("client", g) /\ ep["client"].status = "open"
        /\ ep' = [ep EXCEPT !["client"] = Rebound("client", g)] /\ UNCHANGED early
        /\ forgiven' = [forgiven EXCEPT !["client"] = @ + ep["client"].inFlight]
        /\ wire' = [wire EXCEPT !["client"][g] = w]
    BY <1>0, <1>2, ClaimRebinds DEF Claim
  <2> HIDE DEF g
  <2>2. Load(w) = 0 /\ AckedOn(w) = 0
    BY ControlWeights, GreetingWeights
  <2> HIDE DEF w
  <2>3. ep'["client"] = Rebound("client", g)
    BY <1>0, <2>1 DEF IInv, TypeOK
  <2>4. ASSUME NEW r \in Side, NEW h \in Gen
        PROVE  Load(wire'[r][h]) <= Load(wire[r][h]) /\ AckedOn(wire'[r][h]) <= AckedOn(wire[r][h])
    <3>1. wire[r][h] \in Seq(Frame)
      BY <1>0
    <3>2. wire'[r][h] = w \/ wire'[r][h] = wire[r][h]
      BY <1>0, <2>1
    <3>3. \A n \in Nat : 0 <= n
      OBVIOUS
    <3> QED
      BY <1>1, <2>2, <3>1, <3>2, <3>3
  <2> QED
    BY <1>0, <2>1, <2>3, <2>4, RebindFInv
<1>3. ASSUME NEW g \in Gen, Activate(g) PROVE FInv'
  <2> DEFINE out == Greeting(ep["server"])
  <2>1. /\ RebindStep("server", g) /\ ep["server"].status = "open"
        /\ ep' = [ep EXCEPT !["server"] = Rebound("server", g)] /\ UNCHANGED early
        /\ forgiven' = [forgiven EXCEPT !["server"] = @ + ep["server"].inFlight]
        /\ wire["client"][g] # <<>>
        /\ wire' = [wire EXCEPT !["client"][g] = Tail(@),
                                !["server"][g] = IF g \in dead["client"] THEN @ ELSE @ \o out]
    BY <1>0, <1>3, ActivateRebinds DEF Activate, Readies
  <2>2. ep'["server"] = Rebound("server", g)
    BY <1>0, <2>1 DEF IInv, TypeOK
  <2>3. \A q \in Seq(Frame) : Load(q \o out) = Load(q) /\ AckedOn(q \o out) = AckedOn(q)
    BY GreetingWeights
  <2> HIDE DEF out
  <2>4. ASSUME NEW q \in Seq(Frame), q # <<>>
        PROVE  Load(Tail(q)) <= Load(q) /\ AckedOn(Tail(q)) <= AckedOn(q)
    <3>1. Head(q) \in Frame /\ Tail(q) \in Seq(Frame)
      BY <2>4
    <3>2. /\ Load(q) = LoadOf(Head(q)) + Load(Tail(q)) /\ Load(Tail(q)) \in Nat
          /\ AckedOn(q) = AckOf(Head(q)) + AckedOn(Tail(q)) /\ AckedOn(Tail(q)) \in Nat
          /\ LoadOf(Head(q)) \in Nat /\ AckOf(Head(q)) \in Nat
      BY <2>4, <3>1, LoadFacts, AckFacts, FrameFacts
    <3>3. ASSUME NEW a \in Nat, NEW b \in Nat PROVE b <= a + b
      OBVIOUS
    <3> QED
      BY <3>2, <3>3
  <2>5. ASSUME NEW r \in Side, NEW h \in Gen
        PROVE  Load(wire'[r][h]) <= Load(wire[r][h]) /\ AckedOn(wire'[r][h]) <= AckedOn(wire[r][h])
    <3>1. wire[r][h] \in Seq(Frame)
      BY <1>0
    <3>2. \/ wire'[r][h] = wire[r][h] \/ wire'[r][h] = wire[r][h] \o out
          \/ wire[r][h] # <<>> /\ wire'[r][h] = Tail(wire[r][h])
      BY <1>0, <2>1
    <3> QED
      BY <1>1, <2>3, <2>4, <3>1, <3>2
  <2> QED
    BY <1>0, <2>1, <2>2, <2>5, RebindFInv
<1> QED
  BY <1>2, <1>3

\* A refused channel is emptied.
LEMMA RefuseFInv ==
    ASSUME FInv, EInv', NEW g \in Gen, RefuseActivation(g)
    PROVE  FInv'
<1>0. /\ OInv /\ IInv /\ IInv' /\ wire \in [Side -> [Gen -> Seq(Frame)]]
      /\ dead \in [Side -> SUBSET Gen] /\ 0 \in dead["server"]
      /\ "client" \in Side /\ "server" \in Side /\ \A t \in Side : Other(t) \in Side
  BY ConstantFacts, ChannelFacts DEF FInv, EInv, OInv, IInv, TypeOK
<1>1. /\ g \notin dead["server"] /\ dead' = [dead EXCEPT !["server"] = @ \cup {g}]
      /\ wire' = [wire EXCEPT !["client"][g] = <<>>]
      /\ UNCHANGED <<ep, early, forgiven>>
  BY DEF RefuseActivation, Readies, account
<1>2. ASSUME NEW r \in Side, NEW h \in Gen
      PROVE  Load(wire'[r][h]) <= Load(wire[r][h]) /\ AckedOn(wire'[r][h]) <= AckedOn(wire[r][h])
  <2>1. Load(wire[r][h]) \in Nat /\ AckedOn(wire[r][h]) \in Nat
    <3>1. wire[r][h] \in Seq(Frame)
      BY <1>0
    <3> QED
      BY <3>1, LoadFacts, AckFacts
  <2>2. wire'[r][h] = <<>> \/ wire'[r][h] = wire[r][h]
    BY <1>0, <1>1
  <2>3. \A n \in Nat : 0 <= n /\ n <= n
    OBVIOUS
  <2> QED
    BY <2>1, <2>2, <2>3, ControlWeights
<1>3. \A t \in Side : Covered(t)'
  <2>1. \A t \in Side : /\ Held(ep[t])' = Held(ep[t]) /\ Buffered(ep[t])' = Buffered(ep[t])
                        /\ Account(t)' = Account(t)
    BY <1>1 DEF Held, Buffered, Account
  <2> QED
    BY <1>0, <1>2, <2>1, ShrinkCovered
<1>4. \A t \in Side : LostOf(ep[t])'
  BY <1>1 DEF FInv, LostOf
<1>5. Unbroken'
  <2>1. g \in dead'["server"] /\ 0 \in dead["server"]
    BY <1>0, <1>1
  <2>2. dead'["server"] # {0}
    BY <1>1, <2>1
  <2> QED
    BY <1>0, <2>2 DEF Unbroken
<1> QED
  BY <1>3, <1>4, <1>5 DEF FInv

-----------------------------------------------------------------------------
(* The invariant.                                                            *)

\* It holds initially: nothing is sent, held or counted.
LEMMA InitFInv == Init => FInv
<1> SUFFICES ASSUME Init PROVE FInv
  OBVIOUS
<1>0. EInv /\ IInv /\ MaxGen + 1 \in Nat /\ \A s \in Side : Other(s) \in Side
  BY InitEInv, ConstantFacts, GenAssumption DEF EInv, OInv
<1>1. \A s \in Side : /\ ep[s] = NewEndpoint /\ early[s] = 0 /\ forgiven[s] = 0
                      /\ \A g \in Gen : wire[s][g] \in {<<Ctl("flow")>>, <<>>}
  BY DEF Init
<1>2. \A s \in Side, g \in Gen :
         Load(wire[s][g]) = 0 /\ AckedOn(wire[s][g]) = 0 /\ NoResume(wire[s][g])
  BY <1>1, ControlWeights
<1>3. ASSUME NEW s \in Side PROVE Chains(s) = 0
  <2> DEFINE c == [i \in 1 .. MaxGen + 1 |-> Chain(s, i - 1)]
  <2>1. \A g \in Gen : Chain(s, g) = 0
    <3>1. \A g \in Gen : Chain(s, g) = 0 + 0
      BY <1>0, <1>2 DEF Chain
    <3> QED
      BY <3>1
  <2>2. \A i \in 1 .. MaxGen + 1 : i - 1 \in Gen
    BY GenAssumption DEF Gen
  <2>3. \A i \in 1 .. MaxGen + 1 : c[i] = 0
    BY <2>1, <2>2
  <2>4. c \in [1 .. MaxGen + 1 -> Int]
    BY <2>3
  <2>5. Chains(s) = Sum(c)
    BY DEF Chains
  <2> HIDE DEF c
  <2> QED
    BY <1>0, <2>3, <2>4, <2>5, SumOfZeros
<1>4. ASSUME NEW s \in Side PROVE Held(ep[s]) = 0 /\ Buffered(ep[s]) = 0 /\ Account(s) = 0
  <2>1. /\ ep[s].items = <<>> /\ ep[s].consumed = 0 /\ ep[s].writer = "run" /\ ep[s].inFlight = 0
    BY <1>1 DEF NewEndpoint
  <2>2. Bytes(<<>>) = 0
    <3>1. <<>> \in Seq(Item)
      OBVIOUS
    <3> QED
      BY <3>1, BytesFacts
  <2>3. Held(ep[s]) = 0 + 0
    BY <2>1, <2>2 DEF Held
  <2>4. Account(s) = 0 + 0 + 0
    BY <1>1, <2>1 DEF Account
  <2> QED
    BY <2>1, <2>3, <2>4 DEF Buffered
<1>5. \A s \in Side : Covered(s)
  <2>1. \A s \in Side : Outstanding(s) = 0 + 0 + 0
    BY <1>0, <1>3, <1>4 DEF Outstanding
  <2> QED
    BY <1>4, <2>1 DEF Covered
<1>6. \A s \in Side : LostOf(ep[s])
  BY <1>1 DEF NewEndpoint, LostOf
<1> QED
  BY <1>0, <1>1, <1>2, <1>5, <1>6 DEF FInv, Unbroken

\* Every step preserves it.
LEMMA StepFInv == FInv /\ [Next]_vars => FInv'
<1> SUFFICES ASSUME FInv, [Next]_vars PROVE FInv'
  OBVIOUS
<1>0. EInv' /\ IInv' /\ IInv
  BY StepEInv DEF FInv, EInv, OInv
<1>1. CASE UNCHANGED vars
  BY <1>0, <1>1 DEF vars, FInv, Covered, Outstanding, Chains, Chain, Account, Unbroken
<1>2. ASSUME NEW s \in Side,
             \/ AppSend(s) \/ AppClose(s) \/ AppAbort(s) \/ CloseCompletes(s) \/ CloseRejects(s)
             \/ WriterFails(s) \/ WaitForPeer(s) \/ WaitForFlowWindow(s)
             \/ ReceiveEof(s) \/ ReceiveAbort(s) \/ ReceiveFlow(s)
             \/ LosePeer(s) \/ GraceExpires(s)
      PROVE  FInv'
  <2>1. PICK e, out : \E taken \in BOOLEAN : FlowStep(s, e, out, taken)
    BY <1>0, <1>2, SteadyActions
  <2> QED
    BY <1>0, <2>1, FlowStepFInv
<1>3. ASSUME NEW s \in Side, ReceiveAck(s) \/ ReceiveResume(s) \/ ReceiveData(s) PROVE FInv'
  <2>1. PICK e, out : FlowStep(s, e, out, TRUE)
    BY <1>3, AckFlow, ResumeFlow, ReceiveFlowData
  <2> QED
    BY <1>0, <2>1, FlowStepFInv
<1>4. ASSUME NEW s \in Side,
             SendNow(s) \/ SendBuffers(s) \/ BufferDrains(s) \/ SendRejects(s) \/ NextCall(s)
      PROVE  FInv'
  <2>1. PICK e, out : FlowStep(s, e, out, FALSE)
    BY <1>4, SendFlow, RejectFlow, NextCallFlow
  <2> QED
    BY <1>0, <2>1, FlowStepFInv
<1>5. CASE Claim \/ \E g \in Gen : Activate(g)
  BY <1>0, <1>5, ChannelFInv
<1>6. ASSUME NEW g \in Gen, RefuseActivation(g) PROVE FInv'
  BY <1>0, <1>6, RefuseFInv
<1> QED
  BY <1>1, <1>2, <1>3, <1>4, <1>5, <1>6 DEF Next, Write, Receive

\* The account of the bytes, invariant in every behaviour.
THEOREM FlowInvariance == Spec => []FInv
<1>1. Init => FInv
  BY InitFInv
<1>2. FInv /\ [Next]_vars => FInv'
  BY StepFInv
<1> QED
  BY <1>1, <1>2, PTL DEF Spec

\* No byte that the other side's consumer has not acknowledged is missing from
\* the account of inFlight, of what was sent before flow:1 and of what a
\* reconnect forgave; as long as no channel was lost, the window bounds those
\* bytes, whatever is buffered, rejected, acknowledged or thrown away.
THEOREM FlowAccounted == Spec => []FlowAccounting
<1>1. FInv => FlowAccounting
  <2> SUFFICES ASSUME FInv, NEW s \in Side
      PROVE  /\ Unacknowledged(s) <= ep[s].inFlight + early[s] + forgiven[s]
             /\ dead = [t \in Side |-> {0}] /\ ep[s].flowEnabled => UnackedWithinWindow(s)
    BY DEF FlowAccounting
  <2>0. /\ IInv /\ ep[s] \in Endpoint /\ Good(ep[s]) /\ ep[s].link \in Gen /\ Other(s) \in Side
        /\ \A t \in Side : ep[t] \in Endpoint
    BY ObjectFacts, ConstantFacts DEF FInv, EInv, OInv
  <2> DEFINE g == ep[s].link
             o == Other(s)
  <2>1. /\ Bytes(ep[o].items) \in Nat /\ ep[o].consumed \in Nat
        /\ Load(wire[s][g]) \in Nat /\ AckedOn(wire[o][g]) \in Nat
    <3>1. ep[o].items \in Seq(Item) /\ ep[o].consumed \in Nat
      BY <2>0 DEF Endpoint
    <3>2. wire[s][g] \in Seq(Frame) /\ wire[o][g] \in Seq(Frame)
      BY <2>0 DEF IInv, TypeOK
    <3> QED
      BY <3>1, <3>2, BytesFacts, LoadFacts, AckFacts
  <2>2. /\ Buffered(ep[s]) \in Nat /\ Chains(s) \in Nat /\ Chain(s, g) <= Chains(s)
        /\ ep[s].inFlight \in Int /\ early[s] \in Int /\ forgiven[s] \in Int
    BY <2>0, AccountTypes
  <2>3. Unacknowledged(s) = Load(wire[s][g]) + Bytes(ep[o].items) + ep[o].consumed
                              + AckedOn(wire[o][g]) + Buffered(ep[s])
    BY DEF Unacknowledged, Buffered, ChunkSize
  <2>4. Chains(s) + (Bytes(ep[o].items) + ep[o].consumed) + Buffered(ep[s])
          <= ep[s].inFlight + early[s] + forgiven[s]
    BY DEF FInv, Covered, Outstanding, Held, Account
  <2>5. Load(wire[s][g]) + AckedOn(wire[o][g]) <= Chains(s)
    BY <2>2 DEF Chain
  <2> HIDE DEF g, o
  <2>6. ASSUME NEW l \in Nat, NEW q \in Nat, NEW c \in Nat, NEW a \in Nat, NEW b \in Nat,
               NEW n \in Nat, NEW k \in Int, l + a <= n, n + (q + c) + b <= k
        PROVE  l + q + c + a + b <= k /\ l + q + c + a + b \in Int
    BY <2>6
  <2>7. ep[s].inFlight + early[s] + forgiven[s] \in Int
    BY <2>2
  <2>8. Unacknowledged(s) <= ep[s].inFlight + early[s] + forgiven[s] /\ Unacknowledged(s) \in Int
    BY <2>1, <2>2, <2>3, <2>4, <2>5, <2>6, <2>7
  <2>9. ASSUME dead = [t \in Side |-> {0}] PROVE UnackedWithinWindow(s)
    <3>1. forgiven[s] = 0
      BY <2>9 DEF FInv, Unbroken
    <3>2. ep[s].inFlight <= Window \/ \E k \in 1 .. MaxChunks : ep[s].inFlight <= SizeOf[k]
      BY <2>0 DEF Good, BoundOf
    <3>3. ASSUME NEW u \in Int, NEW i \in Int, NEW y \in Int, NEW w \in Int,
                 u <= i + y + 0, i <= w
          PROVE  u <= w + y
      BY <3>3
    <3>4. ASSUME NEW w \in Int, ep[s].inFlight <= w PROVE Unacknowledged(s) <= w + early[s]
      BY <2>2, <2>8, <3>1, <3>3, <3>4
    <3>5. Window \in Int /\ \A k \in 1 .. MaxChunks : SizeOf[k] \in Int
      BY WindowAssumption, SizeFacts
    <3> QED
      BY <3>2, <3>4, <3>5 DEF UnackedWithinWindow
  <2> QED
    BY <2>8, <2>9
<1>2. Spec => []FInv
  BY FlowInvariance
<1> QED
  BY <1>1, <1>2, PTL
=============================================================================
