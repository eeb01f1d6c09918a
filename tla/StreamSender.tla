---------------------------- MODULE StreamSender ----------------------------
(***************************************************************************)
(* createStreamSender (src/pty.js): the serialised, byte-counted queue     *)
(* between a terminal and a session stream.  send() chains one operation   *)
(* per chunk on a promise; the sender pauses its producer when the queued  *)
(* bytes reach High and resumes it when they are back at Low.              *)
(*                                                                         *)
(* A chunk is the interval [from, to) of the submitted byte stream that it *)
(* covers, so that "no byte is skipped" is a statement about intervals.    *)
(***************************************************************************)
EXTENDS Integers, Sequences

CONSTANTS
    High,          \* highWaterMarkBytes
    Low,           \* lowWaterMarkBytes
    Sizes,         \* the payload sizes the producer submits
    MaxChunk,      \* an upper bound of Sizes
    HonoursPause,  \* TRUE: onPause stops the producer (ptyServerSession);
                   \* FALSE: no callbacks given (interactiveClientSession)
    MaxBytes       \* bound: total bytes submitted in a behaviour

\* The range checks at the top of createStreamSender.
ASSUME SenderAssumption ==
    /\ High \in Nat /\ High >= 1
    /\ Low \in Nat /\ Low < High

ASSUME SizesAssumption ==
    /\ MaxChunk \in Nat
    /\ Sizes \subseteq 0..MaxChunk

ASSUME BoundAssumption ==
    /\ HonoursPause \in BOOLEAN
    /\ MaxBytes \in Nat

VARIABLES
    pending,      \* the chained operations, oldest first
    running,      \* the oldest operation is inside stream.send / onDrain
    queuedBytes,
    paused,
    firstError,   \* an operation has failed
    writable,     \* stream.writeStatus is 'writable' (or undefined)
    submitted,    \* end of the bytes given to send()
    handed        \* end of the bytes given to stream.send()

vars == <<pending, running, queuedBytes, paused, firstError, writable,
          submitted, handed>>

Chunk == [from : Nat, to : Nat]
Size(c) == c.to - c.from

TypeOK ==
    /\ pending \in Seq(Chunk)
    /\ running \in BOOLEAN
    /\ queuedBytes \in Nat
    /\ paused \in BOOLEAN
    /\ firstError \in BOOLEAN
    /\ writable \in BOOLEAN
    /\ submitted \in Nat
    /\ handed \in Nat

Init ==
    /\ pending = <<>>
    /\ running = FALSE
    /\ queuedBytes = 0
    /\ paused = FALSE
    /\ firstError = FALSE
    /\ writable = TRUE
    /\ submitted = 0
    /\ handed = 0

\* Mutant: the resume branch is missing.
PausedAfter_NeverResumes(q) == paused \/ q >= High
\* Mutant: the pause test is strict.
PausedAfter_Strict(q) == IF paused THEN q > Low ELSE q > High

\* updateFlowControl, run with the new byte count.
PausedAfter(q) == IF paused THEN q > Low ELSE q >= High

\* send(value): refused once an operation failed, otherwise the payload is
\* counted at once and its operation chained.
Send(n) ==
    /\ ~firstError
    /\ HonoursPause => ~paused
    /\ submitted + n <= MaxBytes
    /\ pending' = Append(pending, [from |-> submitted, to |-> submitted + n])
    /\ submitted' = submitted + n
    /\ queuedBytes' = queuedBytes + n
    /\ paused' = PausedAfter(queuedBytes + n)
    /\ UNCHANGED <<running, firstError, writable, handed>>

\* Mutant: an operation ignores an earlier failure.
MayRun_IgnoresFailure == writable
MayRun == ~firstError /\ writable

\* The oldest operation's turn: stream.send takes its payload; it may have to
\* wait for onDrain.
Start ==
    /\ pending # <<>> /\ ~running
    /\ MayRun
    /\ running' = TRUE
    /\ handed' = Head(pending).to
    /\ UNCHANGED <<pending, queuedBytes, paused, firstError, writable, submitted>>

\* Mutants: the bytes of a failed operation stay counted, or are released by
\* its catch and its finally both.
BytesReleased_OnlyOnSuccess(ok) == IF ok THEN Size(Head(pending)) ELSE 0
BytesReleased_TwiceOnFailure(ok) ==
    IF ok THEN Size(Head(pending)) ELSE 2 * Size(Head(pending))
BytesReleased(ok) == Size(Head(pending))

\* The finally block and the catch that follow an operation, whatever its
\* outcome.
Settle(ok) ==
    /\ pending' = Tail(pending)
    /\ running' = FALSE
    /\ queuedBytes' = queuedBytes - BytesReleased(ok)
    /\ paused' = PausedAfter(queuedBytes - BytesReleased(ok))
    /\ firstError' = (firstError \/ ~ok)
    /\ UNCHANGED <<writable, submitted, handed>>

\* The oldest operation throws before touching the stream.
Refuse ==
    /\ pending # <<>> /\ ~running
    /\ ~MayRun
    /\ Settle(FALSE)

\* stream.send throws instead of taking the payload; the stream may still say
\* that it is writable.
SendThrows ==
    /\ pending # <<>> /\ ~running
    /\ MayRun
    /\ Settle(FALSE)

\* onDrain resolved, or stream.send returned true.
Drained == running /\ Settle(TRUE)

\* onDrain rejected.
DrainFails == running /\ Settle(FALSE)

\* The stream stops being writable: close, abort, peer lost.
StreamCloses ==
    /\ writable
    /\ writable' = FALSE
    /\ UNCHANGED <<pending, running, queuedBytes, paused, firstError,
                   submitted, handed>>

Next ==
    \/ \E n \in Sizes : Send(n)
    \/ Start
    \/ Refuse
    \/ SendThrows
    \/ Drained
    \/ DrainFails
    \/ StreamCloses

Spec == Init /\ [][Next]_vars

\* A promise reaction always runs, and the stream settles every onDrain: a
\* WebRtcStream within its reconnect grace, a libp2p stream by its own window
\* or by failing.
Fairness ==
    /\ WF_vars(Start \/ SendThrows)
    /\ WF_vars(Refuse)
    /\ WF_vars(Drained \/ DrainFails)

FairSpec == Spec /\ Fairness

-----------------------------------------------------------------------------
\* The flow state and the byte count agree at every moment between two
\* callbacks: a paused producer has more than Low queued (so a later settle
\* resumes it), a running one has less than High.
WatermarkAgreement ==
    /\ paused => queuedBytes > Low
    /\ ~paused => queuedBytes < High

\* queuedBytes counts exactly the chunks still chained, failed ones released:
\* the chained chunks tile the interval that ends at the last submitted byte.
QueueAccounting ==
    /\ pending = <<>> => queuedBytes = 0
    /\ pending # <<>> =>
          /\ queuedBytes = submitted - Head(pending).from
          /\ pending[Len(pending)].to = submitted
    /\ \A i \in 1 .. Len(pending) - 1 : pending[i].to = pending[i + 1].from

\* A producer that honours onPause never has High + MaxChunk bytes queued, the
\* bounded memory the pipeline promises for terminal output.
QueueBounded == queuedBytes < High + MaxChunk

\* The stream receives the submitted bytes without a gap: every chunk handed
\* over starts where the previous one ended, also when operations fail.
NoGap == [][handed' # handed => handed = Head(pending).from]_vars

\* A paused producer is eventually resumed, whether the operations that hold
\* its bytes succeed or fail.
EventuallyResumed == paused ~> ~paused
=============================================================================
