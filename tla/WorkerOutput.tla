----------------------------- MODULE WorkerOutput -----------------------------
(* Received bytes on their way from the Web Worker to the page. The Worker   *)
(* stops reading the stream while too many posted bytes are unacknowledged;  *)
(* the page acknowledges a block when its consumer has rendered it. Chunks   *)
(* are their sizes. Messages keep their order in both directions.            *)
EXTENDS Integers, Sequences, SequencesExt, Sums

CONSTANTS High, Low,   \* OUTPUT_HIGH_WATER_MARK, OUTPUT_LOW_WATER_MARK
          Sizes,       \* of the chunks that the stream yields
          MaxRead      \* bound: chunks read in a behaviour

ASSUME OutputAssumption ==
  /\ {High, Low, MaxRead} \subseteq Nat
  /\ Sizes \subseteq Nat \ {0}

VARIABLES
  read,       \* chunks taken from the stream
  held,       \* size of the chunk that receiveLoop holds, 0 if none
  waiting,    \* receiveLoop is among the outputCreditWaiters
  unacked,    \* unacknowledgedOutputBytes
  reader,     \* "reading", "aborted" by stop(), "ended"
  posted,     \* blocks in the page's message queue or its outputChain
  toWorker,   \* acknowledgements on their way; 0 is the request to stop
  page        \* "open", "stopped" once stop() was called, "terminated"

outputVars == <<read, held, waiting, unacked, reader, posted, toWorker, page>>

OutputInit ==
  /\ read = 0 /\ held = 0 /\ waiting = FALSE /\ unacked = 0 /\ reader = "reading"
  /\ posted = <<>> /\ toWorker = <<>> /\ page = "open"

\* The next chunk; an aborted stream yields none.
Read(n) ==
  /\ reader = "reading" /\ held = 0 /\ read < MaxRead
  /\ held' = n /\ read' = read + 1
  /\ UNCHANGED <<waiting, unacked, reader, posted, toWorker, page>>

\* Mutant: the marks are compared before the chunk is added.
MustWait_WithoutChunk(n) == unacked > High
MustWait(n) == unacked > 0 /\ unacked + n > High

WaitForCredit ==
  /\ held > 0 /\ ~waiting /\ MustWait(held)
  /\ waiting' = TRUE
  /\ UNCHANGED <<read, held, unacked, reader, posted, toWorker, page>>

Post ==
  /\ held > 0 /\ ~waiting /\ ~MustWait(held)
  /\ unacked' = unacked + held
  /\ posted' = Append(posted, held)
  /\ held' = 0
  /\ UNCHANGED <<read, waiting, reader, toWorker, page>>

\* The stream ended, or stop() aborted it.
ReaderEnds ==
  /\ held = 0 /\ reader # "ended"
  /\ reader' = "ended"
  /\ UNCHANGED <<read, held, waiting, unacked, posted, toWorker, page>>

\* Mutants: a block is taken off twice; the account loses what was posted
\* meanwhile.
Remaining_Doubled(n) == unacked - 2 * n
Remaining_Zero(n) == 0
Remaining(n) == IF n > unacked THEN 0 ELSE unacked - n

\* acknowledgeOutput(); a woken loop looks at the mark again.
Acknowledge ==
  /\ toWorker # <<>> /\ Head(toWorker) > 0
  /\ unacked' = Remaining(Head(toWorker))
  /\ waiting' = (waiting /\ unacked' > Low)
  /\ toWorker' = Tail(toWorker)
  /\ UNCHANGED <<read, held, reader, posted, page>>

\* Mutant: stop() forgets the waiters.
StillWaiting_AfterReset == waiting
StillWaiting == FALSE

\* stop() up to its first await: abort and resetOutputCredit().
HandleStop ==
  /\ toWorker # <<>> /\ Head(toWorker) = 0
  /\ reader' = IF reader = "reading" THEN "aborted" ELSE reader
  /\ unacked' = 0
  /\ waiting' = StillWaiting
  /\ toWorker' = Tail(toWorker)
  /\ UNCHANGED <<read, held, posted, page>>

--------------------------------------------------------------------------------
\* onData has settled for the oldest block; a stopped client is silent.
Render ==
  /\ posted # <<>> /\ page # "terminated"
  /\ posted' = Tail(posted)
  /\ toWorker' = IF page = "open" THEN Append(toWorker, Head(posted)) ELSE toWorker
  /\ UNCHANGED <<read, held, waiting, unacked, reader, page>>

Stop ==
  /\ page = "open"
  /\ page' = "stopped"
  /\ toWorker' = Append(toWorker, 0)
  /\ UNCHANGED <<read, held, waiting, unacked, reader, posted>>

\* The Worker has answered the stop: receiveTask is over.
Terminate ==
  /\ page = "stopped" /\ toWorker = <<>> /\ reader = "ended"
  /\ page' = "terminated"
  /\ UNCHANGED <<read, held, waiting, unacked, reader, posted, toWorker>>

OutputNext ==
  \/ \E n \in Sizes : Read(n)
  \/ WaitForCredit \/ Post \/ ReaderEnds \/ Acknowledge \/ HandleStop
  \/ Render \/ Stop \/ Terminate

\* Promises settle, messages arrive and the terminal renders; an aborted
\* stream ends its reader. A stream need not yield, a user need not stop.
OutputProgress ==
  \/ WaitForCredit \/ Post \/ Acknowledge \/ HandleStop \/ Render \/ Terminate
  \/ (reader = "aborted" /\ ReaderEnds)

OutputFairness == WF_outputVars(OutputProgress)
OutputSpec == OutputInit /\ [][OutputNext]_outputVars /\ OutputFairness

--------------------------------------------------------------------------------
OutputTypeOK ==
  /\ {read, held, unacked} \subseteq Nat
  /\ waiting \in BOOLEAN
  /\ reader \in {"reading", "aborted", "ended"}
  /\ posted \in Seq(Nat \ {0}) /\ toWorker \in Seq(Nat)
  /\ page \in {"open", "stopped", "terminated"}

(* While the client is open the credit is exactly what is posted, rendered   *)
(* or not, and not yet acknowledged; so at most High bytes, or one block     *)
(* larger than that, ever wait on the main thread.                           *)
OutputAccounted ==
  page = "open" =>
    /\ unacked = Sum(posted) + Sum(toWorker)
    /\ Sum(posted) <= High \/ Len(posted) = 1

(* A chunk that waits for credit is posted, and a client that is stopped     *)
(* terminates its Worker: no wake-up is lost between the marks, and the      *)
(* reset of the credit frees the loop that stop() waits for.                 *)
OutputFlows ==
  /\ (held > 0) ~> (held = 0)
  /\ (page = "stopped") ~> (page = "terminated")
=============================================================================
