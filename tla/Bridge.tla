-------------------------------- MODULE Bridge --------------------------------
(* The two pumps between a stream and local streams (inputToP2P,             *)
(* p2pToOutput), as bridgeSession and execSession run them: until both have  *)
(* ended, or, for a command, first until it has exited.                      *)
EXTENDS Naturals

CONSTANT MaxChunks   \* bound: chunks produced on either side

ASSUME BridgeAssumption == MaxChunks \in Nat

VARIABLES
  mode,       \* "bridge" or "exec"
  child,      \* the command: "running", "exited"
  produced, inputEnded,            \* by the local input, or the command
  outgoing, sent,                   \* inputToP2P: "pumping", "ended", "rejected"
  toOutput, remoteEnded,           \* by the remote side, not yet written
  incoming,                       \* p2pToOutput
  aborted,                         \* the stream was aborted or lost
  bridge,    \* "pumping", "settling" after the command's exit, "done", "threw"
  unhandled   \* a rejection that nothing was attached to

pumpVars == <<produced, inputEnded, outgoing, sent, toOutput, remoteEnded, incoming>>
bridgeVars == <<mode, child, pumpVars, aborted, bridge, unhandled>>

BridgeInit ==
  /\ mode \in {"bridge", "exec"} /\ child = "running"
  /\ produced = 0 /\ inputEnded = FALSE /\ outgoing = "pumping" /\ sent = 0
  /\ toOutput = 0 /\ remoteEnded = FALSE /\ incoming = "pumping"
  /\ aborted = FALSE /\ bridge = "pumping" /\ unhandled = FALSE

InputYields ==
  /\ ~inputEnded /\ produced < MaxChunks
  /\ produced' = produced + 1
  /\ UNCHANGED <<mode, child, inputEnded, outgoing, sent, toOutput, remoteEnded, incoming,
                 aborted, bridge, unhandled>>

\* The output of a command may stay open behind its exit.
InputEnds ==
  /\ ~inputEnded
  /\ inputEnded' = TRUE
  /\ UNCHANGED <<mode, child, produced, outgoing, sent, toOutput, remoteEnded, incoming,
                 aborted, bridge, unhandled>>

RemoteSends ==
  /\ ~remoteEnded /\ ~aborted
  /\ \/ toOutput < MaxChunks /\ toOutput' = toOutput + 1 /\ UNCHANGED remoteEnded
     \/ remoteEnded' = TRUE /\ UNCHANGED toOutput
  /\ UNCHANGED <<mode, child, produced, inputEnded, outgoing, sent, incoming,
                 aborted, bridge, unhandled>>

\* By the remote side, by its loss, or by the inactivity timer.
Aborts ==
  /\ ~aborted /\ bridge \in {"pumping", "settling"}
  /\ aborted' = TRUE
  /\ UNCHANGED <<mode, child, pumpVars, bridge, unhandled>>

\* execSession attaches to its pumps only after the exit of the command.
Unattended == mode = "exec" /\ bridge = "pumping"

Sends ==
  /\ outgoing = "pumping"
  /\ \/ /\ ~aborted /\ sent < produced
        /\ sent' = sent + 1 /\ UNCHANGED <<outgoing, unhandled>>
     \/ /\ ~aborted /\ sent = produced /\ inputEnded
        /\ outgoing' = "ended" /\ UNCHANGED <<sent, unhandled>>
     \/ /\ aborted
        /\ outgoing' = "rejected" /\ unhandled' = (unhandled \/ Unattended) /\ UNCHANGED sent
  /\ UNCHANGED <<mode, child, produced, inputEnded, toOutput, remoteEnded, incoming, aborted, bridge>>

\* The input fails, a socket for instance: inputToP2P aborts the stream.
InputFails ==
  /\ mode = "bridge" /\ outgoing = "pumping" /\ ~inputEnded
  /\ outgoing' = "rejected" /\ inputEnded' = TRUE /\ aborted' = TRUE
  /\ UNCHANGED <<mode, child, produced, sent, toOutput, remoteEnded, incoming, bridge, unhandled>>

Receives ==
  /\ incoming = "pumping"
  /\ \/ /\ toOutput > 0 /\ ~aborted
        /\ toOutput' = toOutput - 1 /\ UNCHANGED <<incoming, unhandled>>
     \/ /\ toOutput = 0 /\ remoteEnded /\ ~aborted
        /\ incoming' = "ended" /\ UNCHANGED <<toOutput, unhandled>>
     \/ /\ aborted
        /\ incoming' = "rejected" /\ unhandled' = (unhandled \/ Unattended) /\ UNCHANGED toOutput
  /\ UNCHANGED <<mode, child, produced, inputEnded, outgoing, sent, remoteEnded, aborted, bridge>>

\* The command's own end, or the end of its standard input.
ChildExits ==
  /\ mode = "exec" /\ child = "running"
  /\ child' = "exited"
  /\ UNCHANGED <<mode, pumpVars, aborted, bridge, unhandled>>

ExitSeen ==
  /\ mode = "exec" /\ bridge = "pumping" /\ child = "exited"
  /\ bridge' = "settling"
  /\ UNCHANGED <<mode, child, pumpVars, aborted, unhandled>>

\* Mutant: the session ends with its first pump.
BothOver_Either == {outgoing, incoming} # {"pumping"}
BothOver == "pumping" \notin {outgoing, incoming}

\* Promise.all of a bridge, Promise.allSettled of a command.
SessionSettles ==
  /\ \/ /\ bridge = "settling" /\ BothOver
        /\ bridge' = "done"
     \/ /\ mode = "bridge" /\ bridge = "pumping"
        /\ \/ "rejected" \in {outgoing, incoming} /\ bridge' = "threw"
           \/ "rejected" \notin {outgoing, incoming} /\ BothOver /\ bridge' = "done"
  /\ UNCHANGED <<mode, child, pumpVars, aborted, unhandled>>

BridgeNext ==
  \/ InputYields \/ InputEnds \/ RemoteSends \/ Aborts \/ Sends \/ InputFails
  \/ Receives \/ ChildExits \/ ExitSeen \/ SessionSettles

BridgeSpec == BridgeInit /\ [][BridgeNext]_bridgeVars

--------------------------------------------------------------------------------
BridgeTypeOK ==
  /\ mode \in {"bridge", "exec"} /\ child \in {"running", "exited"}
  /\ {produced, sent, toOutput} \subseteq 0 .. MaxChunks
  /\ {inputEnded, remoteEnded, aborted, unhandled} \subseteq BOOLEAN
  /\ {outgoing, incoming} \subseteq {"pumping", "ended", "rejected"}
  /\ bridge \in {"pumping", "settling", "done", "threw"}

(* A session that ended well has carried both directions to their end: half  *)
(* a close, or a command that exits before its output is read, cuts nothing. *)
BothDirectionsComplete ==
  bridge = "done" /\ ~aborted => sent = produced /\ inputEnded /\ toOutput = 0 /\ remoteEnded

(* A session that fails ends with an error its listener handles: a lost      *)
(* stream never leaves a rejected pump without a handler (handleIncoming     *)
(* logs the error of a session and a persistent listener goes on).           *)
FailureIsHandled == ~unhandled
=============================================================================
