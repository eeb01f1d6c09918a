------------------------------ MODULE MCSessions ------------------------------
(* What carries the bytes of a session, for TLC: the terminal sender, a      *)
(* terminal session, a local forward, the pumps of a bridge or a command,    *)
(* and the readers of structured bytes. The first state chooses the one a    *)
(* behaviour is about; the others keep an initial state in which nothing is  *)
(* under way, so that the fairness of all can be assumed together.           *)
EXTENDS StreamSender, LocalForward, Bridge, ByteReaders

CONSTANTS Window, MaxTyped, MaxPrinted

ASSUME WindowAssumption == Window \in Nat

VARIABLES
  which,
  shell, printed, sending, failed, toClient, shown, typed, clientSending, toServer, written,
  serverOut, clientOut, broken, task, server, source, client

P == INSTANCE PtySession

MCPayload == <<8, 9, 8>>

ptyVars == <<shell, printed, sending, failed, toClient, shown, typed, clientSending, toServer,
             written, serverOut, clientOut, broken, task, server, source, client>>
mcVars == <<which, vars, forwardVars, ptyVars, bridgeVars, readerVars>>

idleBridge == BridgeInit /\ mode = "bridge"
idleReader == ReaderInit /\ job = [kind |-> "auth"]

MCInit ==
  /\ which \in {"sender", "pty", "forward", "bridge", "reader"}
  /\ Init /\ P!Init /\ ForwardInit
  /\ IF which = "bridge" THEN BridgeInit ELSE idleBridge
  /\ IF which = "reader" THEN ReaderInit ELSE idleReader

MCNext ==
  /\ UNCHANGED which
  /\ \/ which = "sender" /\ Next /\ UNCHANGED <<forwardVars, ptyVars, bridgeVars, readerVars>>
     \/ which = "pty" /\ P!Next /\ UNCHANGED <<vars, forwardVars, bridgeVars, readerVars>>
     \/ which = "forward" /\ ForwardNext /\ UNCHANGED <<vars, ptyVars, bridgeVars, readerVars>>
     \/ which = "bridge" /\ BridgeNext /\ UNCHANGED <<vars, forwardVars, ptyVars, readerVars>>
     \/ which = "reader" /\ ReaderNext /\ UNCHANGED <<vars, forwardVars, ptyVars, bridgeVars>>

MCSpec ==
  /\ MCInit /\ [][MCNext]_mcVars
  /\ Fairness /\ ForwardFairness
  /\ WF_ptyVars(which = "pty" /\ P!Progress)

--------------------------------------------------------------------------------
\* The state of every component is well typed; no stream holds more than its
\* window and no count goes below zero.
TypesOK == TypeOK /\ P!TypeOK /\ ForwardTypeOK /\ BridgeTypeOK /\ ReaderTypeOK

\* A terminal session whose stream holds is shown to its end, and what was
\* typed before quitting reached the terminal (drain before close on both
\* sides of pty.js); a bridge or a command that ended well has carried both
\* directions to their end (session.js).
NothingCutOff == P!NothingCutOff /\ BothDirectionsComplete

\* Shell exit, quit and a broken stream each end both sides and the shell; the
\* close of a forward settles; a paused producer is resumed, whether what it
\* waits for is sent or fails.
SessionsEnd == P!SessionsEnd /\ CloseCompletes /\ EventuallyResumed
=============================================================================
