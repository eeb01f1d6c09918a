------------------------------ MODULE PtySession ------------------------------
(* A terminal session: interactiveClientSession and ptyServerSession at the  *)
(* two ends of one stream. Each direction has the sender's chain of waiting  *)
(* operations, what the stream holds, and what was delivered. Frames are     *)
(* whole; the window stands for the flow control of the stream.              *)
EXTENDS Naturals

CONSTANTS Window, MaxTyped, MaxPrinted   \* the last two bound the model

VARIABLES
  shell,         \* "running", "killed" until its exit is reported, "exited"
  printed,       \* output chunks of the shell
  sending,       \* those in the server's sender (createStreamSender)
  failed,        \* the server's sender has failed
  toClient, shown,
  typed,         \* input chunks of the user
  clientSending, toServer, written,
  serverOut,     \* the server's side of the stream: "writable" or "closed"
  clientOut,
  broken,        \* the stream was aborted or lost for good
  task,          \* receiveTask: "reading", "ended", "failed"
  server,        \* where ptyServerSession is
  source,        \* who ended it: "none", "remote", "pty"
  client         \* "reading", "quitting", "done"

output == <<printed, sending, failed, toClient, shown>>
input == <<typed, clientSending, toServer, written>>
control == <<serverOut, clientOut, broken, task, server, source, client>>
vars == <<shell, output, input, control>>

Init ==
  /\ shell = "running"
  /\ printed = 0 /\ sending = 0 /\ failed = FALSE /\ toClient = 0 /\ shown = 0
  /\ typed = 0 /\ clientSending = 0 /\ toServer = 0 /\ written = 0
  /\ serverOut = "writable" /\ clientOut = "writable" /\ broken = FALSE
  /\ task = "reading" /\ server = "race" /\ source = "none" /\ client = "reading"

Over == server \in {"done", "threw"}

--------------------------------------------------------------------------------
\* onData of the terminal: refused once the sender has failed.
ShellPrints ==
  /\ shell # "exited" /\ ~Over
  /\ printed < MaxPrinted
  /\ printed' = printed + 1
  /\ sending' = IF failed THEN sending ELSE sending + 1
  /\ UNCHANGED <<shell, failed, toClient, shown, input, control>>

\* The oldest operation of the sender: the stream takes its chunk, or throws.
SenderSends ==
  /\ sending > 0
  /\ \/ /\ ~failed /\ ~broken /\ serverOut = "writable" /\ toClient < Window
        /\ toClient' = toClient + 1
        /\ UNCHANGED failed
     \/ /\ broken \/ failed \/ serverOut = "closed"
        /\ failed' = TRUE
        /\ UNCHANGED toClient
  /\ sending' = sending - 1
  /\ UNCHANGED <<shell, printed, shown, input, control>>

ShellExits ==
  /\ shell # "exited"
  /\ shell' = "exited"
  /\ UNCHANGED <<output, input, control>>

\* receiveTask: data for the terminal, the end of the input, or an error.
ServerReads ==
  /\ task = "reading"
  /\ \/ /\ ~broken /\ toServer > 0
        /\ toServer' = toServer - 1 /\ written' = written + 1
        /\ UNCHANGED task
     \/ /\ ~broken /\ toServer = 0 /\ clientOut = "closed"
        /\ task' = "ended"
        /\ UNCHANGED <<toServer, written>>
     \/ broken /\ task' = "failed" /\ UNCHANGED <<toServer, written>>
  /\ UNCHANGED <<shell, output, typed, clientSending, serverOut, clientOut, broken, server, source, client>>

--------------------------------------------------------------------------------
Kills == shell' = IF shell = "running" THEN "killed" ELSE shell

\* Promise.race: what settled, and if both did either of them.
RemoteEnds ==
  /\ server = "race" /\ task = "ended"
  /\ source' = "remote" /\ server' = "awaitExit"
  /\ Kills
  /\ UNCHANGED <<output, input, serverOut, clientOut, broken, task, client>>

RemoteFails ==
  /\ server = "race" /\ task = "failed"
  /\ server' = "threw"
  /\ Kills
  /\ UNCHANGED <<output, input, serverOut, clientOut, broken, task, source, client>>

PtyEnds ==
  /\ shell = "exited"
  /\ \/ server = "race" /\ source' = "pty"
     \/ server = "awaitExit" /\ UNCHANGED source
  /\ server' = "drain"
  /\ UNCHANGED <<shell, output, input, serverOut, clientOut, broken, task, client>>

\* Mutant: the stream is closed without waiting for the sender.
Drained_NotAwaited == TRUE
Drained == sending = 0

\* drain({ ignoreClosed }) and close().
Drains ==
  /\ server = "drain" /\ Drained
  /\ IF failed /\ ~(source = "remote" /\ (broken \/ serverOut = "closed"))
     THEN server' = "threw" /\ UNCHANGED serverOut
     ELSE server' = "awaitTask" /\ serverOut' = "closed"
  /\ Kills
  /\ UNCHANGED <<output, input, clientOut, broken, task, source, client>>

TaskSettles ==
  /\ server = "awaitTask" /\ task # "reading"
  /\ server' = "done"
  /\ Kills
  /\ UNCHANGED <<output, input, serverOut, clientOut, broken, task, source, client>>

--------------------------------------------------------------------------------
\* The user types; the escape sequence makes the client drain and close.
Types ==
  /\ client = "reading" /\ typed < MaxTyped
  /\ typed' = typed + 1 /\ clientSending' = clientSending + 1
  /\ UNCHANGED <<shell, output, toServer, written, control>>

Quits ==
  /\ client = "reading"
  /\ client' = "quitting"
  /\ UNCHANGED <<shell, output, input, serverOut, clientOut, broken, task, server, source>>

ClientSends ==
  /\ clientSending > 0
  /\ \/ ~broken /\ clientOut = "writable" /\ toServer < Window /\ toServer' = toServer + 1
     \/ (broken \/ clientOut = "closed") /\ UNCHANGED toServer
  /\ clientSending' = clientSending - 1
  /\ UNCHANGED <<shell, output, typed, written, control>>

ClientCloses ==
  /\ client = "quitting" /\ clientSending = 0 /\ clientOut = "writable"
  /\ clientOut' = "closed"
  /\ UNCHANGED <<shell, output, input, serverOut, broken, task, server, source, client>>

\* Mutant: the finally block leaves the client's side open.
OutAtEnd_Left == clientOut
OutAtEnd == "closed"

\* The client's loop shows what arrives; its finally closes the client's side.
ClientReads ==
  /\ client # "done"
  /\ \/ /\ ~broken /\ toClient > 0
        /\ toClient' = toClient - 1 /\ shown' = shown + 1
        /\ UNCHANGED <<client, clientOut>>
     \/ /\ broken \/ (toClient = 0 /\ serverOut = "closed")
        /\ client' = "done" /\ clientOut' = OutAtEnd
        /\ UNCHANGED <<toClient, shown>>
  /\ UNCHANGED <<shell, printed, sending, failed, input, serverOut, broken, task, server, source>>

Breaks ==
  /\ ~broken
  /\ broken' = TRUE
  /\ UNCHANGED <<shell, output, input, serverOut, clientOut, task, server, source, client>>

Next ==
  \/ ShellPrints \/ SenderSends \/ ShellExits \/ ServerReads
  \/ RemoteEnds \/ RemoteFails \/ PtyEnds \/ Drains \/ TaskSettles
  \/ Types \/ Quits \/ ClientSends \/ ClientCloses \/ ClientReads \/ Breaks

\* What runs by itself: the senders, both readers, the end of a killed shell
\* and the session's continuations. A user need not quit, a shell need not exit.
Progress ==
  \/ SenderSends \/ ServerReads \/ RemoteEnds \/ RemoteFails \/ PtyEnds \/ Drains
  \/ TaskSettles \/ ClientSends \/ ClientCloses \/ ClientReads
  \/ (shell = "killed" /\ ShellExits)

Spec == Init /\ [][Next]_vars /\ WF_vars(Progress)

--------------------------------------------------------------------------------
TypeOK ==
  /\ shell \in {"running", "killed", "exited"}
  /\ {printed, sending, toClient, shown, typed, clientSending, toServer, written} \subseteq Nat
  /\ toClient <= Window /\ toServer <= Window
  /\ {failed, broken} \subseteq BOOLEAN
  /\ {serverOut, clientOut} \subseteq {"writable", "closed"}
  /\ task \in {"reading", "ended", "failed"}
  /\ server \in {"race", "awaitExit", "drain", "awaitTask", "done", "threw"}
  /\ source \in {"none", "remote", "pty"}
  /\ client \in {"reading", "quitting", "done"}

(* Nothing is cut off at the end of a session whose stream holds: when the   *)
(* client is done it has shown all the shell ever printed, although the exit *)
(* may be reported while output still waits in the sender; and if the user's *)
(* quit ended the session, all that was typed before it reached the terminal *)
(* before the shell was killed (drain before close, on both sides).          *)
NothingCutOff ==
  ~broken =>
    /\ client = "done" => shown = printed
    /\ source = "remote" => written = typed

(* However a session ends - by the shell, by the user, or with its stream -  *)
(* both sides finish and no shell is left running (race, kill, drain).       *)
SessionsEnd ==
  (shell = "exited" \/ client = "quitting" \/ broken)
    ~> (Over /\ client = "done" /\ shell = "exited")
=============================================================================
