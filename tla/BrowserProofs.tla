----------------------------- MODULE BrowserProofs -----------------------------
(***************************************************************************)
(* Proofs about the browser client: which transport the page hears, for a  *)
(* message queue of any length; the credit between Worker and page, for    *)
(* all marks and sizes of chunks; and the rendezvous in the DHT, for all   *)
(* intervals, patience and differences between clocks.                     *)
(***************************************************************************)
EXTENDS MCBrowser, SumsProofs

--------------------------------------------------------------------------------
(* BrowserP2PClient, its Worker and the native client                          *)

\* Nothing is under way before the Worker has started; a transport is chosen
\* exactly when the race is over and was not lost by all.
Phases ==
  /\ ui = "idle" => phase = "none"
  /\ phase \in {"none", "starting"} =>
       /\ worker = "idle" /\ native = "none" /\ connection = "none"
       /\ request = "none" /\ ~stopped /\ ~timedOut /\ heard = {}
  /\ phase \in {"none", "starting", "racing", "threw"} => active = "none"
  /\ phase \in {"stoppingNative", "done", "disconnecting", "disconnected"} => active # "none"
  /\ phase = "threw" => stopped
  /\ request = "pending" => phase = "racing"

\* A native client that was stopped has no live connection and will not open
\* one; with a relay there is none at all.
StoppedNative == connection # "live" /\ (native = "sessions" => nativeStopped)

Native ==
  /\ relay => native = "none"
  /\ native = "none" => connection # "live"
  /\ stopped => StoppedNative
  /\ active = "worker" => StoppedNative
  /\ native = "open" /\ connection = "live" => active = "native"
  /\ active = "native" => worker = "terminated"
  /\ workerStop # "no" => stopped \/ active = "native"

\* The answer to the connect request comes before the data, and is there as
\* long as nobody has taken it.
Answered == inbox # <<>> /\ inbox[1] = "ok"

Inbox ==
  /\ \A i \in DOMAIN inbox : inbox[i] = "ok" => i = 1 /\ request = "pending" /\ ~timedOut
  /\ \A i \in DOMAIN inbox : inbox[i] = "stopped" => workerStop # "no"
  /\ worker \in {"idle", "dialing", "auth"} /\ ~timedOut => inbox = <<>>
  /\ worker = "terminated" => inbox = <<>>
  /\ worker \in {"dialing", "auth"} /\ ~timedOut => request = "pending"
  /\ ~timedOut /\ worker = "reading" => active = "worker" \/ Answered
  /\ ~timedOut => \A i \in DOMAIN inbox : inbox[i] = "data" => active = "worker" \/ Answered

Heard == ~timedOut => heard \subseteq {active}

IInv == ClientTypeOK /\ Phases /\ Native /\ Inbox /\ Heard

--------------------------------------------------------------------------------
LEMMA InitIInv == ClientInit => IInv
<1> SUFFICES ASSUME ClientInit PROVE IInv
  OBVIOUS
<1>1. ClientTypeOK
  <2>1. inbox \in Seq({"ok", "error", "data", "closed", "stopped"})
    BY DEF ClientInit
  <2> QED
    BY <2>1 DEF ClientInit, ClientTypeOK
<1>2. Phases /\ Native /\ Inbox /\ Heard
  BY DEF ClientInit, Phases, Native, StoppedNative, Inbox, Answered, Heard
<1> QED
  BY <1>1, <1>2 DEF IInv

LEMMA InvIsOneTransport == IInv => OneTransport
  BY DEF IInv, Native, StoppedNative, Heard, OneTransport

\* The page starts, fails, disconnects or goes away.
LEMMA PageStep ==
  ASSUME IInv, \/ UserConnects \/ WorkerStarted \/ StartFails \/ ConnectFails \/ NativeStopped
               \/ Disconnect \/ Disconnected \/ Unmount
  PROVE  IInv'
<1> USE DEF IInv, ClientTypeOK, Phases, Native, StoppedNative, Inbox, Answered, Heard,
            workerVars, nativeVars
<1>1. CASE UserConnects
  <2>1. ClientTypeOK'
    BY <1>1 DEF UserConnects
  <2>2. Phases'
    BY <1>1 DEF UserConnects
  <2>3. Native'
    BY <1>1 DEF UserConnects
  <2>4. Inbox'
    BY <1>1 DEF UserConnects
  <2>5. Heard'
    BY <1>1 DEF UserConnects
  <2> QED
    BY <2>1, <2>2, <2>3, <2>4, <2>5
<1>2. CASE WorkerStarted
  BY <1>2 DEF WorkerStarted
<1>3. CASE StartFails
  BY <1>3 DEF StartFails, StopBoth, StopNative, AskWorkerToStop
<1>4. CASE ConnectFails
  BY <1>4 DEF ConnectFails, StopBoth, StopNative, AskWorkerToStop
<1>5. CASE NativeStopped
  BY <1>5 DEF NativeStopped
<1>6. CASE Disconnect
  <2>1. ClientTypeOK'
    BY <1>6 DEF Disconnect, StopBoth, StopNative, AskWorkerToStop
  <2>2. Phases'
    BY <1>6 DEF Disconnect, StopBoth, StopNative, AskWorkerToStop
  <2>3. Native'
    BY <1>6 DEF Disconnect, StopBoth, StopNative, AskWorkerToStop
  <2>4. Inbox'
    BY <1>6 DEF Disconnect, StopBoth, StopNative, AskWorkerToStop
  <2>5. Heard'
    BY <1>6 DEF Disconnect, StopBoth, StopNative, AskWorkerToStop
  <2> QED
    BY <2>1, <2>2, <2>3, <2>4, <2>5
<1>7. CASE Disconnected
  BY <1>7 DEF Disconnected
<1>8. CASE Unmount
  <2>1. ClientTypeOK'
    BY <1>8 DEF Unmount, StopBoth, StopNative, AskWorkerToStop
  <2>2. Phases'
    BY <1>8 DEF Unmount, StopBoth, StopNative, AskWorkerToStop
  <2>3. Native'
    BY <1>8 DEF Unmount, StopBoth, StopNative, AskWorkerToStop
  <2>4. Inbox'
    BY <1>8 DEF Unmount, StopBoth, StopNative, AskWorkerToStop
  <2>5. Heard'
    BY <1>8 DEF Unmount, StopBoth, StopNative, AskWorkerToStop
  <2> QED
    BY <2>1, <2>2, <2>3, <2>4, <2>5
<1> QED
  BY <1>1, <1>2, <1>3, <1>4, <1>5, <1>6, <1>7, <1>8

\* The Worker answers its connect request, receives, or stops.
LEMMA WorkerStep ==
  ASSUME IInv, \/ StreamOpens \/ Authenticated \/ WorkerFails \/ WorkerTimesOut
               \/ WorkerReceives \/ StreamEnds \/ WorkerStops
  PROVE  IInv'
<1> USE DEF IInv, ClientTypeOK, Phases, Native, StoppedNative, Inbox, Answered, Heard,
            pageVars, nativeVars, Answer
<1>1. CASE StreamOpens
  <2>1. ClientTypeOK'
    BY <1>1 DEF StreamOpens
  <2>2. Phases'
    BY <1>1 DEF StreamOpens
  <2>3. Native'
    BY <1>1 DEF StreamOpens
  <2>4. Inbox'
    <3>1. CASE token
      BY <1>1, <3>1 DEF StreamOpens
    <3>2. CASE ~token /\ timedOut
      BY <1>1, <3>2 DEF StreamOpens
    <3>3. CASE ~token /\ ~timedOut
      <4>1. inbox' = <<"ok">> /\ request' = "pending"
        BY <1>1, <3>3 DEF StreamOpens
      <4> QED
        BY <1>1, <3>3, <4>1 DEF StreamOpens
    <3> QED
      BY <3>1, <3>2, <3>3
  <2>5. Heard'
    BY <1>1 DEF StreamOpens
  <2> QED
    BY <2>1, <2>2, <2>3, <2>4, <2>5
<1>2. CASE Authenticated
  <2>1. CASE timedOut
    BY <1>2, <2>1 DEF Authenticated
  <2>2. CASE ~timedOut
    <3>1. inbox' = <<"ok">> /\ request' = "pending"
      BY <1>2, <2>2 DEF Authenticated
    <3>2. ClientTypeOK' /\ Phases' /\ Native' /\ Heard'
      BY <1>2, <2>2 DEF Authenticated
    <3>3. Inbox'
      BY <1>2, <2>2, <3>1 DEF Authenticated
    <3> QED
      BY <3>2, <3>3
  <2> QED
    BY <2>1, <2>2
<1>3. CASE WorkerFails
  BY <1>3 DEF WorkerFails
<1>4. CASE WorkerTimesOut
  BY <1>4 DEF WorkerTimesOut
<1>5. CASE WorkerReceives
  BY <1>5 DEF WorkerReceives
<1>6. CASE StreamEnds
  BY <1>6 DEF StreamEnds
<1>7. CASE WorkerStops
  <2>1. ClientTypeOK'
    <3>1. inbox' = IF worker = "reading" THEN Append(Append(inbox, "closed"), "stopped")
                   ELSE Append(inbox, "stopped")
      BY <1>7 DEF WorkerStops
    <3>2. inbox' \in Seq({"ok", "error", "data", "closed", "stopped"})
      BY ONLY <3>1, ClientTypeOK DEF ClientTypeOK
    <3> QED
      BY <1>7, <3>2 DEF WorkerStops
  <2>2. Phases'
    BY <1>7 DEF WorkerStops
  <2>3. Native'
    BY <1>7 DEF WorkerStops
  <2>4. Inbox'
    BY <1>7 DEF WorkerStops
  <2>5. Heard'
    BY <1>7 DEF WorkerStops
  <2> QED
    BY <2>1, <2>2, <2>3, <2>4, <2>5
<1> QED
  BY <1>1, <1>2, <1>3, <1>4, <1>5, <1>6, <1>7

\* The native client opens its sessions, authenticates, opens, and ends.
LEMMA NativeStep ==
  ASSUME IInv, \/ SessionsReady \/ NativeFails \/ NativeAuthenticates \/ NativeOpens
               \/ NativeReceives \/ NativeEnds
  PROVE  IInv'
<1> USE DEF IInv, ClientTypeOK, Phases, Native, StoppedNative, Inbox, Answered, Heard,
            pageVars, workerVars, nativeVars
<1>1. CASE SessionsReady
  BY <1>1 DEF SessionsReady, StoppedMeanwhile
<1>2. CASE NativeFails
  BY <1>2 DEF NativeFails
<1>3. CASE NativeAuthenticates
  BY <1>3 DEF NativeAuthenticates
<1>4. CASE NativeOpens
  <2>1. ClientTypeOK'
    <3>1. inbox' \in Seq({"ok", "error", "data", "closed", "stopped"})
      <4>1. inbox' = inbox \/ inbox' = <<>>
        BY <1>4 DEF NativeOpens, CancelWorker
      <4>2. <<>> \in Seq({"ok", "error", "data", "closed", "stopped"})
        OBVIOUS
      <4> QED
        BY <4>1, <4>2
    <3>2. /\ worker' \in {worker, "terminated"} /\ workerStop' \in {workerStop, "done"}
          /\ request' \in {request, "failed"} /\ phase' \in {phase, "done"}
          /\ active' \in {active, "native"} /\ ui' \in {ui, "connected"}
      BY <1>4 DEF NativeOpens, CancelWorker, Loser
    <3> QED
      BY <1>4, <3>1, <3>2 DEF NativeOpens
  <2>2. Phases'
    BY <1>4 DEF NativeOpens, CancelWorker, Loser
  <2>3. Native'
    BY <1>4 DEF NativeOpens, CancelWorker, Loser
  <2>4. Inbox'
    BY <1>4 DEF NativeOpens, CancelWorker, Loser
  <2>5. Heard'
    BY <1>4 DEF NativeOpens, CancelWorker, Loser
  <2> QED
    BY <2>1, <2>2, <2>3, <2>4, <2>5
<1>5. CASE NativeReceives
  BY <1>5 DEF NativeReceives
<1>6. CASE NativeEnds
  BY <1>6 DEF NativeEnds
<1> QED
  BY <1>1, <1>2, <1>3, <1>4, <1>5, <1>6

\* The page takes the next message: the answer makes the Worker the chosen
\* transport, and only then can data follow.
LEMMA MessageStep ==
  ASSUME IInv, WorkerMessage
  PROVE  IInv'
<1> USE DEF IInv, ClientTypeOK, Phases, Native, StoppedNative, Inbox, Answered, Heard,
            nativeVars
<1>1. inbox' \in Seq({"ok", "error", "data", "closed", "stopped"})
  <2>1. <<>> \in Seq({"ok", "error", "data", "closed", "stopped"})
    BY DEF WorkerMessage
  <2> QED
    BY <2>1 DEF WorkerMessage
<1>2. /\ Len(inbox) > 0 /\ inbox[1] = Head(inbox)
      /\ Head(inbox) # "stopped" => inbox' = Tail(inbox) /\ Len(inbox') = Len(inbox) - 1
      /\ Head(inbox) = "stopped" => inbox' = <<>>
      /\ \A i \in DOMAIN inbox' : inbox'[i] = inbox[i + 1] /\ i + 1 \in DOMAIN inbox
  BY DEF WorkerMessage
<1>3. CASE Head(inbox) = "ok"
  <2>1. /\ request = "pending" /\ request' = "done" /\ active' = "worker"
        /\ UNCHANGED <<relay, token, stopped, timedOut, heard, worker, workerStop>>
    BY <1>3 DEF WorkerMessage, TakeOk
  <2>2. \/ relay /\ phase' = "done" /\ ui' = "connected" /\ UNCHANGED nativeVars
        \/ ~relay /\ phase' = "stoppingNative" /\ StopNative /\ UNCHANGED <<ui, native>>
    BY <1>3 DEF WorkerMessage, TakeOk
  <2>3. ClientTypeOK'
    <3>1. /\ nativeStopped' \in BOOLEAN /\ native' = native
          /\ connection' \in {connection, "closed"} /\ sessions' \in {sessions, "closed"}
      BY <2>2 DEF StopNative
    <3> QED
      BY <1>1, <2>1, <2>2, <3>1
  <2>4. Phases'
    BY <1>1, <1>2, <1>3, <2>1, <2>2 DEF StopNative
  <2>5. Native'
    BY <1>1, <1>2, <1>3, <2>1, <2>2 DEF StopNative
  <2>6. Inbox'
    BY <1>1, <1>2, <1>3, <2>1, <2>2 DEF StopNative
  <2>7. Heard'
    BY <1>1, <1>2, <1>3, <2>1, <2>2 DEF StopNative
  <2> QED
    BY <2>3, <2>4, <2>5, <2>6, <2>7
<1>4. CASE Head(inbox) = "error"
  <2>1. /\ request' = "failed"
        /\ UNCHANGED <<relay, token, stopped, timedOut, phase, ui, active, heard, worker, workerStop, nativeVars>>
    BY <1>4 DEF WorkerMessage
  <2>2. ClientTypeOK'
    BY <1>1, <1>2, <1>4, <2>1
  <2>3. Phases'
    BY <1>1, <1>2, <1>4, <2>1
  <2>4. Native'
    BY <1>1, <1>2, <1>4, <2>1
  <2>5. Inbox'
    BY <1>1, <1>2, <1>4, <2>1
  <2>6. Heard'
    BY <1>1, <1>2, <1>4, <2>1
  <2> QED
    BY <2>2, <2>3, <2>4, <2>5, <2>6
<1>5. CASE Head(inbox) = "data"
  <2>1. /\ heard' = heard \union {"worker"}
        /\ UNCHANGED <<relay, token, stopped, timedOut, phase, ui, active, request, worker, workerStop, nativeVars>>
    BY <1>5 DEF WorkerMessage
  <2>2. ClientTypeOK'
    BY <1>1, <1>2, <1>5, <2>1
  <2>3. Phases'
    BY <1>1, <1>2, <1>5, <2>1
  <2>4. Native'
    BY <1>1, <1>2, <1>5, <2>1
  <2>5. Inbox'
    BY <1>1, <1>2, <1>5, <2>1
  <2>6. Heard'
    BY <1>1, <1>2, <1>5, <2>1
  <2> QED
    BY <2>2, <2>3, <2>4, <2>5, <2>6
<1>6. CASE Head(inbox) = "closed"
  <2>1. /\ ui' \in {ui, "closed"}
        /\ UNCHANGED <<relay, token, stopped, timedOut, phase, active, request, heard, worker, workerStop, nativeVars>>
    BY <1>6 DEF WorkerMessage
  <2>2. ClientTypeOK'
    BY <1>1, <1>2, <1>6, <2>1
  <2>3. Phases'
    BY <1>1, <1>2, <1>6, <2>1
  <2>4. Native'
    BY <1>1, <1>2, <1>6, <2>1
  <2>5. Inbox'
    BY <1>1, <1>2, <1>6, <2>1
  <2>6. Heard'
    BY <1>1, <1>2, <1>6, <2>1
  <2> QED
    BY <2>2, <2>3, <2>4, <2>5, <2>6
<1>7. CASE Head(inbox) = "stopped"
  <2>1. /\ worker' = "terminated" /\ workerStop' = "done" /\ request' \in {request, "failed"}
        /\ (request' = "pending" => FALSE)
        /\ UNCHANGED <<relay, token, stopped, timedOut, phase, ui, active, heard, nativeVars>>
    BY <1>7 DEF WorkerMessage
  <2>2. ClientTypeOK'
    BY <1>1, <1>2, <1>7, <2>1
  <2>3. Phases'
    BY <1>1, <1>2, <1>7, <2>1
  <2>4. Native'
    BY <1>1, <1>2, <1>7, <2>1
  <2>5. Inbox'
    BY <1>1, <1>2, <1>7, <2>1
  <2>6. Heard'
    BY <1>1, <1>2, <1>7, <2>1
  <2> QED
    BY <2>2, <2>3, <2>4, <2>5, <2>6
<1> QED
  BY <1>3, <1>4, <1>5, <1>6, <1>7 DEF WorkerMessage

LEMMA NextIInv == IInv /\ [ClientNext]_clientVars => IInv'
<1> SUFFICES ASSUME IInv, [ClientNext]_clientVars PROVE IInv'
  OBVIOUS
<1>1. CASE ClientNext
  BY <1>1, PageStep, WorkerStep, NativeStep, MessageStep DEF ClientNext
<1>2. CASE UNCHANGED clientVars
  BY <1>2 DEF clientVars, pageVars, workerVars, nativeVars, IInv, ClientTypeOK, Phases,
              Native, StoppedNative, Inbox, Answered, Heard
<1> QED
  BY <1>1, <1>2

--------------------------------------------------------------------------------
\* The page, the Worker's connect and the native client are well typed in every
\* reachable state.
THEOREM ClientTypeCorrect == ClientSpec => []ClientTypeOK
<1>1. IInv => ClientTypeOK
  BY DEF IInv
<1> QED
  BY InitIInv, NextIInv, <1>1, PTL DEF ClientSpec

\* Whatever stops, fails or times out: a transport that lost the race is gone
\* for good, and as long as the Worker's connect did not time out the page is
\* given bytes of the transport it has chosen and of no other
\* (BrowserP2PClient.connect, cancel, stop).
THEOREM PageHearsOne == ClientSpec => []OneTransport
  BY InitIInv, NextIInv, InvIsOneTransport, PTL DEF ClientSpec--------------------------------------------------------------------------------
(* receiveLoop, acknowledgeOutput and the page's outputChain                   *)

\* No request to stop is on its way while the page is open, and what the credit
\* counts is posted, or acknowledged and on its way.
Credit ==
  page = "open" =>
    /\ \A i \in DOMAIN toWorker : toWorker[i] # 0
    /\ unacked = Sum(posted) + Sum(toWorker)

\* Over the mark there is one block, which was posted when none was counted.
OneAboveTheMark == page = "open" => Sum(posted) <= High \/ Len(posted) = 1

OutputInv == OutputTypeOK /\ Credit /\ OneAboveTheMark

LEMMA InitOutput == OutputInit => OutputInv
<1> SUFFICES ASSUME OutputInit PROVE OutputInv
  OBVIOUS
<1>1. posted = <<>> /\ toWorker = <<>> /\ unacked = 0 /\ read = 0 /\ held = 0
  BY DEF OutputInit
<1>2. Sum(posted) = 0 /\ Sum(toWorker) = 0
  BY <1>1, SumEmpty
<1>3. posted \in Seq(Nat \ {0}) /\ toWorker \in Seq(Nat) /\ DOMAIN toWorker = {}
  BY <1>1
<1>4. OutputTypeOK
  <2>1. {read, held, unacked} \subseteq Nat
    BY <1>1
  <2>2. waiting = FALSE /\ reader = "reading" /\ page = "open"
    BY DEF OutputInit
  <2> QED
    BY <1>3, <2>1, <2>2 DEF OutputTypeOK
<1>5. Credit /\ OneAboveTheMark
  BY <1>1, <1>2, <1>3, OutputAssumption DEF Credit, OneAboveTheMark
<1> QED
  BY <1>4, <1>5 DEF OutputInv

\* What a queue of sizes adds up to, and what its head and its end add.
LEMMA Queue ==
  ASSUME NEW q \in Seq(Nat)
  PROVE  /\ Sum(q) \in Nat
         /\ q # <<>> => /\ Head(q) \in Nat /\ Tail(q) \in Seq(Nat)
                        /\ Sum(Tail(q)) \in Nat /\ Sum(q) = Head(q) + Sum(Tail(q))
         /\ \A n \in Nat : /\ Append(q, n) \in Seq(Nat)
                           /\ Sum(Append(q, n)) = Sum(q) + n
<1>1. ASSUME NEW s \in Seq(Nat) PROVE Sum(s) \in Nat /\ s \in Seq(Int)
  <2>1. Len(s) \in Nat /\ s \in [1 .. Len(s) -> Nat] /\ s \in Seq(Int)
    OBVIOUS
  <2> QED
    BY <2>1, SumOfNaturals
<1>2. ASSUME q # <<>>
      PROVE  /\ Head(q) \in Nat /\ Tail(q) \in Seq(Nat)
             /\ Sum(q) = Head(q) + Sum(Tail(q))
  <2>1. /\ Head(q) \in Nat /\ Tail(q) \in Seq(Nat) /\ <<Head(q)>> \in Seq(Int)
        /\ q = <<Head(q)>> \o Tail(q)
    BY <1>2
  <2>2. Sum(<<Head(q)>> \o Tail(q)) = Sum(<<Head(q)>>) + Sum(Tail(q))
    BY <1>1, <2>1, SumConcat
  <2>3. Sum(<<Head(q)>>) = Head(q)
    BY <2>1, SumOne
  <2> QED
    BY ONLY <2>1, <2>2, <2>3
<1>3. ASSUME NEW n \in Nat
      PROVE  Append(q, n) \in Seq(Nat) /\ Sum(Append(q, n)) = Sum(q) + n
  <2>1. Append(q, n) = q \o <<n>> /\ <<n>> \in Seq(Int) /\ Append(q, n) \in Seq(Nat)
    OBVIOUS
  <2>2. Sum(q \o <<n>>) = Sum(q) + Sum(<<n>>)
    BY <1>1, <2>1, SumConcat
  <2> QED
    BY <2>1, <2>2, SumOne
<1> QED
  BY <1>1, <1>2, <1>3

\* A queue that adds up to nothing and has no empty block is empty.
LEMMA NothingPosted ==
  ASSUME NEW q \in Seq(Nat \ {0}), Sum(q) = 0
  PROVE  q = <<>>
<1> SUFFICES ASSUME q # <<>> PROVE FALSE
  OBVIOUS
<1>1. q \in Seq(Nat) /\ Head(q) \in Nat \ {0}
  OBVIOUS
<1>2. Sum(Tail(q)) \in Nat /\ Sum(q) = Head(q) + Sum(Tail(q))
  BY <1>1, Queue
<1> QED
  BY <1>1, <1>2

LEMMA PostStep ==
  ASSUME OutputInv, Post
  PROVE  OutputInv'
<1> USE DEF OutputInv, OutputTypeOK
<1>1. /\ held \in Nat \ {0} /\ unacked \in Nat /\ unacked' = unacked + held
      /\ posted' = Append(posted, held) /\ held' = 0
      /\ UNCHANGED <<read, waiting, reader, toWorker, page>>
      /\ (unacked = 0 \/ unacked + held <= High)
  BY OutputAssumption DEF Post, MustWait
<1>2. posted \in Seq(Nat) /\ posted' \in Seq(Nat \ {0}) /\ Sum(posted) \in Nat
      /\ Sum(toWorker) \in Nat /\ Sum(posted') = Sum(posted) + held
  <2>1. posted \in Seq(Nat) /\ posted' \in Seq(Nat \ {0})
    BY <1>1
  <2> QED
    BY <1>1, <2>1, Queue
<1>3. OutputTypeOK'
  BY <1>1, <1>2
<1>4. Credit'
  BY <1>1, <1>2 DEF Credit
<1>5. OneAboveTheMark'
  <2>1. CASE page = "open" /\ unacked = 0
    <3>1. Sum(posted) = 0
      BY <1>2, <2>1 DEF Credit
    <3>2. posted = <<>>
      BY <3>1, NothingPosted
    <3> QED
      BY <1>1, <3>2 DEF OneAboveTheMark
  <2>2. CASE page = "open" /\ unacked + held <= High
    BY <1>1, <1>2, <2>2, OutputAssumption, SMTT(30) DEF Credit, OneAboveTheMark
  <2>3. CASE page # "open"
    BY <1>1, <2>3 DEF OneAboveTheMark
  <2> QED
    BY <1>1, <2>1, <2>2, <2>3
<1> QED
  BY <1>3, <1>4, <1>5

LEMMA AcknowledgeStep ==
  ASSUME OutputInv, Acknowledge
  PROVE  OutputInv'
<1> USE DEF OutputInv, OutputTypeOK
<1>1. /\ toWorker # <<>> /\ toWorker \in Seq(Nat) /\ toWorker' = Tail(toWorker)
      /\ unacked \in Nat /\ unacked' = Remaining(Head(toWorker))
      /\ waiting' \in BOOLEAN
      /\ UNCHANGED <<read, held, reader, posted, page>>
  BY DEF Acknowledge
<1>2. /\ Head(toWorker) \in Nat /\ Tail(toWorker) \in Seq(Nat)
      /\ Sum(Tail(toWorker)) \in Nat /\ Sum(toWorker) = Head(toWorker) + Sum(Tail(toWorker))
      /\ \A i \in DOMAIN Tail(toWorker) : i + 1 \in DOMAIN toWorker
                                            /\ Tail(toWorker)[i] = toWorker[i + 1]
  BY <1>1, Queue
<1>3. Sum(posted) \in Nat
  <2>1. posted \in Seq(Nat)
    OBVIOUS
  <2> QED
    BY <2>1, Queue
<1>4. OutputTypeOK'
  BY <1>1, <1>2, SMTT(30) DEF Remaining
<1>5. Credit'
  <2> SUFFICES ASSUME page = "open" PROVE Credit'
    BY <1>1 DEF Credit
  <2>1. unacked = Sum(posted) + Sum(toWorker)
    BY DEF Credit
  <2>2. unacked' = Sum(posted) + Sum(Tail(toWorker))
    <3>1. ASSUME NEW p \in Nat, NEW h \in Nat, NEW t \in Nat
          PROVE  ~(h > p + (h + t)) /\ (p + (h + t)) - h = p + t
      OBVIOUS
    <3>2. unacked = Sum(posted) + (Head(toWorker) + Sum(Tail(toWorker)))
      BY ONLY <1>2, <2>1
    <3>3. Remaining(Head(toWorker)) = Sum(posted) + Sum(Tail(toWorker))
      BY ONLY <1>2, <1>3, <3>1, <3>2 DEF Remaining
    <3> QED
      BY ONLY <1>1, <3>3
  <2> QED
    BY <1>1, <1>2, <2>2 DEF Credit
<1>6. OneAboveTheMark'
  BY <1>1 DEF OneAboveTheMark
<1> QED
  BY <1>4, <1>5, <1>6

LEMMA RenderStep ==
  ASSUME OutputInv, Render
  PROVE  OutputInv'
<1> USE DEF OutputInv, OutputTypeOK
<1>1. /\ posted # <<>> /\ posted' = Tail(posted)
      /\ toWorker' = IF page = "open" THEN Append(toWorker, Head(posted)) ELSE toWorker
      /\ UNCHANGED <<read, held, waiting, unacked, reader, page>>
  BY DEF Render
<1>2. /\ posted \in Seq(Nat) /\ posted' \in Seq(Nat \ {0})
      /\ Head(posted) \in Nat \ {0} /\ Len(Tail(posted)) = Len(posted) - 1
      /\ Len(posted) \in Nat
  BY <1>1
<1>3. /\ Sum(posted) = Head(posted) + Sum(posted') /\ Sum(posted') \in Nat
      /\ Sum(toWorker) \in Nat
      /\ Append(toWorker, Head(posted)) \in Seq(Nat)
      /\ Sum(Append(toWorker, Head(posted))) = Sum(toWorker) + Head(posted)
  BY <1>1, <1>2, Queue
<1>4. OutputTypeOK'
  BY <1>1, <1>2, <1>3
<1>5. Credit'
  <2> SUFFICES ASSUME page = "open" PROVE Credit'
    BY <1>1 DEF Credit
  <2>1. \A i \in DOMAIN toWorker' : toWorker'[i] # 0
    BY <1>1, <1>2 DEF Credit
  <2>2. unacked = Sum(posted') + Sum(toWorker')
    BY <1>1, <1>2, <1>3 DEF Credit
  <2> QED
    BY <1>1, <2>1, <2>2 DEF Credit
<1>6. OneAboveTheMark'
  <2>1. CASE Len(posted) = 1
    <3>1. posted' = <<>>
      <4>1. posted' \in Seq(Nat \ {0}) /\ Len(posted') = 0
        BY <1>1, <1>2, <2>1
      <4> QED
        BY ONLY <4>1
    <3> QED
      BY <3>1, SumEmpty, OutputAssumption DEF OneAboveTheMark
  <2>2. CASE page = "open" /\ Sum(posted) <= High
    BY <1>2, <1>3, <2>2, OutputAssumption, SMTT(30) DEF OneAboveTheMark
  <2>3. CASE page # "open"
    BY <1>1, <2>3 DEF OneAboveTheMark
  <2> QED
    BY <2>1, <2>2, <2>3 DEF OneAboveTheMark
<1> QED
  BY <1>4, <1>5, <1>6

LEMMA StepOutput == OutputInv /\ [OutputNext]_outputVars => OutputInv'
<1> SUFFICES ASSUME OutputInv, [OutputNext]_outputVars PROVE OutputInv'
  OBVIOUS
<1> USE DEF OutputInv, OutputTypeOK
<1>1. ASSUME NEW n \in Sizes, Read(n) PROVE OutputInv'
  BY <1>1, OutputAssumption DEF Read, Credit, OneAboveTheMark
<1>2. CASE WaitForCredit \/ ReaderEnds \/ Terminate
  BY <1>2 DEF WaitForCredit, ReaderEnds, Terminate, Credit, OneAboveTheMark
<1>3. CASE HandleStop
  <2>1. /\ toWorker # <<>> /\ toWorker' = Tail(toWorker) /\ unacked' = 0 /\ waiting' = FALSE
        /\ reader' \in {"reading", "aborted", "ended"}
        /\ UNCHANGED <<read, held, posted, page>>
    BY <1>3 DEF HandleStop, StillWaiting
  <2>2. toWorker' \in Seq(Nat) /\ {read, held, unacked}' \subseteq Nat
    BY <2>1
  <2>3. page # "open"
    <3>1. 1 \in DOMAIN toWorker /\ toWorker[1] = 0
      BY <1>3 DEF HandleStop
    <3> QED
      BY <3>1 DEF Credit
  <2>4. OutputTypeOK'
    BY ONLY <2>1, <2>2, OutputTypeOK DEF OutputTypeOK
  <2> QED
    BY <2>1, <2>3, <2>4 DEF Credit, OneAboveTheMark
<1>4. CASE Stop
  <2>1. toWorker' \in Seq(Nat)
    BY <1>4 DEF Stop
  <2> QED
    BY <1>4, <2>1 DEF Stop, Credit, OneAboveTheMark
<1>5. CASE UNCHANGED outputVars
  BY <1>5 DEF outputVars, Credit, OneAboveTheMark
<1> QED
  BY <1>1, <1>2, <1>3, <1>4, <1>5, PostStep, AcknowledgeStep, RenderStep DEF OutputNext

LEMMA InvAccounts == OutputInv => OutputAccounted
  BY DEF OutputInv, Credit, OneAboveTheMark, OutputAccounted

\* For all marks and sizes of chunks: while the client is open the credit of
\* the Worker is what the page has not yet acknowledged, and at most the high
\* mark or one block waits on the main thread (receiveLoop, acknowledgeOutput).
THEOREM CreditIsExact == OutputSpec => []OutputAccounted
  BY InitOutput, StepOutput, InvAccounts, PTL DEF OutputSpec
--------------------------------------------------------------------------------
(* advertiseSelf, resolveTarget                                                *)

\* A round of the listener published the identifiers of the epoch in which it
\* began, and it is over before its provides time out.
Round ==
  /\ listener # "stopped" => now <= due
  /\ listener = "providing" =>
       \E t \in 0 .. now : epoch = Epoch(t) /\ due = t + ProvideTime

\* While the last round counts as fresh its identifiers are in the DHT, and it
\* began no longer ago than an interval and the time of two rounds.
Recent ==
  fresh =>
    \E t \in 0 .. now :
      /\ Windows(Epoch(t)) \subseteq records
      /\ listener = "sleeping" => due <= t + ProvideTime + Interval
      /\ listener = "providing" => due <= t + 2 * ProvideTime + Interval
      /\ listener \in {"sleeping", "providing"}

\* Clocks are read when both show a time after the first interval.
Clocks == now >= 2 * Interval /\ (client = "searching" => now <= until)

RendezvousInv == RendezvousTypeOK /\ Clocks /\ Round /\ Recent /\ Meets

\* An epoch is an interval long.
LEMMA EpochLength ==
  ASSUME NEW t \in Int
  PROVE  Epoch(t) \in Int /\ Interval * Epoch(t) <= t /\ t < Interval * Epoch(t) + Interval
  BY RendezvousAssumption DEF Epoch

\* Times that are less than an interval apart in one direction and at most two
\* intervals in the other have a window in common.
LEMMA CommonWindow ==
  ASSUME NEW t \in Int, NEW x \in Int, t - Interval < x, x <= t + 2 * Interval
  PROVE  Windows(Epoch(x)) \intersect Windows(Epoch(t)) # {}
<1> DEFINE e == Epoch(t)
           f == Epoch(x)
<1>1. /\ e \in Int /\ Interval * e <= t /\ t < Interval * e + Interval
      /\ f \in Int /\ Interval * f <= x /\ x < Interval * f + Interval
      /\ Interval \in Nat \ {0}
  BY EpochLength, RendezvousAssumption
<1> HIDE DEF e, f
<1>2. ASSUME NEW d \in Int, Interval * d < 0 PROVE d < 0
  BY <1>1, <1>2
<1>3. /\ Interval * (f - e - 3) = Interval * f - Interval * e - 3 * Interval
      /\ Interval * (e - f - 2) = Interval * e - Interval * f - 2 * Interval
      /\ Interval * f \in Int /\ Interval * e \in Int
      /\ f - e - 3 \in Int /\ e - f - 2 \in Int
  BY <1>1
<1>4. Interval * (f - e - 3) < 0 /\ Interval * (e - f - 2) < 0
  BY <1>1, <1>3
<1>5. f - e - 3 < 0 /\ e - f - 2 < 0
  BY <1>2, <1>3, <1>4
<1>6. f \in {e - 1, e, e + 1, e + 2}
  BY <1>1, <1>5
<1>7. f \in {e - 1, e, e + 1} \/ f - 1 = e + 1
  BY <1>1, <1>6
<1>8. {f - 1, f, f + 1} \intersect {e - 1, e, e + 1} # {}
  BY <1>7
<1> QED
  BY <1>8 DEF Windows, e, f
LEMMA InitRendezvous == RendezvousInit => RendezvousInv
<1> SUFFICES ASSUME RendezvousInit PROVE RendezvousInv
  OBVIOUS
<1>1. /\ Interval \in Nat \ {0} /\ ProvideTime \in Nat \ {0} /\ MaxTime \in Nat
      /\ now = 2 * Interval /\ now \in 0 .. MaxTime /\ due = now + ProvideTime
      /\ epoch = Epoch(now) /\ listener = "providing" /\ until = 0
  BY RendezvousAssumption DEF RendezvousInit
<1>2. epoch \in Nat
  <2>1. epoch \in Int /\ 2 * Interval < Interval * epoch + Interval
    BY <1>1, EpochLength
  <2> QED
    BY <1>1, <2>1
<1>3. RendezvousTypeOK
  <2>1. {due, until} \subseteq Nat
    BY <1>1
  <2>2. fresh = FALSE /\ missed = FALSE /\ records = {} /\ client = "idle"
        /\ skew \in -MaxSkew .. MaxSkew
    BY DEF RendezvousInit
  <2>3. records \subseteq Int
    BY <2>2
  <2> QED
    BY <1>1, <1>2, <2>1, <2>2, <2>3 DEF RendezvousTypeOK
<1>4. Round
  BY <1>1 DEF Round
<1> QED
  BY <1>1, <1>3, <1>4 DEF RendezvousInit, RendezvousInv, Clocks, Recent, Meets

\* The epoch of a time on the listener's clock.
LEMMA EpochType ==
  ASSUME NEW t \in Nat
  PROVE  Epoch(t) \in Nat
<1>1. /\ Epoch(t) \in Int /\ t < Interval * Epoch(t) + Interval
      /\ Interval \in Nat \ {0}
  BY EpochLength, RendezvousAssumption
<1>2. Interval * (Epoch(t) + 1) = Interval * Epoch(t) + Interval
  BY <1>1
<1>3. Interval * (Epoch(t) + 1) > 0
  BY <1>1, <1>2
<1> QED
  BY <1>1, <1>3

LEMMA TickStep ==
  ASSUME RendezvousInv, Tick
  PROVE  RendezvousInv'
<1> USE DEF RendezvousInv, RendezvousTypeOK
<1>1. /\ now < MaxTime /\ now' = now + 1 /\ now \in Nat /\ due \in Nat /\ until \in Nat
      /\ listener # "stopped" => now < due
      /\ client = "searching" => now < until
      /\ UNCHANGED <<skew, listener, epoch, due, fresh, records, client, until, missed>>
      /\ now' \in 0 .. MaxTime /\ MaxTime \in Nat
  BY RendezvousAssumption DEF Tick
<1>2. RendezvousTypeOK'
  BY <1>1
<1>3. Clocks'
  BY <1>1, RendezvousAssumption DEF Clocks
<1>4. \A t \in 0 .. now : t \in 0 .. now'
  BY <1>1
<1>5. Round'
  <2>1. listener' # "stopped" => now' <= due'
    BY <1>1
  <2>2. listener' = "providing" =>
          \E t \in 0 .. now' : epoch' = Epoch(t) /\ due' = t + ProvideTime
    BY <1>1, <1>4 DEF Round
  <2> QED
    BY <2>1, <2>2 DEF Round, Epoch
<1>6. Recent'
  <2> SUFFICES ASSUME fresh
               PROVE  \E t \in 0 .. now' :
                        /\ Windows(Epoch(t)) \subseteq records
                        /\ listener = "sleeping" => due <= t + ProvideTime + Interval
                        /\ listener = "providing" => due <= t + 2 * ProvideTime + Interval
                        /\ listener \in {"sleeping", "providing"}
    BY <1>1 DEF Recent, Windows, Epoch
  <2> QED
    BY <1>4 DEF Recent
<1>7. Meets'
  BY <1>1 DEF Meets
<1> QED
  BY <1>2, <1>3, <1>5, <1>6, <1>7

\* The listener publishes, fails, begins again or stops.
LEMMA ListenerStep ==
  ASSUME RendezvousInv, Published \/ PublishFails \/ PublishAgain \/ ListenerStops
  PROVE  RendezvousInv'
<1> USE DEF RendezvousInv, RendezvousTypeOK
<1>1. /\ now \in 0 .. MaxTime /\ now \in Nat /\ due \in Nat /\ epoch \in Nat /\ MaxTime \in Nat
      /\ Interval \in Nat \ {0} /\ ProvideTime \in Nat \ {0} /\ Retry \in Nat \ {0}
      /\ UNCHANGED <<now, skew, client, until, missed>>
  BY RendezvousAssumption DEF Published, PublishFails, PublishAgain, ListenerStops
<1>2. Clocks' /\ Meets'
  BY <1>1 DEF Clocks, Meets
<1>3. Windows(epoch) \subseteq Int
  BY <1>1 DEF Windows
<1>4. CASE Published
  <2>1. /\ listener = "providing" /\ listener' = "sleeping" /\ due' = now + Interval
        /\ records' = records \union Windows(epoch) /\ fresh' = TRUE /\ epoch' = epoch
    BY <1>4 DEF Published
  <2>2. RendezvousTypeOK'
    <3>1. records' \subseteq Int
      BY <1>3, <2>1
    <3>2. {due, until}' \subseteq Nat /\ epoch' \in Nat /\ now' \in 0 .. MaxTime
      BY <1>1, <2>1
    <3> QED
      BY <1>1, <2>1, <3>1, <3>2
  <2>3. Round'
    BY <1>1, <2>1 DEF Round
  <2>4. PICK t \in 0 .. now : epoch = Epoch(t) /\ due = t + ProvideTime
    BY <2>1 DEF Round
  <2>5. now <= due
    BY <2>1 DEF Round
  <2>6. due' <= t + ProvideTime + Interval /\ t \in 0 .. now' /\ Windows(Epoch(t)) \subseteq records'
    BY <1>1, <2>1, <2>4, <2>5
  <2>7. Recent'
    BY <2>1, <2>6 DEF Recent, Windows, Epoch
  <2> QED
    BY <1>2, <2>2, <2>3, <2>7
<1>5. CASE PublishFails
  <2>1. /\ listener' = "retrying" /\ due' = now + Retry /\ fresh' = FALSE /\ epoch' = epoch
        /\ records' \in {records, records \union Windows(epoch)}
    BY <1>5 DEF PublishFails
  <2>2. RendezvousTypeOK'
    <3>1. records' \subseteq Int
      BY <1>3, <2>1
    <3>2. {due, until}' \subseteq Nat /\ epoch' \in Nat /\ now' \in 0 .. MaxTime
      BY <1>1, <2>1
    <3> QED
      BY <1>1, <2>1, <3>1, <3>2
  <2>3. Round' /\ Recent'
    BY <1>1, <2>1 DEF Round, Recent
  <2> QED
    BY <1>2, <2>2, <2>3
<1>6. CASE PublishAgain
  <2>1. /\ listener \in {"sleeping", "retrying"} /\ now = due /\ listener' = "providing"
        /\ epoch' = Epoch(now) /\ due' = now + ProvideTime
        /\ UNCHANGED <<fresh, records>>
    BY <1>6 DEF PublishAgain
  <2>2. RendezvousTypeOK'
    BY <1>1, <2>1, EpochType
  <2>3. Round'
    <3>1. epoch' = Epoch(now) /\ due' = now + ProvideTime /\ now \in 0 .. now' /\ now' <= due'
      BY <1>1, <2>1
    <3> QED
      BY <2>1, <3>1 DEF Round, Epoch
  <2>4. Recent'
    <3> SUFFICES ASSUME fresh
                 PROVE  \E t \in 0 .. now :
                          /\ Windows(Epoch(t)) \subseteq records
                          /\ due' <= t + 2 * ProvideTime + Interval
      BY <1>1, <2>1 DEF Recent, Windows, Epoch
    <3>1. PICK t \in 0 .. now :
            /\ Windows(Epoch(t)) \subseteq records
            /\ listener = "sleeping" => due <= t + ProvideTime + Interval
            /\ listener \in {"sleeping", "providing"}
      BY DEF Recent
    <3>2. due' <= t + 2 * ProvideTime + Interval
      BY <1>1, <2>1, <3>1
    <3> QED
      BY <3>1, <3>2
  <2> QED
    BY <1>2, <2>2, <2>3, <2>4
<1>7. CASE ListenerStops
  <2>1. /\ listener' = "stopped" /\ fresh' = FALSE /\ UNCHANGED <<epoch, due, records>>
    BY <1>7 DEF ListenerStops
  <2> QED
    BY <1>1, <1>2, <2>1 DEF Round, Recent
<1> QED
  BY <1>4, <1>5, <1>6, <1>7

\* A lookup of a client that is not too far ahead of a fresh round succeeds.
LEMMA FreshIsFound ==
  ASSUME RendezvousInv, fresh, skew + 2 * ProvideTime <= Interval
  PROVE  Found
<1> USE DEF RendezvousInv, RendezvousTypeOK
<1>1. PICK t \in 0 .. now :
        /\ Windows(Epoch(t)) \subseteq records
        /\ listener = "sleeping" => due <= t + ProvideTime + Interval
        /\ listener = "providing" => due <= t + 2 * ProvideTime + Interval
        /\ listener \in {"sleeping", "providing"}
  BY DEF Recent
<1>2. /\ now \in Nat /\ t \in Nat /\ t <= now /\ due \in Nat /\ skew \in Int
      /\ -MaxSkew <= skew /\ MaxSkew \in Nat /\ MaxSkew < Interval
      /\ Interval \in Nat \ {0} /\ ProvideTime \in Nat \ {0}
  BY RendezvousAssumption
<1>3. now <= due
  BY <1>1 DEF Round
<1>4. now + skew \in Int /\ t - Interval < now + skew /\ now + skew <= t + 2 * Interval
  BY <1>1, <1>2, <1>3
<1>5. Windows(Epoch(now + skew)) \intersect Windows(Epoch(t)) # {}
  BY <1>2, <1>4, CommonWindow
<1> QED
  BY <1>1, <1>5 DEF Found

\* The client begins a search, looks up or gives up.
LEMMA SearchStep ==
  ASSUME RendezvousInv, Search \/ LookUp \/ GiveUp
  PROVE  RendezvousInv'
<1> USE DEF RendezvousInv, RendezvousTypeOK
<1>1. UNCHANGED <<now, skew, listener, epoch, due, fresh, records>>
  BY DEF Search, LookUp, GiveUp
<1>2. Round' /\ Recent'
  BY <1>1 DEF Round, Recent, Windows, Epoch
<1>3. now \in Nat /\ until \in Nat /\ Patience \in Nat
  BY RendezvousAssumption
<1>4. CASE Search
  BY <1>1, <1>2, <1>3, <1>4 DEF Search, Clocks, Meets
<1>5. CASE LookUp
  <2>1. /\ client = "searching" /\ client' \in {"found", client} /\ until' \in {0, until}
        /\ client' = "searching" => until' = until
        /\ missed' = (~Found /\ fresh)
    BY <1>5 DEF LookUp
  <2>2. missed' \in BOOLEAN
    BY <2>1
  <2>3. RendezvousTypeOK'
    BY <1>1, <1>3, <2>1, <2>2
  <2>4. Clocks'
    BY <1>1, <2>1 DEF Clocks
  <2>5. Meets'
    BY <1>1, <2>1, FreshIsFound DEF Meets
  <2> QED
    BY <1>2, <2>3, <2>4, <2>5
<1>6. CASE GiveUp
  BY <1>1, <1>2, <1>3, <1>6 DEF GiveUp, Clocks, Meets
<1> QED
  BY <1>4, <1>5, <1>6

LEMMA StepRendezvous == RendezvousInv /\ [RendezvousNext]_rendezvousVars => RendezvousInv'
<1> SUFFICES ASSUME RendezvousInv, [RendezvousNext]_rendezvousVars PROVE RendezvousInv'
  OBVIOUS
<1>1. CASE RendezvousNext
  BY <1>1, TickStep, ListenerStep, SearchStep DEF RendezvousNext
<1>2. CASE UNCHANGED rendezvousVars
  BY <1>2 DEF rendezvousVars, RendezvousInv, RendezvousTypeOK, Clocks, Round, Recent, Meets,
              Windows, Epoch
<1> QED
  BY <1>1, <1>2

\* For all intervals, and clocks that differ by less than one: as long as the
\* last round of the listener succeeded no lookup misses it, unless the client
\* is further ahead than an interval less two rounds (advertiseSelf,
\* pairingRendezvousWindows, resolveTarget).
THEOREM LookupsMeet == RendezvousSpec => []Meets
<1>1. RendezvousInv => Meets
  BY DEF RendezvousInv
<1> QED
  BY InitRendezvous, StepRendezvous, <1>1, PTL DEF RendezvousSpec

--------------------------------------------------------------------------------
\* The three together, as the runs check them: every component is well typed,
\* and the credit of the Worker is never negative.
THEOREM BrowserTypesOK == MCSpec => []TypesOK
<1> DEFINE Inv == OutputInv /\ IInv /\ RendezvousInv
<1>1. MCInit => Inv
  BY InitOutput, InitIInv, InitRendezvous DEF MCInit, idleClient, idleRendezvous
<1>2. Inv /\ [MCNext]_mcVars => Inv'
  <2> SUFFICES ASSUME Inv, [MCNext]_mcVars PROVE Inv'
    OBVIOUS
  <2>1. [OutputNext]_outputVars /\ [ClientNext]_clientVars /\ [RendezvousNext]_rendezvousVars
    BY DEF MCNext, mcVars
  <2> QED
    BY <2>1, StepOutput, NextIInv, StepRendezvous
<1>3. Inv => TypesOK
  BY DEF OutputInv, IInv, RendezvousInv, TypesOK
<1> HIDE DEF Inv
<1> QED
  BY <1>1, <1>2, <1>3, PTL DEF MCSpec
=============================================================================
