------------------------------ MODULE MCBrowser ------------------------------
(* The browser client for TLC: its transports, the credit between Worker and *)
(* page, and the rendezvous through which it (and the command line client)   *)
(* finds the listener. The first state chooses the one a behaviour is about. *)
EXTENDS WorkerOutput, BrowserClient, Rendezvous

VARIABLE which

mcVars == <<which, outputVars, clientVars, rendezvousVars>>

idleClient == ClientInit /\ ~relay /\ ~token
idleRendezvous == RendezvousInit /\ skew = 0

MCInit ==
  /\ which \in {"output", "client", "rendezvous"}
  /\ OutputInit
  /\ IF which = "client" THEN ClientInit ELSE idleClient
  /\ IF which = "rendezvous" THEN RendezvousInit ELSE idleRendezvous

MCNext ==
  /\ UNCHANGED which
  /\ \/ which = "output" /\ OutputNext /\ UNCHANGED <<clientVars, rendezvousVars>>
     \/ which = "client" /\ ClientNext /\ UNCHANGED <<outputVars, rendezvousVars>>
     \/ which = "rendezvous" /\ RendezvousNext /\ UNCHANGED <<outputVars, clientVars>>

MCSpec == MCInit /\ [][MCNext]_mcVars /\ OutputFairness /\ ClientFairness

--------------------------------------------------------------------------------
\* The state of every component is well typed; the credit is never negative.
TypesOK == OutputTypeOK /\ ClientTypeOK /\ RendezvousTypeOK

\* Nothing waits for ever: a chunk for its credit, a connect for its timers, a
\* stopped client for what it has to let go of.
EverythingSettles == OutputFlows /\ ClientLetsGo
=============================================================================
