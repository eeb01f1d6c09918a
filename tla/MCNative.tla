------------------------------- MODULE MCNative -------------------------------
(* Instances of NativeListener and NativePeer for TLC. Each behaviour runs   *)
(* one of them and keeps the other in an initial state.                      *)
EXTENDS NativeListener, TLC

CONSTANTS a1, a2, b1, alice, bob, MaxChanges

ASSUME ChangesAssumption == MaxChanges \in Nat

MCClientOf == (a1 :> alice) @@ (a2 :> alice) @@ (b1 :> bob)

VARIABLES which, initiator, trickle, local, remote, queue, adding, added, arrived,
          connection, ice, changes, timer, channel, opening, closed, ended

peerVars == <<initiator, trickle, local, remote, queue, adding, added, arrived,
              connection, ice, changes, timer, channel, opening, closed, ended>>
mcVars == <<which, vars, peerVars>>

Peer == INSTANCE NativePeer

MCInit ==
  /\ which \in {"listener", "peer"} /\ Init /\ Peer!Init
  /\ which = "listener" => initiator /\ trickle

MCNext ==
  /\ UNCHANGED which
  /\ \/ which = "listener" /\ Next /\ UNCHANGED peerVars
     \/ which = "peer" /\ Peer!Next /\ UNCHANGED vars

MCSpec == MCInit /\ [][MCNext]_mcVars

\* The types of the listener and of the peer.
TypesOK == TypeOK /\ Peer!TypeOK

\* A remote candidate is lost neither by the listener before its offer is
\* answered, nor by the peer before its remote description is set
\* (NativeListener!NoCandidateLost, NativePeer!CandidateReachesConnection).
CandidatesKept == NoCandidateLost /\ Peer!CandidateReachesConnection

\* A disconnected peer waits with a timer, and no other (NativePeer).
WaitsWhileDisconnected == Peer!WaitsWhileDisconnected
=============================================================================
