---------------------------- MODULE MCSessionRace ----------------------------
(* Instances of SessionRace for TLC: one or two clients, so that streams of  *)
(* the same client and of different clients reach the listener together.     *)
EXTENDS SessionRace

CONSTANTS alice, bob
MCClients == {alice, bob}
MCClient == {alice}
=============================================================================
