------------------------------ MODULE Signaling ------------------------------
(* What a signaling session promises to the endpoint that subscribes to it,  *)
(* whatever relays and trackers do: it hands over only signals that somebody *)
(* sent, that are addressed to this peer and whose time stamp is acceptable  *)
(* now, and the signals in Once at most once. Nothing is promised to arrive. *)
(* NostrSession and TorrentSession implement it.                             *)
EXTENDS Naturals

CONSTANTS
  Signals,   \* all signals
  Ours,      \* a subset of Signals: those this peer may be given
  Once       \* those the endpoint is given at most once

VARIABLES
  sent,      \* the signals that were sent
  valid,     \* the signals whose time stamp is within the accepted distance
  got        \* how often each signal was handed to the subscribers

vars == <<sent, valid, got>>

Init == sent = {} /\ valid = {} /\ got = [s \in Signals |-> 0]

Send(s) ==
  /\ s \notin sent
  /\ sent' = sent \union {s}
  /\ valid' \in SUBSET sent'
  /\ UNCHANGED got

TimePasses == valid' \in SUBSET sent /\ UNCHANGED <<sent, got>>

Deliver(s) ==
  /\ s \in Ours \intersect valid
  /\ s \in Once => got[s] = 0
  /\ got' = [got EXCEPT ![s] = @ + 1]
  /\ UNCHANGED <<sent, valid>>

Next == TimePasses \/ \E s \in Signals : Send(s) \/ Deliver(s)

Spec == Init /\ [][Next]_vars
=============================================================================
