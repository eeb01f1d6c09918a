-------------------------- MODULE MCNativeReconnect --------------------------
(* Instances of NativeReconnect for TLC: two signaling sessions, as the CLI  *)
(* and the browser open, two or three attempts, and at most two peers of the *)
(* client at the listener, so that a third offer is refused.                 *)
EXTENDS NativeReconnect
=============================================================================
