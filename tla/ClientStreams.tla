---------------------------- MODULE ClientStreams ----------------------------
(* What a native listener promises the program above it: at most one stream  *)
(* per client, served by one connection of that client at a time. Another    *)
(* connection may take over only after the serving one was lost, and a       *)
(* listener that has stopped serves nobody and never begins again.           *)
CONSTANTS Connections, Clients, ClientOf, none, waiting

VARIABLES
  serving,   \* the connection that serves each client's stream, `waiting` for
             \* a stream that lost its connection, `none` without a stream
  stopped

vars == <<serving, stopped>>

Init == serving = [c \in Clients |-> none] /\ stopped = FALSE

Serve(k) ==
  /\ ~stopped
  /\ serving[ClientOf[k]] \notin Connections
  /\ serving' = [serving EXCEPT ![ClientOf[k]] = k]
  /\ UNCHANGED stopped

Lose(c) ==
  /\ serving[c] \in Connections
  /\ serving' = [serving EXCEPT ![c] = waiting]
  /\ UNCHANGED stopped

End(c) == serving' = [serving EXCEPT ![c] = none] /\ UNCHANGED stopped

Stop == stopped' = TRUE /\ serving' = [c \in Clients |-> none]

Next ==
  \/ Stop
  \/ \E k \in Connections : Serve(k)
  \/ \E c \in Clients : Lose(c) \/ End(c)

Spec == Init /\ [][Next]_vars
=============================================================================
