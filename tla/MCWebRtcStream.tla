--------------------------- MODULE MCWebRtcStream ---------------------------
(* Instances of WebRtcStream for TLC.  The window is 2 bytes; chunk 2 is     *)
(* larger than the window, the others are not.                               *)
EXTENDS WebRtcStream

MCSizeOf == [n \in 1 .. MaxChunks |-> IF n = 2 THEN 3 ELSE 1]
MCServerSends == [client |-> 0, server |-> 3]
MCServerSendsTwo == [client |-> 0, server |-> 2]
=============================================================================
