--------------------------- MODULE MCPauseBridge ---------------------------
(* PauseBridge for TLC: a client with a few requests, a few core stops.     *)
EXTENDS PauseBridge

\* The threads may stop only when the client has sent its last request.
Requests == 5
Stops == 4
=============================================================================
