--------------------------- MODULE MCWebSocketHub ---------------------------
(* Two connections to a hub that admits one.                               *)
EXTENDS WebSocketHub

CONSTANTS c1, c2
=============================================================================
