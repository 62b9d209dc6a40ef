------------------------- MODULE MCWebSocketSession -------------------------
(* WebSocketSession on a small instance.                                   *)
EXTENDS WebSocketSession

MCMessages == {"request", "fatal", "long"}
=============================================================================
