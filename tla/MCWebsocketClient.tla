------------------------- MODULE MCWebsocketClient -------------------------
(* Model-checking instance of WebsocketClient. *)
EXTENDS WebsocketClient
=============================================================================
