------------------------------ MODULE MCWsAuth ------------------------------
(* Model-checking instance of WsAuth. *)
EXTENDS WsAuth
=============================================================================
