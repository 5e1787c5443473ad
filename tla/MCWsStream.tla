------------------------------ MODULE MCWsStream ------------------------------
(* WsStream on a small instance. *)
EXTENDS WsStream
=============================================================================
