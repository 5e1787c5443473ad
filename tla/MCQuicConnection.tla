--------------------------- MODULE MCQuicConnection ---------------------------
(* QuicConnection on small instances: see the configurations. *)
EXTENDS QuicConnection
=============================================================================
