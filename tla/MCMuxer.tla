-------------------------------- MODULE MCMuxer --------------------------------
(* Muxer on a small instance: see the configuration. *)
EXTENDS Muxer
=============================================================================
