----------------------------- MODULE MCTransportStack -----------------------------
(* TransportStack on a small instance: two connections come, one is dialled. *)
EXTENDS TransportStack

\* Two layers with futures of their own, as in the chain of the examples; the
\* bare transports under layers that only pass on, map or wrap.
MCStacks ==
    { <<"tcp", "and_then", "with_upgrade">>,
      <<"ws", "map_err", "map">>,
      <<"quic", "and_then", "boxed">> }
=============================================================================
