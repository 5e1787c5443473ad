-------------------------- MODULE MCConnectionUpgrade --------------------------
(* ConnectionUpgrade on a small instance. *)
EXTENDS ConnectionUpgrade

Identify(names) == [kind |-> "identify", offers |-> <<"/v1/identify">>, supports |-> names]
Upgrade(k, offers, names) == [kind |-> k, offers |-> offers, supports |-> names]

Both == {"/v1/muxing", "/v1/yamux"}
Id == {"/v1/identify"}
MCName == Both \cup Id \cup {"/r", "/q"}

\* The chain of the examples, with a ready stage between, with a choice of
\* muxers, and with listeners that refuse a stage or support at one stage what
\* is offered at another.
MCPipelines ==
    { <<Identify(Id), Upgrade("mux", <<"/v1/muxing">>, Both)>>,
      <<Identify({}), Upgrade("mux", <<"/v1/muxing">>, Both)>>,
      <<Identify(Id), Upgrade("ready", <<"/r">>, {"/r"}),
        Upgrade("mux", <<"/v1/yamux", "/v1/muxing">>, {"/v1/muxing"})>>,
      <<Identify(Id), Upgrade("mux", <<"/v1/yamux", "/v1/muxing">>, Both)>>,
      <<Identify(Id), Upgrade("ready", <<"/r">>, {"/v1/muxing"}),
        Upgrade("mux", <<"/v1/muxing">>, Both)>>,
      <<Identify(Id), Upgrade("ready", <<"/r">>, {"/r"}),
        Upgrade("ready", <<"/q", "/r">>, {"/r"}),
        Upgrade("mux", <<"/v1/muxing">>, Both \cup {"/r"})>>,
      <<Identify(Id), Upgrade("ready", <<"/v1/muxing">>, {}),
        Upgrade("mux", <<"/v1/muxing">>, {"/v1/yamux"})>> }
=============================================================================
