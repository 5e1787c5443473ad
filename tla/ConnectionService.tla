---------------------------- MODULE ConnectionService ----------------------------
(***************************************************************************)
(* What a transport promises the application that listens and dials.       *)
(* Connections are offered in the order in which they came, each once,     *)
(* behind the announcement of the address if the transport makes one.  An  *)
(* error takes at most one connection with it and does not end the         *)
(* listener.  A connection is made in stages: it is ready when the other   *)
(* end has agreed to all of them, and fails at the first one that fails.   *)
(***************************************************************************)
EXTENDS Naturals, Sequences

CONSTANTS Inbound, Outbound   \* the connections accepted, and those dialled

VARIABLES
    announces,  \* the transport announces its address first
    backlog,    \* connections that have come and are not offered yet
    events,     \* what the application has been told: "listened", "error", a connection
    verdict,    \* verdict[c][k]: the other end on stage k: "none", "ok" or "err"
    outcome     \* <<"idle">>, <<"queued">>, <<"refused">>, <<"pending">>,
                \* <<"connected">> or <<"failed", stage>>

vars == <<announces, backlog, events, verdict, outcome>>

Init ==
    /\ announces \in BOOLEAN
    /\ backlog = <<>> /\ events = <<>>
    /\ outcome = [c \in Inbound \cup Outbound |-> <<"idle">>]

Become(c, result) == outcome' = [outcome EXCEPT ![c] = result]
Reached(c, k) == \A i \in DOMAIN verdict[c] : i < k => verdict[c][i] = "ok"

Announce ==
    /\ announces /\ events = <<>>
    /\ events' = <<"listened">>
    /\ UNCHANGED <<announces, backlog, verdict, outcome>>

Come(c) ==
    /\ outcome[c] = <<"idle">>
    /\ backlog' = Append(backlog, c)
    /\ Become(c, <<"queued">>)
    /\ UNCHANGED <<announces, events, verdict>>

Open == announces => events # <<>>

Offer ==
    /\ Open /\ backlog # <<>>
    /\ events' = Append(events, Head(backlog))
    /\ backlog' = Tail(backlog)
    /\ Become(Head(backlog), <<"pending">>)
    /\ UNCHANGED <<announces, verdict>>

\* An error of the listener, with or without a connection.
Report ==
    /\ Open
    /\ events' = Append(events, "error")
    /\ \/ UNCHANGED <<backlog, outcome>>
       \/ /\ backlog # <<>>
          /\ backlog' = Tail(backlog)
          /\ Become(Head(backlog), <<"refused">>)
    /\ UNCHANGED <<announces, verdict>>

Dial(c) ==
    /\ outcome[c] = <<"idle">>
    /\ Become(c, <<"pending">>) \/ Become(c, <<"failed", 1>>)
    /\ UNCHANGED <<announces, backlog, events, verdict>>

Decide(c) ==
    /\ \E k \in DOMAIN verdict[c], v \in {"ok", "err"} :
        /\ verdict[c][k] = "none"
        /\ verdict' = [verdict EXCEPT ![c][k] = v]
    /\ UNCHANGED <<announces, backlog, events, outcome>>

Connect(c) ==
    /\ outcome[c] = <<"pending">>
    /\ \A k \in DOMAIN verdict[c] : verdict[c][k] = "ok"
    /\ Become(c, <<"connected">>)
    /\ UNCHANGED <<announces, backlog, events, verdict>>

Fail(c) ==
    /\ outcome[c] = <<"pending">>
    /\ \E k \in DOMAIN verdict[c] :
        /\ verdict[c][k] = "err" /\ Reached(c, k)
        /\ Become(c, <<"failed", k>>)
    /\ UNCHANGED <<announces, backlog, events, verdict>>

Next ==
    \/ Announce \/ Offer \/ Report
    \/ \E c \in Inbound : Come(c)
    \/ \E c \in Outbound : Dial(c)
    \/ \E c \in Inbound \cup Outbound : Decide(c) \/ Connect(c) \/ Fail(c)

Spec == Init /\ [][Next]_vars
=============================================================================
