---------------------------- MODULE ForeignListener ----------------------------
(***************************************************************************)
(* The dialer of StreamSelect against a listener that is not this crate's: *)
(* it keeps to the framing, but may send any message or data at any time,  *)
(* answer another protocol than the one it was asked for, or hang up.      *)
(* wrote["listener"] and read["listener"] record its side of the stream.   *)
(***************************************************************************)
EXTENDS StreamSelect

ForeignSend ==
    /\ ~gone["listener"]
    /\ Len(wire["listener"]) < WireCap
    /\ Len(wrote["listener"]) < MaxWrites
    /\ \E t \in Message \cup {Chunk(Len(wrote["listener"]) + 1)} :
        /\ wire' = [wire EXCEPT !["listener"] = Append(@, t)]
        /\ wrote' = [wrote EXCEPT !["listener"] = Append(@, t)]
    /\ UNCHANGED <<setup, taken, answer, state, misframed, buf, closed, gone,
                   read, panic, faults>>

ForeignRead ==
    /\ ~gone["listener"]
    /\ Readable("listener")
    /\ read' = [read EXCEPT !["listener"] = Append(@, Next1("listener"))]
    /\ Consume("listener")
    /\ UNCHANGED <<setup, taken, answer, state, misframed, buf, closed, gone,
                   wrote, panic, faults>>

ForeignHangUp ==
    /\ ~gone["listener"]
    /\ Drop("listener")
    /\ UNCHANGED <<setup, taken, answer, state, misframed, wire, history,
                   panic, faults>>

DialerApp ==
    \/ ExpectingFlush \/ PollNegotiated \/ PollNegotiatedFails
    \/ AppWrite("dialer") \/ AppRead("dialer") \/ AppClose("dialer")
    \/ AppDrop("dialer")

ForeignNext ==
    \/ DialerStep \/ DialerApp
    \/ ForeignSend \/ ForeignRead \/ ForeignHangUp
    \/ Finished

ForeignSpec == Init /\ [][ForeignNext]_vars

-----------------------------------------------------------------------------

\* How many of its protocols the dialer has put on the stream.
Proposed == IF state["dialer"] = "SendProtocol" THEN taken - 1 ELSE taken

\* Whatever the peer answers, and when, it sees the dialer's list in order,
\* each protocol once, and application data only behind the last of them.
ProposalsInOrder ==
    ~gone["dialer"] =>
        read["listener"] \o wire["dialer"] \o buf["dialer"] =
            [i \in 1..Proposed |-> Proposal(offered[i])] \o wrote["dialer"]

\* The application of a completed stream reads everything that follows a frame
\* naming its protocol, and nothing that comes before it: no read buffer of
\* the negotiation swallows data that came along with the answer.
NothingSwallowed ==
    state["dialer"] = "Completed" =>
        \E k \in DOMAIN wrote["listener"] :
            /\ wrote["listener"][k] = Proposal(Current)
            /\ SubSeq(wrote["listener"], k + 1, Len(wrote["listener"])) =
                 read["dialer"] \o wire["listener"]
=============================================================================
