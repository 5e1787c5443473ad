---------------------------- MODULE QuicConnection ----------------------------
(***************************************************************************)
(* The StreamMuxer of airio-quic (connection.rs): Connecting, a handshake  *)
(* against a timeout, and Connection, whose poll_inbound, poll_outbound    *)
(* and poll_close each keep a boxed future of quinn between calls.  The    *)
(* quinn connection and its peer are the environment.                      *)
(***************************************************************************)
EXTENDS Naturals, Sequences

CONSTANT MaxStreams   \* bound: streams the remote opens, and lets be opened

ASSUME StreamsAssumption == MaxStreams \in Nat

Call == {"inbound", "outbound", "close"}

VARIABLES
    handshake,  \* of quinn: "pending", "done" or "failed"
    expired,    \* the Delay has fired
    outcome,    \* of Connecting: "none", "connected", "failed" or "timedOut"
    conn,       \* the quinn connection: "open" or "lost"
    queue,      \* streams opened by the remote that quinn has not handed out
    arrived,    \* how many it has opened
    permits,    \* how many streams may still be opened
    slot,       \* slot[c]: the stored future: "None", "waiting" or "completed"
    accepted,   \* streams poll_inbound has returned
    errors,     \* the calls that have returned an error
    panic       \* a completed future has been polled again

vars == <<handshake, expired, outcome, conn, queue, arrived, permits, slot,
          accepted, errors, panic>>
connecting == <<handshake, expired, outcome>>
remote == <<conn, arrived>>

\* The future that stays in its slot once it has completed is one that found
\* the connection lost.
TypeOK ==
    /\ handshake \in {"pending", "done", "failed"} /\ expired \in BOOLEAN
    /\ outcome \in {"none", "connected", "failed", "timedOut"}
    /\ conn \in {"open", "lost"}
    /\ arrived \in 0..MaxStreams /\ permits \in 0..MaxStreams
    /\ queue \in Seq(1..MaxStreams) /\ accepted \in Seq(1..MaxStreams)
    /\ slot \in [Call -> {"None", "waiting", "completed"}]
    /\ \A c \in Call : slot[c] = "completed" => conn = "lost"
    /\ errors \subseteq Call /\ panic \in BOOLEAN

Init ==
    /\ handshake = "pending" /\ expired = FALSE /\ outcome = "none"
    /\ conn = "open" /\ queue = <<>> /\ arrived = 0 /\ permits = 0
    /\ slot = [c \in Call |-> "None"]
    /\ accepted = <<>> /\ errors = {} /\ panic = FALSE

-----------------------------------------------------------------------------
(* quinn, the timer and the remote. *)

Handshake ==
    /\ handshake = "pending"
    /\ handshake' \in {"done", "failed"}
    /\ UNCHANGED <<expired, outcome, remote, queue, permits, slot, accepted, errors,
                   panic>>

Expire ==
    /\ ~expired
    /\ expired' = TRUE
    /\ UNCHANGED <<handshake, outcome, remote, queue, permits, slot, accepted,
                   errors, panic>>

RemoteOpens ==
    /\ outcome = "connected" /\ conn = "open" /\ arrived < MaxStreams
    /\ arrived' = arrived + 1
    /\ queue' = Append(queue, arrived + 1)
    /\ UNCHANGED <<connecting, conn, permits, slot, accepted, errors, panic>>

RemotePermits ==
    /\ outcome = "connected" /\ conn = "open" /\ permits < MaxStreams
    /\ permits' = permits + 1
    /\ UNCHANGED <<connecting, remote, queue, slot, accepted, errors, panic>>

\* Closed by the remote, reset or idle for too long.  Nothing in the crate
\* closes a connection: LocallyClosed is never the reason.
Lose ==
    /\ outcome = "connected" /\ conn = "open"
    /\ conn' = "lost"
    /\ UNCHANGED <<connecting, arrived, queue, permits, slot, accepted, errors, panic>>

-----------------------------------------------------------------------------
(* Connecting::poll: select polls the handshake first, then the timer. *)

\* Mutant of PollConnecting: the timer is not polled.
PollHandshake ==
    /\ outcome = "none" /\ handshake # "pending"
    /\ outcome' = IF handshake = "done" THEN "connected" ELSE "failed"
    /\ UNCHANGED <<handshake, expired, remote, queue, permits, slot, accepted, errors,
                   panic>>

PollConnecting ==
    /\ outcome = "none"
    /\ \/ handshake = "done" /\ outcome' = "connected"
       \/ handshake = "failed" /\ outcome' = "failed"
       \/ handshake = "pending" /\ expired /\ outcome' = "timedOut"
    /\ UNCHANGED <<handshake, expired, remote, queue, permits, slot, accepted, errors,
                   panic>>

-----------------------------------------------------------------------------
(* Connection. *)

Callable == outcome = "connected" /\ ~panic
Set(c, v) == slot' = [slot EXCEPT ![c] = v]

\* get_or_insert_with finds the future of an earlier call, if there is one, and
\* an async block that has completed panics when it is polled.
Resume(c) ==
    /\ Callable /\ slot[c] = "completed"
    /\ panic' = TRUE
    /\ UNCHANGED <<connecting, remote, queue, permits, slot, accepted, errors>>

\* The future completes with an error: `?` returns before the take().
CallFails(c) ==
    /\ Set(c, "completed")
    /\ errors' = errors \cup {c}
    /\ UNCHANGED <<queue, permits, accepted>>

CallWaits(c) ==
    /\ Set(c, "waiting")
    /\ UNCHANGED <<queue, permits, accepted, errors>>

\* Mutants of PollInbound: the future is left in its slot, or waits for ever.
PollInboundKeeps ==
    /\ Callable /\ slot["inbound"] # "completed" /\ queue # <<>>
    /\ accepted' = Append(accepted, Head(queue)) /\ queue' = Tail(queue)
    /\ Set("inbound", "completed")
    /\ UNCHANGED <<connecting, remote, permits, errors, panic>>
PollInboundOnce ==
    /\ Callable /\ slot["inbound"] = "None" /\ queue # <<>>
    /\ accepted' = Append(accepted, Head(queue)) /\ queue' = Tail(queue)
    /\ Set("inbound", "waiting")
    /\ UNCHANGED <<connecting, remote, permits, errors, panic>>

PollInbound ==
    /\ Callable /\ slot["inbound"] # "completed"
    /\ \/ /\ queue # <<>>
          /\ accepted' = Append(accepted, Head(queue)) /\ queue' = Tail(queue)
          /\ Set("inbound", "None")
          /\ UNCHANGED <<permits, errors>>
       \/ queue = <<>> /\ conn = "lost" /\ CallFails("inbound")
       \/ queue = <<>> /\ conn = "open" /\ CallWaits("inbound")
    /\ UNCHANGED <<connecting, remote, panic>>

\* Mutant of PollOutbound: the future that has opened a stream stays in its slot.
PollOutboundKeeps ==
    /\ Callable /\ slot["outbound"] # "completed"
    /\ conn = "open" /\ permits > 0
    /\ permits' = permits - 1
    /\ Set("outbound", "completed")
    /\ UNCHANGED <<connecting, remote, queue, accepted, errors, panic>>

PollOutbound ==
    /\ Callable /\ slot["outbound"] # "completed"
    /\ \/ conn = "lost" /\ CallFails("outbound")
       \/ /\ conn = "open" /\ permits > 0
          /\ permits' = permits - 1
          /\ Set("outbound", "None")
          /\ UNCHANGED <<queue, accepted, errors>>
       \/ conn = "open" /\ permits = 0 /\ CallWaits("outbound")
    /\ UNCHANGED <<connecting, remote, panic>>

\* The stored future is connection.closed(): it waits for the connection to
\* be closed, and is never taken out of its slot.
PollClose ==
    /\ Callable /\ slot["close"] # "completed"
    /\ \/ conn = "lost" /\ CallFails("close")
       \/ conn = "open" /\ CallWaits("close")
    /\ UNCHANGED <<connecting, remote, panic>>

-----------------------------------------------------------------------------

Next == Handshake \/ Expire \/ RemoteOpens \/ RemotePermits \/ Lose
        \/ PollConnecting \/ PollInbound \/ PollOutbound \/ PollClose
        \/ \E c \in Call : Resume(c)

Spec == Init /\ [][Next]_vars

\* Time passes, Connecting is polled, and the streams of a connection are
\* polled for.  Nothing is assumed of the remote.
FairSpec == Spec /\ WF_vars(Expire) /\ WF_vars(PollConnecting)
                 /\ WF_vars(PollInbound) /\ WF_vars(PollClose)

-----------------------------------------------------------------------------
(* Properties. *)

\* No sequence of calls on a connection panics before it has returned an error:
\* the future kept between two calls is never a completed one.
PanicsOnlyAfterError == panic => errors # {}

\* Connecting ends, whatever the remote does.
ConnectingEnds == <>(outcome # "none")

\* A stream the remote has opened is handed to an application that polls for
\* it, also when it arrived before the call or the connection is lost since.
StreamsServed ==
    \A n \in 1..MaxStreams :
        arrived >= n ~> (panic \/ Len(accepted) >= n)

\* "清除 incoming，以便下次调用 poll_inbound 时重新创建": the future is cleared
\* so that the next call creates a new one.  No call polls a completed future.
NeverResumed == ~panic

\* "创建一个关闭连接的 Future": the future poll_close creates closes the
\* connection.
CloseCloses == slot["close"] = "waiting" ~> conn = "lost" \/ panic
=============================================================================
