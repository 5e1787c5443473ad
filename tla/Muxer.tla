--------------------------------- MODULE Muxer ---------------------------------
(***************************************************************************)
(* Inbound substreams of a multiplexed connection (airio-muxing and        *)
(* airio-yamux).  Muxer::poll drives the connection and buffers the        *)
(* streams the remote opens; poll_inbound hands them to the application,   *)
(* and parks its waker when there is none.  The two crates differ in       *)
(* poll_inbound: airio-muxing also polls the connection itself.            *)
(*                                                                         *)
(* A task runs when it is in woken.  The connection (an external crate, as *)
(* used here) remembers the waker of the task that polled it last, and     *)
(* wakes it when something arrives.  The echo server of the examples gives *)
(* the streams to a second task, which serves one at a time, through a     *)
(* channel (of futures, an external crate) that it must not overfill.      *)
(***************************************************************************)
EXTENDS Naturals, Sequences

CONSTANTS
    MaxBuffered,    \* MAX_BUFFERED_INBOUND_STREAMS
    ChannelCap,     \* the argument of mpsc::channel in the echo server
    MaxStreams      \* bound: streams the remote opens

ASSUME MuxerAssumption ==
    MaxBuffered \in Nat \ {0} /\ ChannelCap \in Nat /\ MaxStreams \in Nat

VARIABLES
    use,            \* "yamux": airio-yamux, polled by two tasks; "muxing":
                    \* airio-muxing, by two; "echo": airio-muxing, by the one
                    \* task of the echo server (muxer_fut)
    arrived,        \* how many streams the remote has opened: 1..arrived
    queue,          \* those the connection has not yielded
    hungUp,         \* the connection is closed by the remote or has failed
    connWaker,      \* the task the connection wakes, or "none"
    buffer,         \* inbound_stream_buffer
    inboundWaker,   \* inbound_stream_waker
    woken,          \* the tasks the executor is to poll
    turn,           \* OneTask: which of the two calls the task is at
    busy,           \* two tasks: the acceptor is serving a stream
    ended,          \* the tasks that have been told of the end, or have panicked
    accepted,       \* streams handed to the application
    dropped,        \* streams refused because the buffer or the channel was full
    crashed,        \* echo: muxer_fut has panicked on a full channel
    server,         \* echo: the task of the connection is "waiting" for a stream,
                    \* "serving" one, or has "panicked" for want of a sender
    taken,          \* echo: how many streams it has taken from the channel
    peak            \* echo: the most streams that were open and not served

connection == <<arrived, queue, hungUp, peak>>
serve == <<server, taken>>
vars == <<use, arrived, queue, hungUp, connWaker, buffer, inboundWaker, woken,
          turn, busy, ended, accepted, dropped, crashed, server, taken, peak>>

Use == {"yamux", "muxing", "echo"}
DirectInbound == use # "yamux"
OneTask == use = "echo"

Task == {"acceptor", "driver"}
DriverTask == IF OneTask THEN "acceptor" ELSE "driver"
Streams == 1..MaxStreams
Channel == SubSeq(accepted, taken + 1, Len(accepted))

TypeOK ==
    /\ use \in Use
    /\ arrived \in 0..MaxStreams
    /\ queue \in Seq(Streams) /\ accepted \in Seq(Streams)
    /\ buffer \in Seq(Streams) /\ Len(buffer) <= MaxBuffered
    /\ hungUp \in BOOLEAN
    /\ connWaker \in Task \cup {"none"} /\ inboundWaker \in {"acceptor", "none"}
    /\ woken \subseteq Task /\ ended \subseteq Task
    /\ turn \in {"inbound", "poll"} /\ busy \in BOOLEAN
    /\ dropped \subseteq Streams
    /\ crashed \in BOOLEAN /\ server \in {"waiting", "serving", "panicked"}
    /\ taken \in 0..Len(accepted) /\ peak \in 0..MaxStreams
    /\ OneTask => Len(Channel) <= ChannelCap + 1

Init ==
    /\ use \in Use
    /\ arrived = 0 /\ queue = <<>> /\ hungUp = FALSE
    /\ connWaker = "none" /\ inboundWaker = "none"
    /\ buffer = <<>> /\ accepted = <<>> /\ dropped = {}
    /\ woken = {"acceptor", DriverTask} /\ ended = {}
    /\ turn = "inbound" /\ busy = FALSE
    /\ crashed = FALSE /\ server = "waiting" /\ taken = 0 /\ peak = 0

-----------------------------------------------------------------------------
(* The remote. *)

WakeConnection ==
    /\ woken' = woken \cup ({connWaker} \ {"none"})
    /\ connWaker' = "none"

\* Streams the server is done with, and those the remote has open.
Finished == IF server = "serving" THEN taken - 1 ELSE taken
Open == arrived - Finished

Arrive ==
    /\ ~hungUp /\ ~crashed /\ arrived < MaxStreams
    /\ arrived' = arrived + 1
    /\ peak' = IF OneTask /\ Open + 1 > peak THEN Open + 1 ELSE peak
    /\ queue' = Append(queue, arrived + 1)
    /\ WakeConnection
    /\ UNCHANGED <<hungUp, buffer, inboundWaker, turn, busy, ended, accepted,
                   dropped, crashed, serve>>

HangUp ==
    /\ ~hungUp
    /\ hungUp' = TRUE
    /\ WakeConnection
    /\ UNCHANGED <<arrived, queue, peak, buffer, inboundWaker, turn, busy, ended,
                   accepted, dropped, crashed, serve>>

-----------------------------------------------------------------------------
(* poll_inbound, called by the acceptor. *)

\* A task of its own goes off to serve the stream.
ToApplication(s) ==
    /\ ~OneTask
    /\ accepted' = Append(accepted, s)
    /\ busy' = TRUE
    /\ woken' = woken \ {"acceptor"}
    /\ UNCHANGED <<ended, dropped, crashed>>

\* The unwrap of try_send: muxer_fut panics, and the stream, the muxer and the
\* sender go with it.  The channel has a slot for the sender beside its buffer.
Overfill(s) ==
    /\ OneTask /\ Len(Channel) > ChannelCap
    /\ crashed' = TRUE
    /\ ended' = ended \cup {"acceptor"}
    /\ woken' = woken \ {"acceptor"}
    /\ dropped' = dropped \cup {s}
    /\ UNCHANGED <<accepted, busy>>

\* Mutants of HandOut: the single task returns Pending after a stream, or the
\* channel has no slot but its buffer.
HandOutSleeping(s) ==
    /\ \/ ToApplication(s) \/ Overfill(s)
       \/ /\ OneTask /\ Len(Channel) <= ChannelCap
          /\ accepted' = Append(accepted, s)
          /\ woken' = woken \ {"acceptor"}
          /\ UNCHANGED <<busy, ended, dropped, crashed>>
    /\ UNCHANGED <<connWaker, inboundWaker, turn, serve>>
HandOutTight(s) ==
    /\ \/ ToApplication(s)
       \/ /\ OneTask /\ Len(Channel) >= ChannelCap
          /\ crashed' = TRUE
          /\ ended' = ended \cup {"acceptor"}
          /\ woken' = woken \ {"acceptor"}
          /\ dropped' = dropped \cup {s}
          /\ UNCHANGED <<accepted, busy>>
       \/ /\ OneTask /\ Len(Channel) < ChannelCap
          /\ accepted' = Append(accepted, s)
          /\ UNCHANGED <<busy, woken, ended, dropped, crashed>>
    /\ UNCHANGED <<connWaker, inboundWaker, turn, serve>>

\* The application takes the stream; the single task of the echo server puts it
\* in the channel and wakes itself.
HandOut(s) ==
    /\ \/ ToApplication(s) \/ Overfill(s)
       \/ /\ OneTask /\ Len(Channel) <= ChannelCap
          /\ accepted' = Append(accepted, s)
          /\ UNCHANGED <<busy, woken, ended, dropped, crashed>>
    /\ UNCHANGED <<connWaker, inboundWaker, turn, serve>>

InboundBuffered ==
    /\ buffer # <<>>
    /\ HandOut(Head(buffer))
    /\ buffer' = Tail(buffer)
    /\ UNCHANGED connection

\* Mutant of InboundDirect: the connection is asked before the buffer.
InboundDirectFirst ==
    /\ DirectInbound /\ queue # <<>>
    /\ HandOut(Head(queue))
    /\ queue' = Tail(queue)
    /\ UNCHANGED <<arrived, hungUp, peak, buffer>>

InboundDirect ==
    /\ DirectInbound /\ buffer = <<>> /\ queue # <<>>
    /\ HandOut(Head(queue))
    /\ queue' = Tail(queue)
    /\ UNCHANGED <<arrived, hungUp, peak, buffer>>

InboundClosed ==
    /\ DirectInbound /\ buffer = <<>> /\ queue = <<>> /\ hungUp
    /\ ended' = ended \cup {"acceptor"}
    /\ woken' = woken \ {"acceptor"}
    /\ UNCHANGED <<connection, connWaker, buffer, inboundWaker, turn, busy,
                   accepted, dropped, crashed, serve>>

\* Mutant of InboundPending: inbound_stream_waker is not set.
InboundUnparked ==
    /\ buffer = <<>>
    /\ DirectInbound => queue = <<>> /\ ~hungUp
    /\ connWaker' = IF DirectInbound THEN "acceptor" ELSE connWaker
    /\ woken' = woken \ {"acceptor"}
    /\ turn' = IF OneTask THEN "poll" ELSE turn
    /\ UNCHANGED <<connection, inboundWaker, buffer, busy, ended, accepted, dropped,
                   crashed, serve>>

InboundPending ==
    /\ buffer = <<>>
    /\ DirectInbound => queue = <<>> /\ ~hungUp
    /\ inboundWaker' = "acceptor"
    /\ connWaker' = IF DirectInbound THEN "acceptor" ELSE connWaker
    /\ woken' = woken \ {"acceptor"}
    /\ turn' = IF OneTask THEN "poll" ELSE turn
    /\ UNCHANGED <<connection, buffer, busy, ended, accepted, dropped, crashed,
                   serve>>

\* A task that serves a stream does not ask for another, even when it is woken.
PollInbound ==
    /\ "acceptor" \in woken \ ended /\ ~busy
    /\ turn = "inbound"
    /\ InboundBuffered \/ InboundDirect \/ InboundClosed \/ InboundPending

\* The acceptor's application comes back for another stream.
Resume ==
    /\ busy
    /\ busy' = FALSE
    /\ woken' = woken \cup {"acceptor"}
    /\ UNCHANGED <<connection, connWaker, buffer, inboundWaker, turn, ended,
                   accepted, dropped, crashed, serve>>

-----------------------------------------------------------------------------
(* The task of an echo connection: receiver.next().await.unwrap() and the    *)
(* copying of one stream.                                                    *)

Receive ==
    /\ OneTask /\ server = "waiting" /\ Channel # <<>>
    /\ server' = "serving" /\ taken' = taken + 1
    /\ UNCHANGED <<connection, connWaker, buffer, inboundWaker, woken, turn, busy,
                   ended, accepted, dropped, crashed>>

\* The end of the stream, or an error on it.
Served ==
    /\ server = "serving"
    /\ server' = "waiting"
    /\ UNCHANGED <<connection, connWaker, buffer, inboundWaker, woken, turn, busy,
                   ended, accepted, dropped, crashed, taken>>

\* The sender is gone with muxer_fut: next() is None.
ReceiveNone ==
    /\ OneTask /\ server = "waiting" /\ Channel = <<>> /\ "acceptor" \in ended
    /\ server' = "panicked"
    /\ UNCHANGED <<connection, connWaker, buffer, inboundWaker, woken, turn, busy,
                   ended, accepted, dropped, crashed, taken>>

Server == Receive \/ Served \/ ReceiveNone

-----------------------------------------------------------------------------
(* Muxer::poll, called by the driver. *)

\* Mutants of PollStream: the acceptor is not woken, or the buffer takes one
\* stream too many.
PollStreamSilent ==
    /\ queue # <<>> /\ Len(buffer) < MaxBuffered
    /\ queue' = Tail(queue)
    /\ buffer' = Append(buffer, Head(queue))
    /\ woken' = woken \cup {DriverTask}
    /\ UNCHANGED <<arrived, hungUp, peak, connWaker, inboundWaker, ended, accepted,
                   dropped>>
PollStreamOverfull ==
    /\ queue # <<>> /\ Len(buffer) <= MaxBuffered
    /\ queue' = Tail(queue)
    /\ buffer' = Append(buffer, Head(queue))
    /\ woken' = woken \cup {DriverTask} \cup ({inboundWaker} \ {"none"})
    /\ inboundWaker' = "none"
    /\ UNCHANGED <<arrived, hungUp, peak, connWaker, ended, accepted, dropped>>

\* A stream is buffered and the parked acceptor woken, or dropped; either way
\* the driver wakes itself to look for more.
PollStream ==
    /\ queue # <<>>
    /\ queue' = Tail(queue)
    /\ \/ /\ Len(buffer) >= MaxBuffered
          /\ dropped' = dropped \cup {Head(queue)}
          /\ woken' = woken \cup {DriverTask}
          /\ UNCHANGED <<buffer, inboundWaker>>
       \/ /\ Len(buffer) < MaxBuffered
          /\ buffer' = Append(buffer, Head(queue))
          /\ woken' = woken \cup {DriverTask} \cup ({inboundWaker} \ {"none"})
          /\ inboundWaker' = "none"
          /\ UNCHANGED dropped
    /\ UNCHANGED <<arrived, hungUp, peak, connWaker, ended, accepted>>

\* Mutant of PollPending: the connection is not left with the task's waker.
PollPendingUnwatched ==
    /\ queue = <<>> /\ ~hungUp
    /\ woken' = IF OneTask THEN woken ELSE woken \ {"driver"}
    /\ UNCHANGED <<connection, connWaker, buffer, inboundWaker, ended, accepted,
                   dropped>>

PollPending ==
    /\ queue = <<>> /\ ~hungUp
    /\ connWaker' = DriverTask
    /\ woken' = IF OneTask THEN woken ELSE woken \ {"driver"}
    /\ UNCHANGED <<connection, buffer, inboundWaker, ended, accepted, dropped>>

PollClosed ==
    /\ queue = <<>> /\ hungUp
    /\ ended' = ended \cup {DriverTask}
    /\ woken' = woken \ {DriverTask}
    /\ UNCHANGED <<connection, connWaker, buffer, inboundWaker, accepted, dropped>>

Poll ==
    /\ IF OneTask THEN turn = "poll" ELSE "driver" \in woken
    /\ DriverTask \notin ended
    /\ PollStream \/ PollPending \/ PollClosed
    /\ turn' = "inbound"
    /\ UNCHANGED <<busy, crashed, serve>>

-----------------------------------------------------------------------------

Next ==
    /\ Arrive \/ HangUp \/ PollInbound \/ Resume \/ Poll \/ Server
    /\ UNCHANGED use

Spec == Init /\ [][Next]_vars

\* The executor polls the tasks that are woken, the acceptor of airio-muxing
\* comes back for the next stream, and the remote ends the streams it opens.
FairSpec ==
    /\ Spec
    /\ WF_vars(PollInbound /\ UNCHANGED use)
    /\ WF_vars(Poll /\ UNCHANGED use)
    /\ WF_vars(Resume /\ use = "muxing" /\ UNCHANGED use)
    /\ WF_vars(Server /\ UNCHANGED use)

-----------------------------------------------------------------------------
(* Properties. *)

\* Streams reach the application in the order they were opened, each once,
\* although they come by two ways, and none disappears unless it was dropped.
Pipeline == accepted \o buffer \o queue

StreamsInOrder ==
    /\ \A i, j \in 1..Len(Pipeline) : i < j => Pipeline[i] < Pipeline[j]
    /\ {Pipeline[i] : i \in 1..Len(Pipeline)} = (1..arrived) \ dropped

\* A stream in the buffer is never missed by an acceptor that has parked: it
\* is awake, serving another stream, or has never asked.
NoLostWakeup ==
    buffer # <<>> /\ "acceptor" \notin ended => "acceptor" \in woken \/ busy

\* The connection is driven: what has arrived is taken from it even when no
\* one accepts streams.  Holds for airio-yamux, and for the echo server until it
\* crashes; a task of its own that calls poll_inbound of airio-muxing takes the
\* driver's waker.
ConnectionDriven == use # "muxing" => (queue # <<>> ~> queue = <<>> \/ crashed)

\* Every stream is handed to an application that keeps accepting, or dropped,
\* unless the echo server crashes; what is in its channel is served even then.
EveryStreamHandled ==
    use # "yamux" =>
        \A n \in Streams :
            /\ n \in {queue[i] : i \in 1..Len(queue)}
               ~> crashed \/ n \in dropped \cup {accepted[i] : i \in 1..Len(accepted)}
            /\ OneTask /\ Len(accepted) >= n ~> taken >= n

\* Once the connection ends, a task that polls it learns of it; the echo server's
\* other task ends too, with a panic, when it has served what it was given.
EndReported ==
    hungUp ~> ended # {} /\ (OneTask => server = "panicked")

\* The echo server is not brought down by a remote that keeps no more streams
\* waiting than its channel has slots, however the two tasks are scheduled.
FullOnlyIfCrowded == crashed => peak > ChannelCap + 1
=============================================================================
