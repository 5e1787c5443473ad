------------------------------- MODULE WsStream -------------------------------
(***************************************************************************)
(* One direction of the byte stream of airio-ws: RwStreamSink              *)
(* (rw_stream_sink.rs) over BytesWebSocketStream (framed.rs).  Each        *)
(* poll_write becomes one binary message, poll_read serves the bytes of    *)
(* the messages as buffers of any size.  The WebSocket between the two     *)
(* (async-tungstenite) is external: it buffers messages until a flush,     *)
(* refuses to buffer more than max_write_buffer_size, and its reader fails *)
(* on a message above max_message_size.                                    *)
(* A byte is known by its place among the bytes written.                   *)
(***************************************************************************)
EXTENDS Naturals, Sequences

CONSTANTS
    MaxWrite,     \* largest buffer given to poll_write
    MaxRead,      \* largest buffer given to poll_read
    MaxMessage,   \* max_message_size of the reader's configuration
    MaxBuffered,  \* max_write_buffer_size of the writer's
    WireCap,      \* messages the transport holds
    MaxBytes,     \* bound: bytes written
    MaxQueue      \* bound: messages in the write buffer

ASSUME WsAssumption ==
    /\ {MaxWrite, MaxRead, MaxMessage, MaxBuffered, MaxBytes} \subseteq Nat
    /\ {WireCap, MaxQueue} \subseteq Nat \ {0}

VARIABLES
    written,    \* bytes accepted by poll_write
    oversized,  \* a write was larger than the reader's limit
    ready,      \* the sink of the WebSocket takes a message
    buffered,   \* its messages not yet flushed
    flushed,    \* bytes flushed
    sending,    \* "open", "closed" by poll_close, "dropped"
    wire,       \* messages flushed and not yet read
    current,    \* current_item and its cursor
    received,   \* the bytes read
    seen        \* what poll_read has said of the end: "open", "EOF", "Err"

writer == <<written, oversized, ready, buffered, flushed, sending>>
reader == <<current, received, seen>>
vars == <<written, oversized, ready, buffered, flushed, sending, wire, current,
          received, seen>>

Binary(bytes) == [kind |-> "Binary", data |-> bytes]
Other == [kind |-> "Other", data |-> <<>>]       \* ping, pong, text
CloseFrame == [kind |-> "Close", data |-> <<>>]

Message == [kind : {"Binary"}, data : Seq(1..MaxBytes)] \cup {Other, CloseFrame}

TypeOK ==
    /\ written \in 0..MaxBytes /\ oversized \in BOOLEAN /\ ready \in BOOLEAN
    /\ sending \in {"open", "closed", "dropped"}
    /\ buffered \in Seq(Message) /\ wire \in Seq(Message) /\ Len(wire) <= WireCap
    /\ \A i \in DOMAIN buffered : Len(buffered[i].data) <= MaxWrite
    /\ \A i \in DOMAIN wire : Len(wire[i].data) <= MaxWrite
    /\ flushed \in 0..written
    /\ sending # "dropped" => written - flushed <= MaxBuffered
    /\ current \in [data : Seq(1..MaxBytes), position : Nat]
    /\ current.position <= Len(current.data)
    /\ received \in Seq(1..MaxBytes)
    /\ seen \in {"open", "EOF", "Err"}

\* RwStreamSink::new: no current item, which reads as one that is exhausted.
Init ==
    /\ written = 0 /\ oversized = FALSE /\ ready = TRUE
    /\ buffered = <<>> /\ flushed = 0 /\ sending = "open" /\ wire = <<>>
    /\ current = [data |-> <<>>, position |-> 0]
    /\ received = <<>> /\ seen = "open"

-----------------------------------------------------------------------------
(* The writer. *)

\* poll_ready flushes a sink that has not taken its last message whole.
PollReady == ready \/ buffered = <<>>

\* poll_write: the whole buffer is one message, never a part of it.  A message
\* that does not fit start_send refuses, with nothing written.
PollWrite(n) ==
    /\ sending = "open" /\ PollReady
    /\ written - flushed + n <= MaxBuffered
    /\ written + n <= MaxBytes /\ Len(buffered) < MaxQueue
    /\ buffered' = Append(buffered, Binary([i \in 1..n |-> written + i]))
    /\ written' = written + n
    /\ oversized' = (oversized \/ n > MaxMessage)
    /\ ready' \in BOOLEAN
    /\ UNCHANGED <<flushed, sending, wire, reader>>

\* Messages that are not binary: the WebSocket's own, or text of a foreign peer.
SendOther ==
    /\ sending = "open" /\ Len(buffered) < MaxQueue
    /\ buffered' = Append(buffered, Other)
    /\ UNCHANGED <<written, oversized, ready, flushed, sending, wire, reader>>

\* Mutant of PollFlush: a sink that is ready is not flushed.
PollFlushUnready ==
    /\ ~ready /\ sending # "dropped"
    /\ buffered # <<>> /\ Len(wire) < WireCap
    /\ wire' = Append(wire, Head(buffered))
    /\ buffered' = Tail(buffered)
    /\ flushed' = flushed + Len(Head(buffered).data)
    /\ ready' = (Len(buffered) = 1)
    /\ UNCHANGED <<written, oversized, sending, reader>>

\* poll_flush, and the flush in poll_ready and poll_close: the transport takes
\* a message; a partly written one counts as buffered.
PollFlush ==
    /\ sending # "dropped"
    /\ buffered # <<>> /\ Len(wire) < WireCap
    /\ wire' = Append(wire, Head(buffered))
    /\ buffered' = Tail(buffered)
    /\ flushed' = flushed + Len(Head(buffered).data)
    /\ ready' = (ready \/ Len(buffered) = 1)
    /\ UNCHANGED <<written, oversized, sending, reader>>

\* poll_close: a close frame behind what is buffered, flushed by the polls
\* that follow.
PollClose ==
    /\ sending = "open"
    /\ sending' = "closed"
    /\ buffered' = Append(buffered, CloseFrame)
    /\ UNCHANGED <<written, oversized, ready, flushed, wire, reader>>

DropWriter ==
    /\ sending = "open" \/ (sending = "closed" /\ buffered # <<>>)
    /\ sending' = "dropped" /\ buffered' = <<>>
    /\ UNCHANGED <<written, oversized, ready, flushed, wire, reader>>

-----------------------------------------------------------------------------
(* The reader. *)

Exhausted == current.position >= Len(current.data)

\* Mutant of Copy: the cursor moves by the size of the buffer.
CopyOverrun(item, k) ==
    LET rest == SubSeq(item.data, item.position + 1, Len(item.data))
    IN /\ received' = received \o SubSeq(rest, 1, IF k < Len(rest) THEN k ELSE Len(rest))
       /\ current' = [item EXCEPT !.position = @ + k]
       /\ UNCHANGED seen

\* Cursor::read into a buffer of k bytes.  A result of 0 is the end of the
\* stream to whoever reads.
Copy(item, k) ==
    LET rest == Len(item.data) - item.position
        n == IF k < rest THEN k ELSE rest
    IN /\ received' = received \o SubSeq(item.data, item.position + 1, item.position + n)
       /\ current' = [item EXCEPT !.position = @ + n]
       /\ seen' = IF n = 0 THEN "EOF" ELSE seen

\* Mutant of Stops: an empty message is handed to the caller.
StopsEmpty(m) == m.kind # "Other"

\* The loops of poll_read and poll_next go on past this message: not binary,
\* or empty.  An item taken and left empty is exhausted like the one before.
Stops(m) == m.kind = "Close" \/ m.data # <<>>

ReadCurrent(k) == ~Exhausted /\ Copy(current, k) /\ UNCHANGED wire

ReadNext(k) ==
    /\ Exhausted
    /\ \E i \in DOMAIN wire :
         LET m == wire[i]
         IN /\ Stops(m) /\ \A j \in 1..(i - 1) : ~Stops(wire[j])
            /\ wire' = SubSeq(wire, i + 1, Len(wire))
            /\ \/ /\ m.kind = "Binary" /\ Len(m.data) <= MaxMessage
                  /\ Copy([data |-> m.data, position |-> 0], k)
               \/ /\ m.kind = "Binary" /\ Len(m.data) > MaxMessage
                  /\ seen' = "Err" /\ UNCHANGED <<current, received>>
               \/ /\ m.kind = "Close"
                  /\ seen' = "EOF" /\ UNCHANGED <<current, received>>

\* No byte in what has come: pending, or an error when the transport ends
\* without a close frame.
ReadNothing ==
    /\ Exhausted /\ \A i \in DOMAIN wire : ~Stops(wire[i])
    /\ wire # <<>> \/ sending = "dropped"
    /\ wire' = <<>>
    /\ seen' = IF sending = "dropped" THEN "Err" ELSE seen
    /\ UNCHANGED <<current, received>>

\* poll_read with a buffer of k bytes, until its owner is told of an end.
PollRead(k) ==
    /\ seen = "open"
    /\ ReadCurrent(k) \/ ReadNext(k) \/ ReadNothing
    /\ UNCHANGED writer

-----------------------------------------------------------------------------

Finished == sending # "open" /\ seen # "open" /\ UNCHANGED vars

ReaderStep == \E k \in 1..MaxRead : PollRead(k)

Next == (\E n \in 0..MaxWrite : PollWrite(n)) \/ SendOther \/ PollFlush
        \/ PollClose \/ DropWriter \/ ReaderStep \/ Finished

Spec == Init /\ [][Next]_vars

\* The writer's owner flushes what it has written, the reader's keeps polling.
FairSpec == Spec /\ WF_vars(PollFlush) /\ WF_vars(ReaderStep)

-----------------------------------------------------------------------------
(* Properties. *)

\* Messages make a byte stream: an empty message or one of another kind is
\* not its end ("EOF", rw_stream_sink.rs:47), and neither is a dropped writer.
Stream == INSTANCE ByteStream WITH Chunk <- 0..(MaxWrite + MaxRead)
StreamSpec == Stream!Spec

\* What is written arrives, if the writer is not dropped and none of its
\* writes is larger than the reader's max_message_size: poll_write does not
\* cut a buffer, so such a write ends the stream.
BytesArrive ==
    \A n \in 1..MaxBytes :
        written >= n ~> (Len(received) >= n \/ sending = "dropped" \/ oversized)
=============================================================================
