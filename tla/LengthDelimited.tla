---------------------------- MODULE LengthDelimited ----------------------------
(***************************************************************************)
(* The framing under the negotiation (length_delimited.rs), byte by byte:  *)
(* one direction of a stream between the Sink of one side and the Stream   *)
(* of the other.  A frame is a four byte big-endian length and a payload.  *)
(* After FrameCount frames both ends stop framing: the writer goes on      *)
(* through LengthDelimitedReader (a MessageReader in state Expecting), the *)
(* reader takes the socket back with into_inner.                           *)
(***************************************************************************)
EXTENDS Naturals, Sequences

CONSTANTS
    Radix,        \* values of a byte (256)
    MaxFrame,     \* MAX_FRAME_SIZE
    Payloads,     \* what is sent in frames
    FrameCount,   \* frames before the stream becomes raw
    HeaderCuts,   \* after how many bytes the transport may split a header
    WireCap,      \* bytes the transport holds
    MaxRaw        \* bound: raw bytes written

HeaderSize == 4   \* MAX_LENGTH_SIZE
Byte == 0..(Radix - 1)

\* What four bytes can hold.
Lengths == 0..(Radix * Radix * Radix * Radix - 1)

ASSUME FramingAssumption ==
    /\ Radix \in Nat /\ Radix > 1
    /\ MaxFrame \in Lengths \ {0}
    /\ Payloads \subseteq Seq(Byte)
    /\ HeaderCuts \subseteq 1..(HeaderSize - 1)
    /\ FrameCount \in Nat /\ WireCap \in Nat \ (0..HeaderSize - 1) /\ MaxRaw \in Nat

VARIABLES
    writeBuffer,     \* of the writer
    wire,            \* accepted by the transport, not yet read
    closed,          \* FALSE, "close" after poll_close, "drop" after a drop
    readState,       \* [kind |-> "ReadLength", buf, pos], [kind |-> "ReadData", len, pos]
    readBuffer,
    end,             \* how the reader's stream ended: "open", "None", "UnexpectedEof"
    handedOff,       \* the reader has taken the socket back
    sent, delivered, \* frames
    rawSent, rawReceived

writer == <<writeBuffer, closed, sent, rawSent>>
reader == <<readState, readBuffer, end, handedOff, delivered, rawReceived>>
vars == <<writeBuffer, wire, closed, readState, readBuffer, end, handedOff,
          sent, delivered, rawSent, rawReceived>>

\* put_u32 and u32::from_be_bytes
Header(n) ==
    LET upper == n \div Radix
        higher == upper \div Radix
        highest == higher \div Radix
    IN <<highest % Radix, higher % Radix, upper % Radix, n % Radix>>
Length(h) == ((h[1] * Radix + h[2]) * Radix + h[3]) * Radix + h[4]

ReadLength == [kind |-> "ReadLength", buf |-> [i \in 1..HeaderSize |-> 0], pos |-> 0]

TypeOK ==
    /\ writeBuffer \in Seq(Byte) /\ wire \in Seq(Byte)
    /\ closed \in {"open", "close", "drop"}
    /\ readBuffer \in Seq(Byte)
    /\ \/ /\ readState \in [kind : {"ReadLength"}, buf : [1..HeaderSize -> Byte], pos : 0..1]
          /\ readBuffer = <<>>
       \/ /\ readState \in [kind : {"ReadData"}, len : Lengths \ {0}, pos : Nat]
          /\ readState.pos < readState.len /\ Len(readBuffer) = readState.len
    /\ end \in {"open", "None", "UnexpectedEof"}
    /\ handedOff \in BOOLEAN
    /\ sent \in Seq(Payloads) /\ delivered \in Seq(Seq(Byte))
    /\ rawSent \in Seq(Byte) /\ rawReceived \in Seq(Byte)

Init ==
    /\ writeBuffer = <<>> /\ wire = <<>> /\ closed = "open"
    /\ readState = ReadLength /\ readBuffer = <<>>
    /\ end = "open" /\ handedOff = FALSE
    /\ sent = <<>> /\ delivered = <<>>
    /\ rawSent = <<>> /\ rawReceived = <<>>

-----------------------------------------------------------------------------
(* The writer. *)

\* poll_ready lets a frame in while the buffer is below the maximum frame
\* size; start_send refuses what is larger than a frame.
SendFrame ==
    /\ closed = "open" /\ Len(sent) < FrameCount
    /\ Len(writeBuffer) < MaxFrame
    /\ \E f \in Payloads :
        /\ Len(f) <= MaxFrame
        /\ writeBuffer' = writeBuffer \o Header(Len(f)) \o f
        /\ sent' = Append(sent, f)
    /\ UNCHANGED <<wire, closed, rawSent, reader>>

\* The frames sent take up this many bytes, and the i-th begins here.
FrameStart[i \in Nat] ==
    IF i <= 1 THEN 0 ELSE FrameStart[i - 1] + HeaderSize + Len(sent[i - 1])

\* May the transport take the bytes of the frames in parts with n left over?
SplitsAt(n) ==
    LET taken == FrameStart[Len(sent) + 1] - n
    IN \A i \in 1..Len(sent) :
         taken - FrameStart[i] \notin (1..HeaderSize - 1) \ HeaderCuts

\* Mutant of Drain: only a full buffer is written out.
DrainWhenFull ==
    /\ closed = "open" /\ Len(writeBuffer) >= MaxFrame
    /\ \E n \in 1..Len(writeBuffer) :
        /\ Len(wire) + n <= WireCap
        /\ wire' = wire \o SubSeq(writeBuffer, 1, n)
        /\ writeBuffer' = SubSeq(writeBuffer, n + 1, Len(writeBuffer))
    /\ UNCHANGED <<closed, sent, rawSent, reader>>

\* poll_write_buffer: the transport takes a part of the buffer.
Drain ==
    /\ closed = "open"
    /\ \E n \in 1..Len(writeBuffer) :
        /\ SplitsAt(Len(writeBuffer) - n)
        /\ Len(wire) + n <= WireCap
        /\ wire' = wire \o SubSeq(writeBuffer, 1, n)
        /\ writeBuffer' = SubSeq(writeBuffer, n + 1, Len(writeBuffer))
    /\ UNCHANGED <<closed, sent, rawSent, reader>>

\* Mutant of RawWrite: raw bytes overtake the write buffer.
RawWriteAhead ==
    /\ closed = "open" /\ Len(sent) = FrameCount
    /\ Len(wire) < WireCap /\ Len(rawSent) < MaxRaw
    /\ \E b \in Byte :
        /\ wire' = Append(wire, b)
        /\ rawSent' = Append(rawSent, b)
    /\ UNCHANGED <<writeBuffer, closed, sent, reader>>

\* LengthDelimitedReader::poll_write goes to the transport directly, behind
\* whatever the buffer held.
RawWrite ==
    /\ closed = "open" /\ Len(sent) = FrameCount
    /\ writeBuffer = <<>>
    /\ Len(wire) < WireCap /\ Len(rawSent) < MaxRaw
    /\ \E b \in Byte :
        /\ wire' = Append(wire, b)
        /\ rawSent' = Append(rawSent, b)
    /\ UNCHANGED <<writeBuffer, closed, sent, reader>>

\* Mutant of Close: the socket is closed with frames in the buffer.
CloseAhead ==
    /\ closed = "open"
    /\ closed' = "close" /\ writeBuffer' = <<>>
    /\ UNCHANGED <<wire, sent, rawSent, reader>>

\* poll_close drains first; dropping the writer loses its buffer.
Close ==
    /\ closed = "open" /\ writeBuffer = <<>>
    /\ closed' = "close"
    /\ UNCHANGED <<writeBuffer, wire, sent, rawSent, reader>>

DropWriter ==
    /\ closed = "open"
    /\ closed' = "drop" /\ writeBuffer' = <<>>
    /\ UNCHANGED <<wire, sent, rawSent, reader>>

-----------------------------------------------------------------------------
(* The reader. *)

Reading == end = "open" /\ ~handedOff

\* One read into buf[pos..]; from the second byte on the length is parsed.
ReadHeader ==
    /\ Reading /\ readState.kind = "ReadLength"
    /\ \E n \in 1..Len(wire) :
        LET pos == readState.pos + n
            buf == [i \in 1..HeaderSize |->
                      IF i \in (readState.pos + 1)..pos
                      THEN wire[i - readState.pos] ELSE readState.buf[i]]
            len == Length(buf)
        IN /\ pos \in HeaderCuts \cup {HeaderSize}
           /\ wire' = SubSeq(wire, n + 1, Len(wire))
           /\ \/ /\ pos <= 1
                 /\ readState' = [readState EXCEPT !.buf = buf, !.pos = pos]
                 /\ UNCHANGED <<readBuffer, delivered>>
              \/ /\ pos > 1 /\ len >= 1
                 /\ readState' = [kind |-> "ReadData", len |-> len, pos |-> 0]
                 /\ readBuffer' = [i \in 1..len |-> 0]
                 /\ UNCHANGED delivered
              \/ /\ pos > 1 /\ len = 0
                 /\ readState' = ReadLength
                 /\ delivered' = Append(delivered, <<>>)
                 /\ UNCHANGED readBuffer
    /\ UNCHANGED <<writer, end, handedOff, rawReceived>>

\* Mutant of ReadData: the frame is copied out of the read buffer, not split off.
ReadDataCopies ==
    /\ Reading /\ readState.kind = "ReadData"
    /\ \E n \in 1..Len(wire) :
        /\ readState.pos + n <= readState.len
        /\ wire' = SubSeq(wire, n + 1, Len(wire))
        /\ readBuffer' = [i \in 1..readState.len |->
                            IF i \in (readState.pos + 1)..(readState.pos + n)
                            THEN wire[i - readState.pos] ELSE readBuffer[i]]
        /\ IF readState.pos + n < readState.len
           THEN readState' = [readState EXCEPT !.pos = @ + n] /\ UNCHANGED delivered
           ELSE readState' = ReadLength /\ delivered' = Append(delivered, readBuffer')
    /\ UNCHANGED <<writer, end, handedOff, rawReceived>>

\* One read into read_buffer[pos..]; the last one splits the frame off it.
ReadData ==
    /\ Reading /\ readState.kind = "ReadData"
    /\ \E n \in 1..Len(wire) :
        LET pos == readState.pos + n
            filled == [i \in 1..readState.len |->
                         IF i \in (readState.pos + 1)..pos
                         THEN wire[i - readState.pos] ELSE readBuffer[i]]
        IN /\ pos <= readState.len
           /\ wire' = SubSeq(wire, n + 1, Len(wire))
           /\ \/ /\ pos < readState.len
                 /\ readState' = [readState EXCEPT !.pos = pos]
                 /\ readBuffer' = filled
                 /\ UNCHANGED delivered
              \/ /\ pos = readState.len
                 /\ readState' = ReadLength
                 /\ readBuffer' = <<>>
                 /\ delivered' = Append(delivered, filled)
    /\ UNCHANGED <<writer, end, handedOff, rawReceived>>

ReadEOF ==
    /\ Reading
    /\ wire = <<>> /\ closed # "open"
    /\ end' = IF readState = ReadLength THEN "None" ELSE "UnexpectedEof"
    /\ UNCHANGED <<writer, wire, readState, readBuffer, handedOff, delivered,
                   rawReceived>>

\* Mutant of IntoInner: the socket is taken back before the last frame.
IntoInnerEarly ==
    /\ Reading
    /\ handedOff' = TRUE
    /\ UNCHANGED <<writer, wire, readState, readBuffer, end, delivered,
                   rawReceived>>

\* into_inner, called with the last frame in hand.
IntoInner ==
    /\ Reading /\ Len(delivered) = FrameCount
    /\ handedOff' = TRUE
    /\ UNCHANGED <<writer, wire, readState, readBuffer, end, delivered,
                   rawReceived>>

RawRead ==
    /\ handedOff /\ wire # <<>>
    /\ rawReceived' = Append(rawReceived, Head(wire))
    /\ wire' = Tail(wire)
    /\ UNCHANGED <<writer, readState, readBuffer, end, handedOff, delivered>>

\* The reader polls only until it hands the socket over.
ReaderStep ==
    \/ Len(delivered) < FrameCount /\ (ReadHeader \/ ReadData \/ ReadEOF)
    \/ IntoInner \/ RawRead

Finished == closed # "open" /\ wire = <<>> /\ (end # "open" \/ handedOff)
            /\ UNCHANGED vars

Next == SendFrame \/ Drain \/ RawWrite \/ Close \/ DropWriter \/ ReaderStep
        \/ Finished

Spec == Init /\ [][Next]_vars

\* The writer's owner keeps flushing and the reader's keeps polling.
FairSpec == Spec /\ WF_vars(Drain) /\ WF_vars(ReaderStep)

-----------------------------------------------------------------------------
(* Properties. *)

\* "读取完数据，返回Bytes": the reader returns a frame when its data is
\* complete.  Whatever the sizes of the reads and writes, what has been
\* returned is what was sent, frame by frame.
FramesIntact ==
    /\ Len(delivered) <= Len(sent)
    /\ \A i \in 1..Len(delivered) : delivered[i] = sent[i]

\* The hand-over from frames to raw bytes is exact: the read buffer is empty
\* (the assertion of into_inner), the first byte the new owner reads is the
\* first raw byte written, and none is missing.
HandOverExact ==
    handedOff =>
        /\ readBuffer = <<>> /\ readState = ReadLength
        /\ writeBuffer = <<>> /\ rawSent = rawReceived \o wire

\* A clean end of stream loses nothing after poll_close, and a cut frame is
\* never taken for a clean end: UnexpectedEof is only seen after a drop.
CleanEnd ==
    /\ end = "None" /\ closed = "close" => delivered = sent
    /\ end = "UnexpectedEof" => closed = "drop" /\ Len(delivered) < Len(sent)

\* Every frame arrives unless the writer is dropped: the reader never waits for
\* bytes that poll_ready or poll_flush have left in a buffer.
FramesArrive ==
    \A n \in 1..FrameCount :
        Len(sent) >= n ~> (Len(delivered) >= n \/ closed = "drop")

Channel == INSTANCE FrameChannel WITH Payload <- Payloads
ChannelSpec == Channel!Spec
=============================================================================
