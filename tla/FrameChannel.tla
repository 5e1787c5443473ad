----------------------------- MODULE FrameChannel -----------------------------
(***************************************************************************)
(* What a length-delimited stream promises: frames arrive whole, in order  *)
(* and once, and once both ends stop framing the bytes that follow do so   *)
(* too.  The end of the stream may come early but only between frames.     *)
(***************************************************************************)
EXTENDS Naturals, Sequences

CONSTANTS Payload, Byte

VARIABLES sent, delivered,      \* frames
          rawSent, rawReceived  \* bytes behind the frames

vars == <<sent, delivered, rawSent, rawReceived>>

Init == sent = <<>> /\ delivered = <<>> /\ rawSent = <<>> /\ rawReceived = <<>>

\* No frame is sent once raw bytes are.
Send(f) ==
    /\ rawSent = <<>>
    /\ sent' = Append(sent, f)
    /\ UNCHANGED <<delivered, rawSent, rawReceived>>

Deliver ==
    /\ Len(delivered) < Len(sent)
    /\ delivered' = Append(delivered, sent[Len(delivered) + 1])
    /\ UNCHANGED <<sent, rawSent, rawReceived>>

SendRaw(b) ==
    /\ rawSent' = Append(rawSent, b)
    /\ UNCHANGED <<sent, delivered, rawReceived>>

ReceiveRaw ==
    /\ delivered = sent
    /\ Len(rawReceived) < Len(rawSent)
    /\ rawReceived' = Append(rawReceived, rawSent[Len(rawReceived) + 1])
    /\ UNCHANGED <<sent, delivered, rawSent>>

Next ==
    \/ \E f \in Payload : Send(f)
    \/ Deliver
    \/ \E b \in Byte : SendRaw(b)
    \/ ReceiveRaw

Spec == Init /\ [][Next]_vars
=============================================================================
