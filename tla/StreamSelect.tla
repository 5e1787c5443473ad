----------------------------- MODULE StreamSelect -----------------------------
(***************************************************************************)
(* Protocol negotiation over one byte stream (crate airio-stream-select):  *)
(* a DialerSelectFuture proposes protocols one by one, a                   *)
(* ListenerSelectFuture echoes the first one it supports and answers "na"  *)
(* to the others, and each future ends in a Negotiated stream which the    *)
(* application then uses.  For its last protocol the dialer does not wait: *)
(* it hands out a Negotiated stream in state Expecting whose proposal is   *)
(* still in the write buffer, and the application writes behind it.        *)
(*                                                                         *)
(* The stream is a FIFO of tokens.  A token is a whole frame (see          *)
(* LengthDelimited for the bytes of a frame) or one chunk of application   *)
(* data.  buf[s] is the LengthDelimited write buffer of side s, wire[s]    *)
(* what the socket of s has accepted and the peer has not read.            *)
(***************************************************************************)
EXTENDS Naturals, Sequences

CONSTANTS
    Name,           \* what an application may list as a protocol name
    ValidName,      \* the names that begin with '/'
    DialLists,      \* the protocol lists a dialer may be given
    ListenLists,    \* the protocol lists a listener may be given
    Lookalikes,     \* frames that application data may happen to spell
    WireCap,        \* tokens the transport accepts before a write is Pending
    MaxWrites,      \* bound: chunks each application writes
    MaxFaults,      \* bound: I/O errors in a behaviour
    UseAfterError   \* may the application use a stream that returned an error?

Side == {"dialer", "listener"}
Peer(s) == IF s = "dialer" THEN "listener" ELSE "dialer"

\* Message::Protocol, Message::NotAvailable, and the n-th chunk of data.
Proposal(p) == [kind |-> "protocol", val |-> p]
NA == [kind |-> "na"]
Chunk(n) == [kind |-> "data", val |-> n]

Message == {Proposal(p) : p \in Name} \cup {NA}
Token == Message \cup {Chunk(n) : n \in 1..MaxWrites}

ASSUME NamesAssumption ==
    /\ ValidName \subseteq Name
    /\ DialLists \subseteq Seq(Name)
    /\ ListenLists \subseteq Seq(Name)
    /\ Lookalikes \subseteq {Proposal(p) : p \in ValidName} \cup {NA}

ASSUME BoundsAssumption ==
    /\ WireCap \in Nat \ {0}
    /\ MaxWrites \in Nat
    /\ MaxFaults \in Nat
    /\ UseAfterError \in BOOLEAN

VARIABLES
    offered,    \* the protocols the dialer iterates over
    taken,      \* how many of them its iterator has returned
    supported,  \* the protocols the listener was given
    answer,     \* the message of the listener's SendMessage and Flush states
    state,      \* state[s]: state of the future, then of the Negotiated stream
    misframed,  \* the listener is reading application data as a frame
    buf, wire,  \* the write buffers and the two directions of the transport
    closed,     \* closed[s]: s has closed its write half
    gone,       \* gone[s]: s has dropped the stream
    wrote,      \* wrote[s]: what the application of s has written
    read,       \* read[s]: what the application of s has read
    panic,      \* the assertion that has failed, or "none"
    faults      \* I/O errors so far

setup == <<offered, supported>>
transport == <<buf, wire, closed, gone>>
history == <<wrote, read>>
vars == <<offered, taken, supported, answer, state, misframed, buf, wire,
          closed, gone, wrote, read, panic, faults>>

DialerStates == {"Initial", "SendProtocol", "FlushProtocol", "AwaitProtocol",
                 "Expecting", "Completed", "Invalid", "Done"}
ListenerStates == {"RecvMessage", "SendMessage", "Flush", "Completed", "Done"}

TypeOK ==
    /\ offered \in Seq(Name) /\ supported \in Seq(Name)
    /\ taken \in 0..Len(offered)
    /\ answer \in Message
    /\ state \in [Side -> DialerStates \cup ListenerStates]
    /\ state["dialer"] \in DialerStates
    /\ state["listener"] \in ListenerStates
    /\ misframed \in BOOLEAN
    /\ buf \in [Side -> Seq(Token)] /\ wire \in [Side -> Seq(Token)]
    /\ closed \in [Side -> BOOLEAN] /\ gone \in [Side -> BOOLEAN]
    /\ wrote \in [Side -> Seq(Token)] /\ read \in [Side -> Seq(Token)]
    /\ panic \in {"none", "into_inner", "invalid_state"}
    /\ faults \in 0..MaxFaults

Init ==
    /\ offered \in DialLists
    /\ supported \in ListenLists
    /\ taken = 0
    /\ answer = NA
    /\ state = [s \in Side |-> IF s = "dialer" THEN "Initial" ELSE "RecvMessage"]
    /\ misframed = FALSE
    /\ buf = [s \in Side |-> <<>>] /\ wire = [s \in Side |-> <<>>]
    /\ closed = [s \in Side |-> FALSE] /\ gone = [s \in Side |-> FALSE]
    /\ wrote = [s \in Side |-> <<>>] /\ read = [s \in Side |-> <<>>]
    /\ panic = "none"
    /\ faults = 0

-----------------------------------------------------------------------------
(* The futures' common vocabulary. *)

\* The protocol the dialer is trying now.
Current == offered[taken]

\* What ListenerSelectFuture::new keeps of the names it is given.
Listening == {supported[i] : i \in DOMAIN supported} \cap ValidName

\* Mutant of Reply: the listener echoes what it does not support.
ReplyEchoAll(p) == Proposal(p)

\* The answer of a listener to a proposal.
Reply(p) == IF p \in Listening THEN Proposal(p) ELSE NA

Goto(s, st) == state' = [state EXCEPT ![s] = st]

\* Mutant of Drop: the socket stays open.
DropLeaking(s) ==
    /\ buf' = [buf EXCEPT ![s] = <<>>]
    /\ gone' = [gone EXCEPT ![s] = TRUE]
    /\ UNCHANGED closed

\* Dropping the stream loses the write buffer and closes the socket.
Drop(s) ==
    /\ buf' = [buf EXCEPT ![s] = <<>>]
    /\ closed' = [closed EXCEPT ![s] = TRUE]
    /\ gone' = [gone EXCEPT ![s] = TRUE]

\* Mutant of StartSend: the message is put in the buffer twice.
StartSendTwice(s, m) ==
    /\ buf' = [buf EXCEPT ![s] = Append(Append(@, m), m)]
    /\ UNCHANGED <<wire, closed, gone>>

\* Sink::start_send of one message.
StartSend(s, m) ==
    /\ buf' = [buf EXCEPT ![s] = Append(@, m)]
    /\ UNCHANGED <<wire, closed, gone>>

\* One successful poll_write out of the write buffer.
WriteOut(s) ==
    /\ buf[s] # <<>>
    /\ Len(wire[s]) < WireCap
    /\ wire' = [wire EXCEPT ![s] = Append(@, Head(buf[s]))]
    /\ buf' = [buf EXCEPT ![s] = Tail(@)]
    /\ UNCHANGED <<closed, gone>>

\* Mutant of Consume: a buffered reader takes all there is.
ConsumeAll(s) == wire' = [wire EXCEPT ![Peer(s)] = <<>>]

\* What a read of s finds: a token, or the end of the stream.
Readable(s) == wire[Peer(s)] # <<>>
Next1(s) == Head(wire[Peer(s)])
Consume(s) == wire' = [wire EXCEPT ![Peer(s)] = Tail(@)]
AtEOF(s) == wire[Peer(s)] = <<>> /\ closed[Peer(s)]

\* An I/O call of s returns an error: a fault of the transport, or, when it
\* writes, because its peer has dropped the connection.
Fault == faults < MaxFaults /\ faults' = faults + 1
WriteFails(s) == Fault \/ (gone[Peer(s)] /\ UNCHANGED faults)

\* LengthDelimited::into_inner asserts that nothing is left to write.
IntoInner(s) == panic' = IF buf[s] = <<>> THEN panic ELSE "into_inner"

\* The future of s returns an error and drops its stream.
Fail(s) == Goto(s, "Done") /\ Drop(s)

-----------------------------------------------------------------------------
(* DialerSelectFuture::poll, one action per state of its loop. *)

\* Mutant of TakeNext: the iterator runs past its end.
TakeNextUnchecked ==
    /\ taken' = taken + 1
    /\ Goto("dialer", "SendProtocol")
    /\ UNCHANGED <<buf, closed, gone>>

\* protocols.next().ok_or(Failed)?
TakeNext ==
    \/ /\ taken < Len(offered)
       /\ taken' = taken + 1
       /\ Goto("dialer", "SendProtocol")
       /\ UNCHANGED <<buf, closed, gone>>
    \/ /\ taken = Len(offered)
       /\ Fail("dialer")
       /\ UNCHANGED taken

DialerInitial ==
    /\ state["dialer"] = "Initial"
    /\ TakeNext
    /\ UNCHANGED <<setup, answer, misframed, wire, history, panic, faults>>

\* An invalid name ends the negotiation.  The proposal of the last protocol
\* stays in the write buffer of the Negotiated stream that is returned.
DialerSend ==
    /\ state["dialer"] = "SendProtocol"
    /\ \/ /\ Current \notin ValidName
          /\ Fail("dialer")
          /\ UNCHANGED wire
       \/ /\ Current \in ValidName
          /\ StartSend("dialer", Proposal(Current))
          /\ Goto("dialer", IF taken < Len(offered) THEN "FlushProtocol"
                                                    ELSE "Expecting")
    /\ UNCHANGED <<setup, taken, answer, misframed, history, panic, faults>>

DialerFlush ==
    /\ state["dialer"] = "FlushProtocol"
    /\ \/ /\ WriteOut("dialer")
          /\ UNCHANGED <<state, faults>>
       \/ /\ buf["dialer"] = <<>>
          /\ Goto("dialer", "AwaitProtocol")
          /\ UNCHANGED <<transport, faults>>
       \/ /\ WriteFails("dialer")
          /\ Fail("dialer")
          /\ UNCHANGED wire
    /\ UNCHANGED <<setup, taken, answer, misframed, history, panic>>

\* Mutant of DialerAwaitMessage: any answer is taken for the echo.
DialerAwaitAny ==
    /\ state["dialer"] = "AwaitProtocol"
    /\ Readable("dialer")
    /\ Consume("dialer")
    /\ Goto("dialer", "Completed")
    /\ UNCHANGED <<setup, taken, answer, misframed, buf, closed, gone, history,
                   panic, faults>>

\* The echo completes the negotiation, "na" moves on to the next protocol,
\* another protocol goes back to Initial, anything else is an error.
DialerAwaitMessage ==
    /\ state["dialer"] = "AwaitProtocol"
    /\ Readable("dialer")
    /\ Consume("dialer")
    /\ LET m == Next1("dialer") IN
       \/ /\ m = Proposal(Current)
          /\ Goto("dialer", "Completed")
          /\ IntoInner("dialer")
          /\ UNCHANGED <<taken, buf, closed, gone>>
       \/ /\ m = NA
          /\ TakeNext
          /\ UNCHANGED panic
       \/ /\ m \in Message \ {Proposal(Current), NA}
          /\ Goto("dialer", "Initial")
          /\ UNCHANGED <<taken, buf, closed, gone, panic>>
       \/ /\ m \notin Message
          /\ Fail("dialer")
          /\ UNCHANGED <<taken, panic>>
    /\ UNCHANGED <<setup, answer, misframed, history, faults>>

DialerAwaitFails ==
    /\ state["dialer"] = "AwaitProtocol"
    /\ (AtEOF("dialer") /\ UNCHANGED faults) \/ Fault
    /\ Fail("dialer")
    /\ UNCHANGED <<setup, taken, answer, misframed, wire, history, panic>>

DialerStep == DialerInitial \/ DialerSend \/ DialerFlush
              \/ DialerAwaitMessage \/ DialerAwaitFails

-----------------------------------------------------------------------------
(* ListenerSelectFuture::poll. *)

ListenerRecvFrame ==
    /\ state["listener"] = "RecvMessage"
    /\ ~misframed
    /\ Readable("listener")
    /\ LET m == Next1("listener") IN
       \/ \E p \in Name :
            /\ m = Proposal(p)
            /\ answer' = Reply(p)
            /\ Goto("listener", "SendMessage")
            /\ UNCHANGED <<buf, closed, gone>>
       \/ /\ m = NA
          /\ Fail("listener")
          /\ UNCHANGED answer
    /\ Consume("listener")
    /\ UNCHANGED <<setup, taken, misframed, history, panic, faults>>

\* Application data read as a frame: either its bytes end a frame that does
\* not decode, or they are taken as part of a longer one.
ListenerRecvData ==
    /\ state["listener"] = "RecvMessage"
    /\ Readable("listener")
    /\ misframed \/ Next1("listener") \notin Message
    /\ Consume("listener")
    /\ \/ /\ Fail("listener")
          /\ UNCHANGED misframed
       \/ /\ misframed' = TRUE
          /\ UNCHANGED <<state, buf, closed, gone>>
    /\ UNCHANGED <<setup, taken, answer, history, panic, faults>>

ListenerRecvFails ==
    /\ state["listener"] = "RecvMessage"
    /\ (AtEOF("listener") /\ UNCHANGED faults) \/ Fault
    /\ Fail("listener")
    /\ UNCHANGED <<setup, taken, answer, misframed, wire, history, panic>>

ListenerSend ==
    /\ state["listener"] = "SendMessage"
    /\ StartSend("listener", answer)
    /\ Goto("listener", "Flush")
    /\ UNCHANGED <<setup, taken, answer, misframed, history, panic, faults>>

\* Mutants of ListenerFlush: it completes after "na", or never completes.
ListenerFlushTo(st) ==
    /\ state["listener"] = "Flush"
    /\ \/ WriteOut("listener") /\ UNCHANGED state
       \/ buf["listener"] = <<>> /\ Goto("listener", st) /\ UNCHANGED transport
    /\ UNCHANGED <<setup, taken, answer, misframed, history, panic, faults>>
ListenerFlushCompletes == ListenerFlushTo("Completed")
ListenerFlushLoops == ListenerFlushTo("RecvMessage")

\* After the answer is out: Negotiated::completed, or the next message.
ListenerFlush ==
    /\ state["listener"] = "Flush"
    /\ \/ /\ WriteOut("listener")
          /\ UNCHANGED <<state, faults, panic>>
       \/ /\ buf["listener"] = <<>> /\ answer # NA
          /\ Goto("listener", "Completed")
          /\ IntoInner("listener")
          /\ UNCHANGED <<transport, faults>>
       \/ /\ buf["listener"] = <<>> /\ answer = NA
          /\ Goto("listener", "RecvMessage")
          /\ UNCHANGED <<transport, faults, panic>>
       \/ /\ WriteFails("listener")
          /\ Fail("listener")
          /\ UNCHANGED <<wire, panic>>
    /\ UNCHANGED <<setup, taken, answer, misframed, history>>

ListenerStep == ListenerRecvFrame \/ ListenerRecvData \/ ListenerRecvFails
                \/ ListenerSend \/ ListenerFlush

-----------------------------------------------------------------------------
(* The Negotiated stream in the hands of the application. *)

\* The stream s holds is open: its application has not dropped it.
Usable(s) == state[s] \in {"Expecting", "Completed"} /\ ~gone[s]

\* poll_write, poll_read, poll_flush and poll_close of a stream in state
\* Expecting all begin by writing out the proposal.
ExpectingFlush ==
    /\ state["dialer"] = "Expecting" /\ ~gone["dialer"]
    /\ WriteOut("dialer")
    /\ UNCHANGED <<setup, taken, answer, state, misframed, history, panic, faults>>

\* poll_negotiated (from poll_read or NegotiatedComplete) flushes, and goes on
\* to read when the flush is done or has failed with WriteZero.  Only the
\* expected echo completes the stream; every other outcome drops it and leaves
\* Invalid.
PollNegotiated ==
    /\ state["dialer"] = "Expecting" /\ ~gone["dialer"]
    /\ (buf["dialer"] = <<>> /\ UNCHANGED faults) \/ Fault
    /\ \/ /\ Readable("dialer")
          /\ Next1("dialer") = Proposal(Current)
          /\ Consume("dialer")
          /\ Goto("dialer", "Completed")
          /\ IntoInner("dialer")
          /\ UNCHANGED <<buf, closed, gone>>
       \/ /\ Readable("dialer")
          /\ Next1("dialer") # Proposal(Current)
          /\ Consume("dialer")
          /\ Goto("dialer", "Invalid")
          /\ Drop("dialer")
          /\ UNCHANGED panic
       \/ /\ AtEOF("dialer")
          /\ Goto("dialer", "Invalid")
          /\ Drop("dialer")
          /\ UNCHANGED <<wire, panic>>
    /\ UNCHANGED <<setup, taken, answer, misframed, history>>

\* The read of poll_negotiated fails, after a flush that is done or whose
\* WriteZero it has ignored: a transport that breaks under the two calls of one
\* poll counts as one fault.
PollNegotiatedFails ==
    /\ state["dialer"] = "Expecting" /\ ~gone["dialer"]
    /\ Fault
    /\ Goto("dialer", "Invalid")
    /\ Drop("dialer")
    /\ UNCHANGED <<setup, taken, answer, misframed, wire, history, panic>>

\* Mutant of AppWrite: the write does not wait for the write buffer.
AppWriteAhead(s) ==
    /\ Usable(s) /\ ~closed[s]
    /\ Len(wire[s]) < WireCap
    /\ Len(wrote[s]) < MaxWrites
    /\ wire' = [wire EXCEPT ![s] = Append(@, Chunk(Len(wrote[s]) + 1))]
    /\ wrote' = [wrote EXCEPT ![s] = Append(@, Chunk(Len(wrote[s]) + 1))]
    /\ UNCHANGED <<setup, taken, answer, state, misframed, buf, closed, gone,
                   read, panic, faults>>

\* In state Expecting the bytes follow the proposal without waiting for it to
\* be accepted.
AppWrite(s) ==
    /\ Usable(s) /\ ~closed[s]
    /\ buf[s] = <<>>
    /\ Len(wire[s]) < WireCap
    /\ Len(wrote[s]) < MaxWrites
    /\ \E t \in {Chunk(Len(wrote[s]) + 1)} \cup Lookalikes :
        /\ wire' = [wire EXCEPT ![s] = Append(@, t)]
        /\ wrote' = [wrote EXCEPT ![s] = Append(@, t)]
    /\ UNCHANGED <<setup, taken, answer, state, misframed, buf, closed, gone,
                   read, panic, faults>>

AppRead(s) ==
    /\ Usable(s) /\ state[s] = "Completed"
    /\ Readable(s)
    /\ read' = [read EXCEPT ![s] = Append(@, Next1(s))]
    /\ Consume(s)
    /\ UNCHANGED <<setup, taken, answer, state, misframed, buf, closed, gone,
                   wrote, panic, faults>>

\* poll_close flushes and closes the write half; it does not wait for the
\* negotiation.
AppClose(s) ==
    /\ Usable(s) /\ ~closed[s]
    /\ buf[s] = <<>>
    /\ closed' = [closed EXCEPT ![s] = TRUE]
    /\ UNCHANGED <<setup, taken, answer, state, misframed, buf, wire, gone,
                   history, panic, faults>>

AppDrop(s) ==
    /\ Usable(s)
    /\ Drop(s)
    /\ UNCHANGED <<setup, taken, answer, state, misframed, wire, history,
                   panic, faults>>

\* The application polls a stream whose negotiation has failed.
UseInvalid ==
    /\ UseAfterError
    /\ state["dialer"] = "Invalid"
    /\ panic = "none"
    /\ panic' = "invalid_state"
    /\ UNCHANGED <<setup, taken, answer, state, misframed, transport, history,
                   faults>>

AppStep ==
    \/ ExpectingFlush \/ PollNegotiated \/ PollNegotiatedFails \/ UseInvalid
    \/ \E s \in Side : AppWrite(s) \/ AppRead(s) \/ AppClose(s) \/ AppDrop(s)

-----------------------------------------------------------------------------

Finished == (\A s \in Side : gone[s]) /\ UNCHANGED vars

Next == DialerStep \/ ListenerStep \/ AppStep \/ Finished

Spec == Init /\ [][Next]_vars

\* The executor polls each future whenever it can progress, and the dialer's
\* application awaits its stream: it reads from it or polls complete().
Fairness ==
    /\ WF_vars(DialerStep)
    /\ WF_vars(ListenerStep)
    /\ WF_vars(ExpectingFlush \/ PollNegotiated)

FairSpec == Spec /\ Fairness

-----------------------------------------------------------------------------
(* Properties. *)

\* The dialer holds a negotiated stream only for the proposal the listener has
\* answered with that very protocol: never after "na", never because of
\* application data, and never while the listener still negotiates.  (The
\* listener may have failed after its echo was written.)  Guards the pipelined
\* last proposal of dialer_select.rs against poll_negotiated.
Agreement ==
    state["dialer"] = "Completed" =>
        /\ answer = Proposal(Current)
        /\ state["listener"] \in {"Flush", "Completed", "Done"}

\* Both ends get the first protocol of the dialer's list that the listener
\* supports, whatever was pipelined behind the proposals.
FirstCommonProtocol ==
    state["dialer"] = "Completed" =>
        /\ Current \in Listening
        /\ \A i \in 1..(taken - 1) : offered[i] \notin Listening

\* Once negotiated, the stream is transparent: what one application has read
\* and what is still under way is exactly what the other one has written, no
\* byte lost to a read buffer or left behind in a write buffer by into_inner.
\* For the data the dialer writes before the answer this holds as soon as the
\* listener accepts the proposal.
Transparency ==
    /\ state["dialer"] = "Completed" =>
         wrote["listener"] = read["dialer"] \o wire["listener"]
    /\ state["listener"] = "Completed" /\ state["dialer"] \in {"Expecting", "Completed"}
         /\ answer = Proposal(Current) =>
         wrote["dialer"] = read["listener"] \o wire["dialer"]

\* The assertions of LengthDelimited::into_inner never fail, wherever a future
\* or poll_negotiated takes the socket out of the framing, even though
\* poll_negotiated goes on to read after a WriteZero error.
HandoffAsserts == panic # "into_inner"

\* negotiated.rs asserts that a stream is never used in state Invalid.
NeverPolledInvalid == panic # "invalid_state"

\* Both futures end, and so does the wait of the application for a stream that
\* was handed out in state Expecting: no circular wait between a dialer that
\* must flush before it reads and a listener that must answer before it reads.
Settled(s) == state[s] \in {"Completed", "Invalid", "Done"} \/ gone[s]
NegotiationEnds == <>(Settled("dialer") /\ Settled("listener"))

\* What was written before the answer to a protocol the listener supports
\* reaches the listener's application, even if the dialer drops its stream at
\* once, unless the listener's own stream fails or is dropped.
EarlyDataArrives ==
    \A n \in 1..MaxWrites :
        (state["dialer"] = "Expecting" /\ Len(wrote["dialer"]) >= n
            /\ Current \in Listening)
        ~> (Len(read["listener"]) >= n \/ state["listener"] = "Done"
            \/ gone["listener"])

\* With an application on the listener's side that reads what arrives.
ReadingSpec == FairSpec /\ WF_vars(AppRead("listener"))

\* The abstract specification this one implements: the listener commits when
\* it decides to echo a proposal, the dialer agrees when its stream completes.
Abstract == INSTANCE Negotiation WITH
    offer <- offered,
    accept <- Listening,
    listener <- {p \in Name : answer = Proposal(p)},
    dialer <- {p \in Name : state["dialer"] = "Completed" /\ p = Current}

AbstractSpec == Abstract!Spec

-----------------------------------------------------------------------------
(* The inductive invariant behind Agreement: proposals and answers alternate. *)

\* The listener waits for the next proposal, and nothing is on its way back.
ListenerIdle ==
    /\ state["listener"] \in {"RecvMessage", "Flush"}
    /\ answer = NA /\ ~misframed
    /\ wire["listener"] = <<>> /\ buf["listener"] = <<>>

\* The listener has failed and its answer, if any, will not come.
ListenerLost ==
    /\ state["listener"] = "Done"
    /\ wire["listener"] = <<>> /\ buf["listener"] = <<>>

\* The listener has received proposal p and its answer is not on the wire.
Deciding(p) ==
    /\ answer = Reply(p) /\ wire["listener"] = <<>>
    /\ \/ state["listener"] = "SendMessage" /\ buf["listener"] = <<>>
       \/ state["listener"] = "Flush" /\ buf["listener"] = <<answer>>

\* The next thing the dialer reads is the listener's acceptance of p.
Accepted(p) ==
    /\ p \in Listening
    /\ answer = Proposal(p)
    /\ state["listener"] \in {"Flush", "Completed", "Done"}
    /\ wire["listener"] # <<>> /\ Head(wire["listener"]) = answer

\* Between two proposals.
Quiet ==
    \/ ListenerLost
    \/ ListenerIdle /\ wire["dialer"] = <<>> /\ buf["dialer"] = <<>>

\* The dialer waits for the answer to p and writes nothing more: the two
\* sides are in lockstep.
Lockstep(p) ==
    \/ ListenerLost
    \/ ListenerIdle /\ wire["dialer"] = <<>> /\ buf["dialer"] = <<Proposal(p)>>
    \/ ListenerIdle /\ wire["dialer"] = <<Proposal(p)>> /\ buf["dialer"] = <<>>
    \/ /\ wire["dialer"] = <<>> /\ buf["dialer"] = <<>> /\ ~misframed
       /\ \/ Deciding(p)
          \/ Accepted(p)
          \/ /\ p \notin Listening
             /\ answer = NA
             /\ wire["listener"] = <<NA>> /\ buf["listener"] = <<>>
             /\ state["listener"] \in {"RecvMessage", "Flush", "Done"}

\* Application data may follow the proposal: only the first answer counts.
Pipelined(p) ==
    \/ ListenerLost
    \/ ListenerIdle /\ wire["dialer"] = <<>> /\ buf["dialer"] = <<Proposal(p)>>
    \/ /\ buf["dialer"] = <<>>
       /\ \/ /\ ListenerIdle
             /\ wire["dialer"] # <<>> /\ Head(wire["dialer"]) = Proposal(p)
          \/ Deciding(p)
          \/ Accepted(p)
          \/ /\ p \notin Listening
             /\ wire["listener"] # <<>> /\ Head(wire["listener"]) = NA

Refused == \A i \in 1..(taken - 1) : offered[i] \notin Listening

\* For every state of the dialer, how far the two sides can be apart.
Alternation ==
    /\ panic # "into_inner"
    /\ state["dialer"] = "Initial" => taken = 0 /\ Quiet
    /\ state["dialer"] = "SendProtocol" => taken > 0 /\ Refused /\ Quiet
    /\ state["dialer"] \in {"FlushProtocol", "AwaitProtocol"} =>
         taken > 0 /\ Refused /\ Lockstep(Current)
    /\ state["dialer"] = "Expecting" /\ ~gone["dialer"] =>
         taken > 0 /\ Refused /\ Pipelined(Current)
    /\ state["dialer"] = "Completed" =>
         /\ taken > 0 /\ Refused
         /\ Current \in Listening
         /\ answer = Proposal(Current)
         /\ state["listener"] \in {"Flush", "Completed", "Done"}
=============================================================================
