--------------------------- MODULE ConnectionUpgrade ---------------------------
(***************************************************************************)
(* How a raw connection becomes (PeerId, Muxer): the chain of futures that *)
(* Builder::authenticate, apply and multiplex put behind a transport.      *)
(* Every stage is an UpgradeApply, which negotiates a protocol on the      *)
(* stream of the stage below and then runs that protocol's upgrade on the  *)
(* Negotiated stream.  The identify upgrade exchanges the public keys, a   *)
(* ReadyUpgrade returns its stream as it is, and the muxer upgrade ends    *)
(* the chain.                                                              *)
(*                                                                         *)
(* The dialer does not wait for the answer to the last protocol of a stage *)
(* (see StreamSelect): the stages above run on streams that are still in   *)
(* state Expecting, one inside the other.  Their proposals leave in order, *)
(* innermost first, before anything written above them, and a read from    *)
(* the outermost stream first reads the echo each of them expects.         *)
(***************************************************************************)
EXTENDS Naturals, Sequences

CONSTANTS
    Name,        \* what an upgrade may be called
    Pipelines,   \* the chains of stages to consider
    WireCap,     \* tokens the transport accepts before a write is Pending
    MaxFrames,   \* bound: frames each muxer writes
    MaxFaults    \* bound: I/O errors in a behaviour

Kinds == {"identify", "ready", "mux"}

\* An upgrade with the names it is offered by, in order and at least one, and
\* those the listener's side supports it by.
Upgrades == [kind : Kinds, offers : Seq(Name) \ {<<>>}, supports : SUBSET Name]

\* Builder: authentication comes first and the muxer last.
ASSUME PipelineAssumption ==
    \A line \in Pipelines :
        /\ line \in Seq(Upgrades) /\ Len(line) > 1
        /\ line[1].kind = "identify" /\ line[Len(line)].kind = "mux"
        /\ \A i \in 2..(Len(line) - 1) : line[i].kind = "ready"
ASSUME BoundsAssumption ==
    WireCap \in Nat \ {0} /\ MaxFrames \in Nat /\ MaxFaults \in Nat

VARIABLES
    pipeline,   \* the stages; the two sides need not support the same names
    stage,      \* stage[s]: the stage s is at
    phase,      \* phase[s]: where s is in that stage, or how it has ended
    tried,      \* how many offers the dialer has made at its stage
    chosen,     \* chosen[s]: the protocol s has got from each stage so far
    expecting,  \* the protocols of the dialer's Expecting streams, innermost first
    held,       \* those of their proposals that are still in a write buffer
    answer,     \* the message of the listener's SendMessage state
    garbled,    \* the listener is reading something else as a frame
    wire,       \* wire[s]: written by s and not yet read
    peer,       \* peer[s]: the PeerId s has read, or "none"
    muxRead,    \* muxRead[s]: what the muxer of s has read
    muxSent,    \* muxSent[s]: how many frames it has written
    faults

vars == <<pipeline, stage, phase, tried, chosen, expecting, held, answer,
          garbled, wire, peer, muxRead, muxSent, faults>>
dialing == <<tried, expecting, held>>
listening == <<answer, garbled>>
muxing == <<muxRead, muxSent>>

Side == {"dialer", "listener"}
Peer(s) == IF s = "dialer" THEN "listener" ELSE "dialer"

Proposal(p) == [kind |-> "protocol", val |-> p]
NA == [kind |-> "na"]
Key(s) == [kind |-> "key", val |-> s]
MuxFrame(s, n) == [kind |-> "mux", val |-> s, seq |-> n]

Token == {Proposal(p) : p \in Name} \cup {NA} \cup {Key(s) : s \in Side}
         \cup {MuxFrame(s, n) : s \in Side, n \in 1..MaxFrames}

DialerPhases == {"select", "await", "upgrade", "readKey", "connected", "broken", "failed"}
ListenerPhases == {"select", "answer", "upgrade", "readKey", "connected", "broken", "failed"}

TypeOK ==
    /\ pipeline \in Pipelines
    /\ stage \in [Side -> DOMAIN pipeline]
    /\ phase \in [Side -> DialerPhases \cup ListenerPhases]
    /\ phase["dialer"] \in DialerPhases /\ phase["listener"] \in ListenerPhases
    /\ tried \in 0..Len(pipeline[stage["dialer"]].offers)
    /\ chosen \in [Side -> Seq(Name)] /\ \A s \in Side : Len(chosen[s]) <= stage[s]
    /\ expecting \in Seq(Name)
    /\ held \in Seq({Proposal(p) : p \in Name}) /\ Len(held) <= Len(expecting) + 1
    /\ answer \in Token /\ garbled \in BOOLEAN
    /\ wire \in [Side -> Seq(Token)] /\ \A s \in Side : Len(wire[s]) <= WireCap
    /\ peer \in [Side -> Side \cup {"none", "garbage"}]
    /\ muxRead \in [Side -> Seq(Token)] /\ muxSent \in [Side -> 0..MaxFrames]
    /\ faults \in 0..MaxFaults

Init ==
    /\ pipeline \in Pipelines
    /\ stage = [s \in Side |-> 1] /\ phase = [s \in Side |-> "select"]
    /\ tried = 0 /\ expecting = <<>> /\ held = <<>>
    /\ chosen = [s \in Side |-> <<>>]
    /\ answer = NA /\ garbled = FALSE
    /\ wire = [s \in Side |-> <<>>]
    /\ peer = [s \in Side |-> "none"]
    /\ muxRead = [s \in Side |-> <<>>] /\ muxSent = [s \in Side |-> 0]
    /\ faults = 0

-----------------------------------------------------------------------------

Stage(s) == pipeline[stage[s]]
Goto(s, ph) == phase' = [phase EXCEPT ![s] = ph]
Down(s) == phase[s] \in {"broken", "failed"}

\* An error ends the whole chain, and a muxer whose stream fails is broken.
Fail(s) == Goto(s, IF phase[s] = "connected" THEN "broken" ELSE "failed")

\* The dialer's writes and reads first flush the proposals it holds, and what
\* it reads first are the echoes it expects.
Write(s, t) ==
    /\ s = "dialer" => held = <<>>
    /\ Len(wire[s]) < WireCap
    /\ wire' = [wire EXCEPT ![s] = Append(@, t)]
Arrived(s) == wire[Peer(s)] # <<>> /\ (s = "dialer" => held = <<>>)
Next1(s) == Head(wire[Peer(s)])

\* Mutant of Readable: the expected echoes are not read first.
ReadableRaw(s) == Arrived(s)

Consume(s) == wire' = [wire EXCEPT ![Peer(s)] = Tail(@)]
Readable(s) == Arrived(s) /\ (s = "dialer" => expecting = <<>>)

\* The protocol of this stage is known: UpgradeApply starts its upgrade.
Choose(s, p) ==
    /\ chosen' = [chosen EXCEPT ![s] = Append(@, p)]
    /\ Goto(s, "upgrade")

\* The future of this stage is done: AndThenFuture (UpgradeFuture, Multiplex)
\* goes on to the next one with the stream and the peer id.
NextStage(s) ==
    /\ stage' = [stage EXCEPT ![s] = @ + 1]
    /\ Goto(s, "select")
    /\ tried' = IF s = "dialer" THEN 0 ELSE tried

-----------------------------------------------------------------------------
(* UpgradeApply in state DialerInit: DialerSelectFuture. *)

\* Mutant of Optimistic: the dialer waits for no answer at all.
NeverWaits(left) == TRUE

\* Does a stage with this many more offers go ahead without an answer?
Optimistic(left) == left = 0

DialerPropose ==
    /\ phase["dialer"] = "select"
    /\ LET p == Stage("dialer").offers[tried + 1] IN
        /\ tried' = tried + 1
        /\ held' = Append(held, Proposal(p))
        /\ \/ /\ Optimistic(Len(Stage("dialer").offers) - tried')
              /\ Choose("dialer", p)
              /\ expecting' = Append(expecting, p)
           \/ /\ ~Optimistic(Len(Stage("dialer").offers) - tried')
              /\ Goto("dialer", "await")
              /\ UNCHANGED <<chosen, expecting>>
    /\ UNCHANGED <<pipeline, stage, listening, wire, peer, muxing, faults>>

\* Mutant of DialerFlush: reading does not flush.
DialerFlushLazy ==
    /\ held # <<>>
    /\ phase["dialer"] = "upgrade" /\ Stage("dialer").kind = "identify"
    /\ Len(wire["dialer"]) < WireCap
    /\ wire' = [wire EXCEPT !["dialer"] = Append(@, Head(held))]
    /\ held' = Tail(held)
    /\ UNCHANGED <<pipeline, stage, phase, tried, chosen, expecting, listening,
                   peer, muxing, faults>>

\* Whatever writes or reads flushes what is held, innermost first.
DialerFlush ==
    /\ held # <<>>
    /\ \/ phase["dialer"] \in {"await", "readKey", "connected"}
       \/ phase["dialer"] = "upgrade" /\ Stage("dialer").kind = "identify"
    /\ Len(wire["dialer"]) < WireCap
    /\ wire' = [wire EXCEPT !["dialer"] = Append(@, Head(held))]
    /\ held' = Tail(held)
    /\ UNCHANGED <<pipeline, stage, phase, tried, chosen, expecting, listening,
                   peer, muxing, faults>>

DialerAwait ==
    /\ phase["dialer"] = "await"
    /\ Readable("dialer")
    /\ Consume("dialer")
    /\ LET p == Stage("dialer").offers[tried] IN
        IF Next1("dialer") = Proposal(p) THEN Choose("dialer", p)
        ELSE /\ Goto("dialer", IF Next1("dialer").kind \in {"protocol", "na"}
                               THEN "select" ELSE "failed")
             /\ UNCHANGED chosen
    /\ UNCHANGED <<pipeline, stage, dialing, listening, peer, muxing, faults>>

\* Mutant of DialerConfirm: any answer is taken for the echo.
DialerConfirmAny ==
    /\ phase["dialer"] \in {"await", "readKey", "connected"}
    /\ expecting # <<>> /\ Arrived("dialer")
    /\ Consume("dialer")
    /\ expecting' = Tail(expecting)
    /\ UNCHANGED <<pipeline, stage, phase, tried, chosen, held, listening, peer,
                   muxing, faults>>

\* poll_negotiated of the innermost stream that is still Expecting, when the
\* outermost one is read.
DialerConfirm ==
    /\ phase["dialer"] \in {"await", "readKey", "connected"}
    /\ expecting # <<>> /\ Arrived("dialer")
    /\ Consume("dialer")
    /\ \/ /\ Next1("dialer") = Proposal(Head(expecting))
          /\ expecting' = Tail(expecting)
          /\ UNCHANGED phase
       \/ /\ Next1("dialer") # Proposal(Head(expecting))
          /\ Fail("dialer")
          /\ UNCHANGED expecting
    /\ UNCHANGED <<pipeline, stage, tried, chosen, held, listening, peer, muxing,
                   faults>>

-----------------------------------------------------------------------------
(* UpgradeApply in state ListenerInit: ListenerSelectFuture. *)

Accepts(p) == p \in Stage("listener").supports

ListenerReceive ==
    /\ phase["listener"] = "select" /\ ~garbled
    /\ Readable("listener")
    /\ Consume("listener")
    /\ LET t == Next1("listener") IN
       \/ /\ t.kind = "protocol"
          /\ answer' = IF Accepts(t.val) THEN t ELSE NA
          /\ Goto("listener", "answer")
          /\ UNCHANGED garbled
       \/ /\ t.kind # "protocol"
          /\ \/ Fail("listener") /\ UNCHANGED garbled
             \/ garbled' = TRUE /\ UNCHANGED phase
          /\ UNCHANGED answer
    /\ UNCHANGED <<pipeline, stage, dialing, chosen, peer, muxing, faults>>

\* What follows is swallowed by the frame it was taken for.
ListenerSwallow ==
    /\ phase["listener"] = "select" /\ garbled
    /\ Readable("listener")
    /\ Consume("listener")
    /\ phase' \in {phase, [phase EXCEPT !["listener"] = "failed"]}
    /\ UNCHANGED <<pipeline, stage, dialing, chosen, listening, peer, muxing,
                   faults>>

ListenerAnswer ==
    /\ phase["listener"] = "answer"
    /\ Write("listener", answer)
    /\ IF answer = NA THEN Goto("listener", "select") /\ UNCHANGED chosen
                      ELSE Choose("listener", answer.val)
    /\ UNCHANGED <<pipeline, stage, dialing, listening, peer, muxing, faults>>

-----------------------------------------------------------------------------
(* UpgradeApply in state Upgrade. *)

\* identify::Config::handshake: write the key, flush, read the other's.
SendKey(s) ==
    /\ phase[s] = "upgrade" /\ Stage(s).kind = "identify"
    /\ Write(s, Key(s))
    /\ Goto(s, "readKey")
    /\ UNCHANGED <<pipeline, stage, dialing, chosen, listening, peer, muxing, faults>>

ReadKey(s) ==
    /\ phase[s] = "readKey"
    /\ Readable(s)
    /\ Consume(s)
    /\ peer' = [peer EXCEPT ![s] = IF Next1(s).kind = "key" THEN Next1(s).val
                                                            ELSE "garbage"]
    /\ NextStage(s)
    /\ UNCHANGED <<pipeline, expecting, held, chosen, listening, muxing, faults>>

\* ReadyUpgrade returns the stream at once, Expecting or not.
PassReady(s) ==
    /\ phase[s] = "upgrade" /\ Stage(s).kind = "ready"
    /\ NextStage(s)
    /\ UNCHANGED <<pipeline, expecting, held, chosen, listening, wire, peer, muxing,
                   faults>>

\* Mutant of StartMuxer: the chain goes on after its last stage.
StartMuxerAgain(s) ==
    /\ phase[s] = "upgrade" /\ Stage(s).kind = "mux"
    /\ NextStage(s)
    /\ UNCHANGED <<pipeline, expecting, held, chosen, listening, wire, peer, muxing,
                   faults>>

\* So do the muxer upgrades, and the transport's future is ready.
StartMuxer(s) ==
    /\ phase[s] = "upgrade" /\ Stage(s).kind = "mux"
    /\ Goto(s, "connected")
    /\ UNCHANGED <<pipeline, stage, dialing, chosen, listening, wire, peer, muxing,
                   faults>>

\* The muxer (external) writes frames and reads what comes.
MuxWrite(s) ==
    /\ phase[s] = "connected" /\ muxSent[s] < MaxFrames
    /\ Write(s, MuxFrame(s, muxSent[s] + 1))
    /\ muxSent' = [muxSent EXCEPT ![s] = @ + 1]
    /\ UNCHANGED <<pipeline, stage, phase, dialing, chosen, listening, peer,
                   muxRead, faults>>

MuxRead(s) ==
    /\ phase[s] = "connected"
    /\ Readable(s)
    /\ Consume(s)
    /\ muxRead' = [muxRead EXCEPT ![s] = Append(@, Next1(s))]
    /\ UNCHANGED <<pipeline, stage, phase, dialing, chosen, listening, peer,
                   muxSent, faults>>

Upgrading(s) == SendKey(s) \/ ReadKey(s) \/ PassReady(s) \/ StartMuxer(s)

-----------------------------------------------------------------------------

\* A read finds the end of the stream.
Reading(s) ==
    IF s = "listener" THEN phase[s] \in {"select", "readKey", "connected"}
    ELSE phase[s] \in {"await", "readKey", "connected"} /\ held = <<>>

EndOfStream(s) ==
    /\ Reading(s) /\ wire[Peer(s)] = <<>> /\ Down(Peer(s))
    /\ Fail(s)
    /\ UNCHANGED <<pipeline, stage, dialing, chosen, listening, wire, peer, muxing,
                   faults>>

\* A write to a peer that is gone fails, if not at once.
Writing(s) ==
    \/ phase[s] = "upgrade" /\ Stage(s).kind = "identify"
    \/ phase[s] = "connected" /\ muxSent[s] < MaxFrames
    \/ s = "listener" /\ phase[s] = "answer"
    \/ s = "dialer" /\ held # <<>> /\ phase[s] \in {"await", "readKey", "connected"}

WriteFails(s) ==
    /\ Writing(s) /\ wire[s] # <<>> /\ Down(Peer(s))
    /\ Fail(s)
    /\ UNCHANGED <<pipeline, stage, dialing, chosen, listening, wire, peer, muxing,
                   faults>>

\* An I/O call of s fails, or its owner drops it.
Break(s) ==
    /\ ~Down(s)
    /\ faults < MaxFaults /\ faults' = faults + 1
    /\ Fail(s)
    /\ UNCHANGED <<pipeline, stage, dialing, chosen, listening, wire, peer, muxing>>

Finished ==
    /\ \A s \in Side : Down(s) \/ (phase[s] = "connected" /\ muxSent[s] = MaxFrames)
    /\ UNCHANGED vars

DialerStep == DialerPropose \/ DialerFlush \/ DialerAwait \/ DialerConfirm
              \/ Upgrading("dialer") \/ MuxRead("dialer") \/ EndOfStream("dialer")
              \/ WriteFails("dialer")
ListenerStep == ListenerReceive \/ ListenerSwallow \/ ListenerAnswer
                \/ Upgrading("listener") \/ MuxRead("listener")
                \/ EndOfStream("listener") \/ WriteFails("listener")

Next == DialerStep \/ ListenerStep \/ Finished
        \/ \E s \in Side : MuxWrite(s) \/ Break(s)

Spec == Init /\ [][Next]_vars

\* The executor polls both futures, then both muxers, whenever they can move.
FairSpec == Spec /\ WF_vars(DialerStep) /\ WF_vars(ListenerStep)

-----------------------------------------------------------------------------
(* Properties. *)

\* What the dialer has confirmed, stage by stage, is what the listener has
\* chosen at that very stage, and the first of the dialer's offers it supports:
\* an answer is never taken for that of another stage, and a proposal meant for
\* a later stage that the listener accepts at an earlier one (its own was
\* refused) never counts.
Confirmed == SubSeq(chosen["dialer"], 1, Len(chosen["dialer"]) - Len(expecting))

FirstSupported(k) ==
    \E i \in DOMAIN pipeline[k].offers :
        /\ chosen["dialer"][k] = pipeline[k].offers[i]
        /\ pipeline[k].offers[i] \in pipeline[k].supports
        /\ \A j \in 1..(i - 1) : pipeline[k].offers[j] \notin pipeline[k].supports

StagesAgree ==
    /\ Len(Confirmed) <= Len(chosen["listener"])
    /\ \A k \in 1..Len(Confirmed) :
        Confirmed[k] = chosen["listener"][k] /\ FirstSupported(k)

\* Proposals of later stages may be on the stream before the keys of an earlier
\* one are read.  Even so a connection is handed out with the identity of the
\* other end, and the muxers read what the muxers write, in order: nothing of a
\* negotiation or of the key exchange is left on the stream for them.
CleanHandOut ==
    \A s \in Side :
        /\ phase[s] \in {"connected", "broken"} => peer[s] = Peer(s)
        /\ muxRead[s] = [i \in 1..Len(muxRead[s]) |-> MuxFrame(Peer(s), i)]

\* Both ends reach a verdict: connected with every protocol confirmed, or
\* failed.  Neither waits for the other for ever, whatever the dialer has
\* written ahead.
Settled(s) == Down(s) \/ (phase[s] = "connected" /\ (s = "dialer" => expecting = <<>>))
BothSettle == <>(Settled("dialer") /\ Settled("listener"))

\* Without faults, a listener that supports an offer of every stage is
\* connected, and so is the dialer.
Supported == \A k \in DOMAIN pipeline :
    \E i \in DOMAIN pipeline[k].offers : pipeline[k].offers[i] \in pipeline[k].supports
SupportedConnects ==
    Supported => <>(faults > 0 \/ \A s \in Side : phase[s] = "connected")
=============================================================================
