------------------------- MODULE ConnectionUpgradeProofs -------------------------
(***************************************************************************)
(* Proofs about ConnectionUpgrade: its types, that the two sides agree on  *)
(* the protocol of every stage, and that a connection is handed out clean. *)
(***************************************************************************)
EXTENDS ConnectionUpgrade, Integers, TLAPS

\* The lengths of the sequences.
Chosen(s) == Len(chosen[s])
OnWire(s) == Len(wire[s])
HasRead(s) == Len(muxRead[s])
Expected == Len(expecting)
Held == Len(held)

\* How far the two sides are, counted in proposals since the connection was
\* made that still count: those the dialer has made, and those the listener
\* has accepted or is answering.
Bit(b) == IF b THEN 1 ELSE 0
Proposed == Chosen("dialer") + Bit(phase["dialer"] = "await")
Answered == Chosen("listener") + Bit(phase["listener"] = "answer")
Unconfirmed == Chosen("dialer") - Expected
Stages == Len(pipeline)

\* The proposal that stage i stands or falls by.
Asked(i) == IF i <= Chosen("dialer") THEN chosen["dialer"][i]
            ELSE Stage("dialer").offers[tried]

SentKey(s) == stage[s] > 1 \/ phase[s] = "readKey"

\* Every offer of stage i before the j-th has been refused.
RefusedBefore(i, j) ==
    \A m \in 1..(j - 1) : pipeline[i].offers[m] \notin pipeline[i].supports

\* Stage, phase, what was chosen and what was read go together.
Progress(s) ==
    /\ phase[s] \in {"select", "await", "answer"} => Chosen(s) = stage[s] - 1
    /\ phase[s] \in {"upgrade", "readKey", "connected", "broken"} => Chosen(s) = stage[s]
    /\ Chosen(s) \in {stage[s] - 1, stage[s]}
    /\ phase[s] = "readKey" => stage[s] = 1
    /\ phase[s] \in {"connected", "broken"} => stage[s] = Stages
    /\ peer[s] = IF stage[s] = 1 THEN "none" ELSE Peer(s)

\* Only a muxer that has started has written or read anything.
MuxIdle(s) ==
    phase[s] \notin {"connected", "broken"} => muxSent[s] = 0 /\ muxRead[s] = <<>>

\* Its frames are the last tokens the side has written, in order.
MuxLast(s) ==
    \A i \in 1..OnWire(s) :
        IF OnWire(s) - i < muxSent[s]
        THEN wire[s][i] = MuxFrame(s, muxSent[s] - (OnWire(s) - i))
        ELSE wire[s][i].kind # "mux"

\* What it has read are the first frames of the other one.
MuxInOrder(s) == muxRead[s] = [i \in 1..HasRead(s) |-> MuxFrame(Peer(s), i)]

Frames(s) == MuxIdle(s) /\ MuxLast(s) /\ MuxInOrder(s)

Offering ==
    /\ phase["dialer"] = "select" => tried < Len(Stage("dialer").offers)
    /\ phase["dialer"] = "await" => tried > 0 /\ tried < Len(Stage("dialer").offers)

Holding ==
    /\ ~Down("dialer") => Held <= Expected + Bit(phase["dialer"] = "await")
    /\ held # <<>> => muxSent["dialer"] = 0
    /\ phase["dialer"] = "readKey" => held = <<>>

\* The protocols of the Expecting streams are the last the dialer has chosen,
\* and not that of the stage that has read the listener's key.
Expectation ==
    /\ Expected <= Chosen("dialer")
    /\ stage["dialer"] > 1 => Unconfirmed > 0
    /\ \A i \in 1..Expected : expecting[i] = chosen["dialer"][Unconfirmed + i]

DialerLocal == Offering /\ Holding /\ Expectation

\* Every proposal that was made in vain was one the listener does not support.
InOrderOfPreference ==
    /\ \A i \in 1..Chosen("dialer") :
         \E j \in 1..Len(pipeline[i].offers) :
            chosen["dialer"][i] = pipeline[i].offers[j] /\ RefusedBefore(i, j)
    /\ phase["dialer"] = "select" => RefusedBefore(stage["dialer"], tried + 1)
    /\ phase["dialer"] = "await" => RefusedBefore(stage["dialer"], tried)

ListenerLocal ==
    /\ answer \in {NA} \cup {Proposal(p) : p \in Name}
    /\ phase["listener"] = "answer" /\ answer # NA => Accepts(answer.val)
    /\ \A i \in 1..Chosen("listener") :
         chosen["listener"][i] \in pipeline[i].supports
    /\ garbled => phase["listener"] \in {"select", "failed"}

KeyOrder ==
    /\ stage["dialer"] > 1 => SentKey("listener") \/ Down("listener")
    /\ ~Down("dialer") /\ ~SentKey("dialer") => stage["listener"] = 1

Apart == KeyOrder /\ Unconfirmed <= Chosen("listener")
         /\ \A i \in 1..Unconfirmed : chosen["listener"][i] = chosen["dialer"][i]

\* What the listener still has to read is k keys, proposals, and all the mux
\* frames its muxer has not read.
Ahead(k) == OnWire("dialer") - k - (muxSent["dialer"] - HasRead("listener"))

KeyAt(k) == IF Answered = 0 THEN Ahead(k) + 1 ELSE 1

Unread(k) ==
    /\ HasRead("listener") <= muxSent["dialer"]
    /\ Ahead(k) >= 0
    /\ Answered + Ahead(k) <= Stages
    /\ ~Down("dialer") => Answered + Ahead(k) + Held <= Proposed
    /\ \A i \in 1..(k + Ahead(k)) :
         IF k = 1 /\ i = KeyAt(k) THEN wire["dialer"][i] = Key("dialer")
                                  ELSE wire["dialer"][i].kind = "protocol"
    /\ k = 1 => stage["listener"] = 1 /\ (Down("dialer") \/ SentKey("dialer"))
    /\ ~Down("dialer") /\ SentKey("dialer") /\ stage["listener"] = 1 => k = 1
    /\ Chosen("listener") = 0 \/ (stage["listener"] = 1 /\ k = 0) =>
         Answered + Ahead(k) <= 1 /\ muxSent["dialer"] = 0

ListenerView ==
    ~Down("listener") /\ ~garbled => \E k \in {0, 1} : Unread(k)

\* The first answers the dialer reads are the echoes of what it waits for.
EchoesTo(e) ==
    /\ Unconfirmed <= e /\ e <= Chosen("listener") /\ e <= Proposed
    /\ \A i \in 1..e : chosen["listener"][i] = Asked(i)
    /\ e - Unconfirmed <= OnWire("listener")
    /\ \A i \in (Unconfirmed + 1)..e :
         wire["listener"][i - Unconfirmed] = Proposal(Asked(i))

\* The listener has written nothing but them, k keys and the frames of its
\* muxer.
Written(k) ==
    LET e == Chosen("listener") IN
    /\ OnWire("listener") + HasRead("dialer") = e - Unconfirmed + k + muxSent["listener"]
    /\ HasRead("dialer") <= muxSent["listener"]
    /\ k = 1 => stage["dialer"] = 1 /\ e = 1
                /\ wire["listener"][e - Unconfirmed + 1] = Key("listener")
    /\ ~Down("listener") => (k = 1 <=> stage["dialer"] = 1 /\ SentKey("listener"))

EchoesInStep == EchoesTo(Chosen("listener")) /\ \E k \in {0, 1} : Written(k)

\* It answers the first proposal it has not accepted, and the others are on
\* their way, in order.
Answering ==
    LET p == Asked(Chosen("listener") + 1) IN
    phase["listener"] = "answer" =>
        Chosen("listener") < Proposed /\ answer = IF Accepts(p) THEN Proposal(p) ELSE NA

OnTheWay(k) ==
    /\ Unread(k)
    /\ Answered + Ahead(k) + Held = Proposed
    /\ \A i \in (Answered + 1)..(Answered + Ahead(k)) :
        wire["dialer"][i - Answered + IF i > 1 THEN k ELSE 0] = Proposal(Asked(i))
    /\ \A i \in 1..Held : held[i] = Proposal(Asked(Proposed - Held + i))

ProposalsInStep ==
    ~Down("listener") => ~garbled /\ Answering /\ \E k \in {0, 1} : OnTheWay(k)

\* The listener has accepted all it has answered and the rest is on its way.
InStep == EchoesInStep /\ ProposalsInStep

\* It has refused a proposal the dialer has other offers for.
RefusedAwaited ==
    /\ phase["dialer"] = "await" /\ held = <<>>
    /\ EchoesTo(Chosen("dialer")) /\ Chosen("listener") = Chosen("dialer")
    /\ OnWire("listener") = Chosen("dialer") - Unconfirmed + 1
    /\ wire["listener"][OnWire("listener")] = NA
    /\ Asked(Proposed) \notin Stage("dialer").supports
    /\ ~Down("listener") =>
        phase["listener"] = "select" /\ ~garbled /\ wire["dialer"] = <<>>

\* It has refused one the dialer goes by.
RefusedLast ==
    \E b \in (Unconfirmed + 1)..Chosen("dialer") :
        /\ EchoesTo(b - 1)
        /\ b - Unconfirmed <= OnWire("listener")
        /\ wire["listener"][b - Unconfirmed] = NA

DialerView ==
    ~Down("dialer") => InStep \/ RefusedAwaited \/ RefusedLast

Local == \A s \in Side : Progress(s) /\ Frames(s)

\* What the types need of the invariant.
Basis == TypeOK /\ Local /\ DialerLocal /\ ListenerLocal

IInv == Basis /\ InOrderOfPreference /\ Apart /\ ListenerView /\ DialerView

-----------------------------------------------------------------------------
(* Constants and vocabulary. *)

USE DEF Side

LEMMA TokenKinds ==
    /\ \A p : Proposal(p).kind = "protocol" /\ Proposal(p).val = p
    /\ NA.kind = "na"
    /\ \A s : Key(s).kind = "key" /\ Key(s).val = s
    /\ \A s, n : MuxFrame(s, n).kind = "mux"
<1>1. \A p : Proposal(p).kind = "protocol" /\ Proposal(p).val = p
  BY DEF Proposal
<1>2. \A s : Key(s).kind = "key" /\ Key(s).val = s
  BY DEF Key
<1>3. \A s, n : MuxFrame(s, n).kind = "mux"
  BY DEF MuxFrame
<1>4. NA.kind = "na"
  BY DEF NA
<1> QED  BY <1>1, <1>2, <1>3, <1>4

LEMMA Distinct ==
    /\ \A p : Proposal(p) # NA
    /\ \A p, q : Proposal(p) = Proposal(q) => p = q
<1>1. \A p : Proposal(p) # NA
  BY TokenKinds
<1>2. \A p, q : Proposal(p) = Proposal(q) => p = q
  <2>1. \A p : Proposal(p).val = p
    BY TokenKinds
  <2> QED  BY <2>1
<1> QED  BY <1>1, <1>2

LEMMA Tokens ==
    /\ NA \in Token
    /\ \A p \in Name : Proposal(p) \in Token
    /\ \A s \in Side : Key(s) \in Token
    /\ \A s \in Side, n \in 1..MaxFrames : MuxFrame(s, n) \in Token
    /\ \A t \in Token : t.kind = "protocol" => \E p \in Name : t = Proposal(p)
    /\ \A t \in Token : t.kind = "key" => \E s \in Side : t = Key(s)
BY TokenKinds DEF Token

LEMMA Peers ==
    /\ Peer("dialer") = "listener" /\ Peer("listener") = "dialer"
    /\ \A s \in Side : Peer(s) \in Side /\ Peer(s) # s /\ Peer(Peer(s)) = s
BY DEF Peer

\* What Builder guarantees of the chain at hand.
LEMMA Chain ==
  ASSUME TypeOK
  PROVE  /\ Stages \in Nat /\ Stages > 1 /\ DOMAIN pipeline = 1..Stages
         /\ \A i \in 1..Stages :
              /\ pipeline[i].offers \in Seq(Name) /\ Len(pipeline[i].offers) \in Nat
              /\ Len(pipeline[i].offers) > 0
         /\ \A i \in 1..Stages : pipeline[i].kind = "identify" <=> i = 1
         /\ \A i \in 1..Stages : pipeline[i].kind = "mux" <=> i = Stages
<1>1. pipeline \in Seq(Upgrades) /\ Stages > 1
  BY PipelineAssumption DEF TypeOK, Stages
<1>2. Stages \in Nat /\ DOMAIN pipeline = 1..Stages
  BY <1>1 DEF Stages
<1>3. ASSUME NEW i \in 1..Stages
      PROVE  /\ pipeline[i].offers \in Seq(Name) /\ Len(pipeline[i].offers) \in Nat
             /\ Len(pipeline[i].offers) > 0
  <2>1. pipeline[i] \in Upgrades
    BY <1>1, <1>2
  <2>2. pipeline[i].offers \in Seq(Name) /\ pipeline[i].offers # <<>>
    BY <2>1 DEF Upgrades
  <2> QED  BY <2>2
<1>4. /\ pipeline[1].kind = "identify" /\ pipeline[Stages].kind = "mux"
      /\ \A i \in 2..(Stages - 1) : pipeline[i].kind = "ready"
  BY PipelineAssumption DEF TypeOK, Stages
<1>5. \A i \in 1..Stages : i = 1 \/ i = Stages \/ i \in 2..(Stages - 1)
  BY <1>2
<1> QED  BY <1>1, <1>2, <1>3, <1>4, <1>5

\* The types of the variables, side by side.
LEMMA Types ==
  ASSUME TypeOK
  PROVE  /\ stage \in [Side -> 1..Stages] /\ phase \in [Side -> DialerPhases \cup ListenerPhases]
         /\ chosen \in [Side -> Seq(Name)] /\ wire \in [Side -> Seq(Token)]
         /\ muxRead \in [Side -> Seq(Token)] /\ muxSent \in [Side -> 0..MaxFrames]
         /\ held \in Seq({Proposal(p) : p \in Name}) /\ expecting \in Seq(Name)
         /\ tried \in Nat /\ Len(held) \in Nat /\ Len(expecting) \in Nat
         /\ \A s \in Side : /\ stage[s] \in 1..Stages /\ stage[s] \in Nat
                            /\ Len(chosen[s]) \in Nat /\ Len(wire[s]) \in Nat
                            /\ Len(muxRead[s]) \in Nat /\ muxSent[s] \in Nat
                            /\ chosen[s] \in Seq(Name) /\ wire[s] \in Seq(Token)
                            /\ muxRead[s] \in Seq(Token)
<1>1. /\ stage \in [Side -> 1..Stages] /\ phase \in [Side -> DialerPhases \cup ListenerPhases]
      /\ chosen \in [Side -> Seq(Name)] /\ wire \in [Side -> Seq(Token)]
      /\ muxRead \in [Side -> Seq(Token)] /\ muxSent \in [Side -> 0..MaxFrames]
      /\ held \in Seq({Proposal(p) : p \in Name}) /\ expecting \in Seq(Name)
  BY Chain DEF TypeOK
<1>2. tried \in Nat
  BY Chain, <1>1 DEF TypeOK
<1>3. Stages \in Nat
  BY Chain
<1> QED  BY <1>1, <1>2, <1>3, BoundsAssumption

LEMMA AppendFacts ==
  ASSUME NEW S, NEW q \in Seq(S), NEW x \in S
  PROVE  /\ Append(q, x) \in Seq(S) /\ Len(Append(q, x)) = Len(q) + 1
         /\ \A i \in 1..Len(q) : Append(q, x)[i] = q[i]
         /\ Append(q, x)[Len(q) + 1] = x
         /\ Append(q, x) # <<>>
<1>1. /\ Append(q, x) \in Seq(S) /\ Len(Append(q, x)) = Len(q) + 1
      /\ \A i \in 1..Len(q) : Append(q, x)[i] = q[i]
      /\ Append(q, x)[Len(q) + 1] = x /\ Len(q) \in Nat
  OBVIOUS
<1>2. Len(<<>>) = 0
  OBVIOUS
<1> QED  BY <1>1, <1>2

LEMMA HeadTail ==
  ASSUME NEW S, NEW q \in Seq(S), q # <<>>
  PROVE  /\ Head(q) \in S /\ Head(q) = q[1] /\ Tail(q) \in Seq(S)
         /\ Len(q) > 0 /\ Len(Tail(q)) = Len(q) - 1
         /\ \A i \in 1..(Len(q) - 1) : Tail(q)[i] = q[i + 1]
OBVIOUS

LEMMA Empty ==
  ASSUME NEW S, NEW q \in Seq(S)
  PROVE  q = <<>> <=> Len(q) = 0
OBVIOUS

LEMMA Lengths ==
  ASSUME TypeOK
  PROVE  /\ \A s \in Side :
              /\ Chosen(s) \in Nat /\ Chosen(s) = Len(chosen[s])
              /\ OnWire(s) \in Nat /\ OnWire(s) = Len(wire[s])
              /\ HasRead(s) \in Nat /\ HasRead(s) = Len(muxRead[s])
              /\ wire[s] = <<>> <=> OnWire(s) = 0
              /\ muxRead[s] = <<>> <=> HasRead(s) = 0
         /\ Expected \in Nat /\ Expected = Len(expecting) /\ (expecting = <<>> <=> Expected = 0)
         /\ Held \in Nat /\ Held = Len(held) /\ (held = <<>> <=> Held = 0)
<1>1. ASSUME NEW s \in Side
      PROVE  /\ Chosen(s) \in Nat /\ Chosen(s) = Len(chosen[s])
             /\ OnWire(s) \in Nat /\ OnWire(s) = Len(wire[s])
             /\ HasRead(s) \in Nat /\ HasRead(s) = Len(muxRead[s])
             /\ wire[s] = <<>> <=> OnWire(s) = 0
             /\ muxRead[s] = <<>> <=> HasRead(s) = 0
  BY Types, Empty DEF Chosen, OnWire, HasRead
<1>2. /\ Expected \in Nat /\ Expected = Len(expecting) /\ (expecting = <<>> <=> Expected = 0)
      /\ Held \in Nat /\ Held = Len(held) /\ (held = <<>> <=> Held = 0)
  BY Types, Empty DEF Expected, Held
<1> QED  BY <1>1, <1>2

-----------------------------------------------------------------------------
(* The actions, case by case. *)

\* An error, a fault or the end of the stream: the chain of s ends, or its
\* muxer breaks, and all it has written stays on the wire.
Ends(s) ==
    /\ ~Down(s)
    /\ Fail(s)
    /\ faults' \in 0..MaxFaults
    /\ UNCHANGED <<pipeline, stage, dialing, chosen, listening, wire, peer, muxing>>

LEMMA EndsCases ==
  ASSUME TypeOK, NEW s \in Side, EndOfStream(s) \/ WriteFails(s) \/ Break(s)
  PROVE  Ends(s)
<1>1. CASE EndOfStream(s)
  BY <1>1 DEF EndOfStream, Reading, Ends, TypeOK, Down
<1>2. CASE WriteFails(s)
  BY <1>2 DEF WriteFails, Writing, Ends, TypeOK, Down
<1>3. CASE Break(s)
  BY <1>3, BoundsAssumption DEF Break, Ends, TypeOK
<1> QED  BY <1>1, <1>2, <1>3

\* The steps a side takes whichever side it is.
SideStep(s) == SendKey(s) \/ ReadKey(s) \/ PassReady(s) \/ StartMuxer(s)
               \/ MuxWrite(s) \/ MuxRead(s) \/ Ends(s)

LEMMA Cases ==
  ASSUME TypeOK, [Next]_vars
  PROVE  \/ DialerPropose \/ DialerFlush \/ DialerAwait \/ DialerConfirm
         \/ ListenerReceive \/ ListenerSwallow \/ ListenerAnswer
         \/ SideStep("dialer") \/ SideStep("listener")
         \/ UNCHANGED vars
<1>1. CASE DialerStep
  BY <1>1, EndsCases DEF DialerStep, Upgrading, SideStep
<1>2. CASE ListenerStep
  BY <1>2, EndsCases DEF ListenerStep, Upgrading, SideStep
<1>3. ASSUME NEW s \in Side, MuxWrite(s) \/ Break(s) PROVE SideStep(s)
  BY <1>3, EndsCases DEF SideStep
<1> QED  BY <1>1, <1>2, <1>3 DEF Next, Finished

\* What each helper does to the variables it changes.
LEMMA Moves ==
  ASSUME TypeOK, NEW s \in Side
  PROVE  /\ \A ph : Goto(s, ph) => phase'[s] = ph /\ phase'[Peer(s)] = phase[Peer(s)]
         /\ Fail(s) => /\ phase'[s] = IF phase[s] = "connected" THEN "broken" ELSE "failed"
                       /\ phase'[Peer(s)] = phase[Peer(s)]
         /\ \A p : Choose(s, p) => /\ phase'[s] = "upgrade" /\ phase'[Peer(s)] = phase[Peer(s)]
                                   /\ chosen'[s] = Append(chosen[s], p)
                                   /\ chosen'[Peer(s)] = chosen[Peer(s)]
         /\ NextStage(s) => /\ phase'[s] = "select" /\ phase'[Peer(s)] = phase[Peer(s)]
                            /\ stage'[s] = stage[s] + 1 /\ stage'[Peer(s)] = stage[Peer(s)]
                            /\ tried' = IF s = "dialer" THEN 0 ELSE tried
         /\ \A t : Write(s, t) => /\ Len(wire[s]) < WireCap
                                  /\ wire'[s] = Append(wire[s], t)
                                  /\ wire'[Peer(s)] = wire[Peer(s)]
         /\ Consume(s) => /\ wire'[Peer(s)] = Tail(wire[Peer(s)])
                          /\ wire'[s] = wire[s]
<1>1. /\ DOMAIN phase = Side /\ DOMAIN chosen = Side /\ DOMAIN stage = Side
      /\ DOMAIN wire = Side
  BY Types
<1>2. Peer(s) \in Side /\ Peer(s) # s
  BY Peers
<1>3. \A ph : Goto(s, ph) => phase'[s] = ph /\ phase'[Peer(s)] = phase[Peer(s)]
  BY <1>1, <1>2 DEF Goto
<1> USE <1>1, <1>2, <1>3
<1>4. Fail(s) => /\ phase'[s] = IF phase[s] = "connected" THEN "broken" ELSE "failed"
                 /\ phase'[Peer(s)] = phase[Peer(s)]
  BY DEF Fail
<1>5. \A p : Choose(s, p) => /\ phase'[s] = "upgrade" /\ phase'[Peer(s)] = phase[Peer(s)]
                             /\ chosen'[s] = Append(chosen[s], p)
                             /\ chosen'[Peer(s)] = chosen[Peer(s)]
  BY DEF Choose
<1>6. NextStage(s) => /\ phase'[s] = "select" /\ phase'[Peer(s)] = phase[Peer(s)]
                      /\ stage'[s] = stage[s] + 1 /\ stage'[Peer(s)] = stage[Peer(s)]
                      /\ tried' = IF s = "dialer" THEN 0 ELSE tried
  BY DEF NextStage
<1>7. \A t : Write(s, t) => /\ Len(wire[s]) < WireCap
                            /\ wire'[s] = Append(wire[s], t)
                            /\ wire'[Peer(s)] = wire[Peer(s)]
  BY DEF Write
<1>8. Consume(s) => /\ wire'[Peer(s)] = Tail(wire[Peer(s)])
                    /\ wire'[s] = wire[s]
  BY DEF Consume
<1> QED  BY <1>3, <1>4, <1>5, <1>6, <1>7, <1>8

-----------------------------------------------------------------------------
(* The types. *)

\* TypeOK in parts.
ChainTyped ==
    /\ pipeline \in Pipelines /\ stage \in [Side -> DOMAIN pipeline]
    /\ tried \in 0..Len(pipeline[stage["dialer"]].offers)
PhasesTyped ==
    /\ phase \in [Side -> DialerPhases \cup ListenerPhases]
    /\ phase["dialer"] \in DialerPhases /\ phase["listener"] \in ListenerPhases
ChoicesTyped ==
    /\ chosen \in [Side -> Seq(Name)] /\ \A s \in Side : Len(chosen[s]) <= stage[s]
    /\ expecting \in Seq(Name)
    /\ held \in Seq({Proposal(p) : p \in Name}) /\ Len(held) <= Len(expecting) + 1
WiresTyped ==
    wire \in [Side -> Seq(Token)] /\ \A s \in Side : Len(wire[s]) <= WireCap
ListenerTyped == answer \in Token /\ garbled \in BOOLEAN
OutcomeTyped ==
    /\ peer \in [Side -> Side \cup {"none", "garbage"}]
    /\ muxRead \in [Side -> Seq(Token)] /\ muxSent \in [Side -> 0..MaxFrames]
    /\ faults \in 0..MaxFaults

LEMMA TypeParts ==
    TypeOK <=> /\ ChainTyped /\ PhasesTyped /\ ChoicesTyped /\ WiresTyped
               /\ ListenerTyped /\ OutcomeTyped
BY ZenonT(30) DEF TypeOK, ChainTyped, PhasesTyped, ChoicesTyped, WiresTyped,
                  ListenerTyped, OutcomeTyped

LEMMA TypePartsNext ==
    TypeOK' <=> /\ ChainTyped' /\ PhasesTyped' /\ ChoicesTyped' /\ WiresTyped'
                /\ ListenerTyped' /\ OutcomeTyped'
BY TypeParts, PTL

\* A part whose variables do not change.
LEMMA TypesKept ==
  ASSUME TypeOK
  PROVE  /\ UNCHANGED <<pipeline, stage, tried>> => ChainTyped'
         /\ UNCHANGED phase => PhasesTyped'
         /\ UNCHANGED <<chosen, stage, expecting, held>> => ChoicesTyped'
         /\ UNCHANGED wire => WiresTyped'
         /\ UNCHANGED listening => ListenerTyped'
         /\ UNCHANGED <<peer, muxRead, muxSent, faults>> => OutcomeTyped'
<1>1. ChainTyped /\ PhasesTyped /\ ChoicesTyped /\ WiresTyped /\ ListenerTyped /\ OutcomeTyped
  BY TypeParts
<1>2. UNCHANGED <<pipeline, stage, tried>> => ChainTyped'
  BY <1>1 DEF ChainTyped
<1>3. UNCHANGED phase => PhasesTyped'
  BY <1>1 DEF PhasesTyped
<1>4. UNCHANGED <<chosen, stage, expecting, held>> => ChoicesTyped'
  BY <1>1 DEF ChoicesTyped
<1>5. UNCHANGED wire => WiresTyped'
  BY <1>1 DEF WiresTyped
<1>6. UNCHANGED listening => ListenerTyped'
  BY <1>1, Zenon DEF ListenerTyped, listening
<1>7. UNCHANGED <<peer, muxRead, muxSent, faults>> => OutcomeTyped'
  BY <1>1 DEF OutcomeTyped
<1> QED  BY <1>2, <1>3, <1>4, <1>5, <1>6, <1>7

\* A side goes from phase to phase.
LEMMA PhaseTyped ==
  ASSUME TypeOK, NEW s \in Side,
         NEW ph \in (IF s = "dialer" THEN DialerPhases ELSE ListenerPhases), Goto(s, ph)
  PROVE  PhasesTyped'
BY DEF TypeOK, Goto, PhasesTyped

LEMMA InitType == Init => TypeOK
<1> SUFFICES ASSUME Init PROVE TypeOK
  OBVIOUS
<1>1. pipeline \in Seq(Upgrades) /\ Len(pipeline) > 1
  BY PipelineAssumption DEF Init
<1>2. DOMAIN pipeline = 1..Len(pipeline) /\ Len(pipeline) \in Nat /\ 1 \in DOMAIN pipeline
  BY <1>1
<1>3. Len(pipeline[1].offers) \in Nat
  <2>1. pipeline[1] \in Upgrades
    BY <1>1, <1>2
  <2> QED  BY <2>1 DEF Upgrades
<1>4. Len(<<>>) = 0 /\ \A S : <<>> \in Seq(S)
  OBVIOUS
<1>5. /\ pipeline \in Pipelines /\ stage \in [Side -> DOMAIN pipeline] /\ stage["dialer"] = 1
      /\ faults \in 0..MaxFaults /\ \A s \in Side : Len(wire[s]) <= WireCap
      /\ \A s \in Side : Len(chosen[s]) <= stage[s]
  BY <1>2, <1>4, BoundsAssumption DEF Init
<1>6. /\ phase \in [Side -> DialerPhases \cup ListenerPhases]
      /\ phase["dialer"] \in DialerPhases /\ phase["listener"] \in ListenerPhases
  BY DEF Init, DialerPhases, ListenerPhases
<1>7. /\ chosen \in [Side -> Seq(Name)] /\ expecting \in Seq(Name)
      /\ held \in Seq({Proposal(p) : p \in Name}) /\ wire \in [Side -> Seq(Token)]
      /\ muxRead \in [Side -> Seq(Token)]
  BY <1>4 DEF Init
<1>8. peer \in [Side -> Side \cup {"none", "garbage"}] /\ muxSent \in [Side -> 0..MaxFrames]
  BY BoundsAssumption DEF Init
<1>10. answer \in Token /\ garbled \in BOOLEAN
  BY Tokens DEF Init
<1>9. tried \in 0..Len(pipeline[stage["dialer"]].offers) /\ Len(held) <= Len(expecting) + 1
  BY <1>3, <1>4, <1>5 DEF Init
<1> QED  BY <1>5, <1>6, <1>7, <1>8, <1>9, <1>10 DEF TypeOK

\* What a read of s finds is a token.
LEMMA NextToken ==
  ASSUME TypeOK, NEW s \in Side, Arrived(s)
  PROVE  /\ Next1(s) \in Token /\ wire[Peer(s)] # <<>> /\ Next1(s) = wire[Peer(s)][1]
         /\ Len(Tail(wire[Peer(s)])) = Len(wire[Peer(s)]) - 1 /\ Len(wire[Peer(s)]) > 0
         /\ Tail(wire[Peer(s)]) \in Seq(Token)
         /\ \A i \in 1..(Len(wire[Peer(s)]) - 1) : Tail(wire[Peer(s)])[i] = wire[Peer(s)][i + 1]
<1>1. wire[Peer(s)] \in Seq(Token) /\ wire[Peer(s)] # <<>>
  BY Types, Peers DEF Arrived
<1> DEFINE w == wire[Peer(s)]
<1>2. Head(w) \in Token /\ Head(w) = w[1] /\ Len(w) > 0 /\ Len(Tail(w)) = Len(w) - 1
      /\ Tail(w) \in Seq(Token) /\ \A i \in 1..(Len(w) - 1) : Tail(w)[i] = w[i + 1]
  <2> HIDE DEF w
  <2>1. w \in Seq(Token) /\ w # <<>>
    BY <1>1 DEF w
  <2> QED  BY <2>1, HeadTail
<1> QED  BY <1>1, <1>2 DEF Next1

\* A read or a write leaves the wires well-typed.
LEMMA WireTyped ==
  ASSUME TypeOK, NEW s \in Side
  PROVE  /\ Arrived(s) /\ Consume(s) =>
              wire' \in [Side -> Seq(Token)] /\ \A r \in Side : Len(wire'[r]) <= WireCap
         /\ \A t \in Token : Write(s, t) =>
              wire' \in [Side -> Seq(Token)] /\ \A r \in Side : Len(wire'[r]) <= WireCap
<1>1. wire \in [Side -> Seq(Token)] /\ \A r \in Side : Len(wire[r]) <= WireCap
  BY DEF TypeOK
<1>2. \A r \in Side : Len(wire[r]) \in Nat
  BY Types
<1>3. ASSUME Arrived(s), Consume(s)
      PROVE  wire' \in [Side -> Seq(Token)] /\ \A r \in Side : Len(wire'[r]) <= WireCap
  <2>1. /\ Tail(wire[Peer(s)]) \in Seq(Token) /\ Peer(s) \in Side
        /\ Len(Tail(wire[Peer(s)])) = Len(wire[Peer(s)]) - 1
    BY <1>3, NextToken, Peers
  <2>2. wire' = [wire EXCEPT ![Peer(s)] = Tail(wire[Peer(s)])]
    BY <1>3 DEF Consume
  <2> QED  BY ONLY <1>1, <1>2, <2>1, <2>2, BoundsAssumption
<1>4. ASSUME NEW t \in Token, Write(s, t)
      PROVE  wire' \in [Side -> Seq(Token)] /\ \A r \in Side : Len(wire'[r]) <= WireCap
  <2>1. Append(wire[s], t) \in Seq(Token) /\ Len(Append(wire[s], t)) = Len(wire[s]) + 1
    BY <1>1, AppendFacts
  <2> QED  BY <1>1, <1>2, <1>4, <2>1, BoundsAssumption DEF Write
<1> QED  BY <1>3, <1>4

\* The offer at hand.
LEMMA Offer ==
  ASSUME Basis, NEW j \in {tried, tried + 1},
         j = tried => phase["dialer"] = "await",
         j = tried + 1 => phase["dialer"] = "select"
  PROVE  /\ j \in 1..Len(Stage("dialer").offers) /\ j \in Nat
         /\ Stage("dialer").offers[j] \in Name
<1>1. /\ Stage("dialer").offers \in Seq(Name) /\ Len(Stage("dialer").offers) \in Nat
      /\ tried \in Nat
  BY Chain, Types DEF Stage, Basis
<1>2. Offering
  BY DEF Basis, DialerLocal
<1>3. j \in 1..Len(Stage("dialer").offers)
  BY <1>1, <1>2 DEF Offering
<1> QED  BY <1>1, <1>3

\* Choosing another protocol.
LEMMA ChosenTyped ==
  ASSUME TypeOK, NEW s \in Side, NEW p \in Name, Choose(s, p),
         Len(chosen[s]) = stage[s] - 1
  PROVE  chosen' \in [Side -> Seq(Name)] /\ \A r \in Side : Len(chosen'[r]) <= stage[r]
<1>1. /\ chosen' = [chosen EXCEPT ![s] = Append(chosen[s], p)]
      /\ Append(chosen[s], p) \in Seq(Name)
      /\ Len(Append(chosen[s], p)) = Len(chosen[s]) + 1
  BY Types, AppendFacts DEF Choose
<1>2. chosen \in [Side -> Seq(Name)] /\ \A r \in Side : Len(chosen[r]) <= stage[r]
  BY DEF TypeOK
<1>3. \A r \in Side : Len(chosen[r]) \in Nat /\ stage[r] \in Nat
  BY Types
<1> HIDE DEF Side
<1> QED  BY <1>1, <1>2, <1>3

LEMMA ProposeTypes ==
  ASSUME Basis, DialerPropose
  PROVE  TypeOK'
<1> DEFINE T == {Proposal(q) : q \in Name}
           p == Stage("dialer").offers[tried + 1]
<1>0. TypeOK /\ phase["dialer"] = "select"
  BY DEF Basis, DialerPropose
<1>1. p \in Name /\ tried + 1 \in 1..Len(Stage("dialer").offers)
  <2>1. tried \in Nat
    BY <1>0, Types
  <2> QED  BY <1>0, <2>1, Offer
<1>2. Len(chosen["dialer"]) = stage["dialer"] - 1 /\ Len(held) <= Len(expecting)
  <2>1. Held <= Expected + 0
    BY <1>0 DEF Basis, DialerLocal, Holding, Down, Bit
  <2>2. Chosen("dialer") = stage["dialer"] - 1
    BY <1>0 DEF Basis, Local, Progress
  <2>3. Held <= Expected
    BY <1>0, <2>1, Lengths
  <2> QED  BY <2>2, <2>3 DEF Chosen, Held, Expected
<1>3. held' = Append(held, Proposal(p)) /\ tried' = tried + 1
  BY DEF DialerPropose
<1>4. Proposal(p) \in T /\ held \in Seq(T)
  BY <1>0, <1>1, Types
<1>5. \/ Choose("dialer", p) /\ expecting' = Append(expecting, p)
      \/ Goto("dialer", "await") /\ UNCHANGED <<chosen, expecting>>
  BY DEF DialerPropose
<1> HIDE DEF T, p
<1>6. held' \in Seq(T) /\ Len(held') = Len(held) + 1
  BY <1>3, <1>4, AppendFacts
<1>7. ChainTyped'
  <2>1. pipeline' = pipeline /\ stage' = stage
    BY DEF DialerPropose
  <2>2. tried' \in 0..Len(Stage("dialer").offers)
    BY <1>1, <1>3
  <2> QED  BY <1>0, <2>1, <2>2 DEF TypeOK, ChainTyped, Stage
<1>8. PhasesTyped'
  BY <1>0, <1>5, PhaseTyped DEF Choose, DialerPhases
<1>9. ChoicesTyped'
  <2>1. expecting' \in Seq(Name) /\ Len(held') <= Len(expecting') + 1
    <3>1. expecting \in Seq(Name) /\ Len(expecting) \in Nat /\ Len(held) \in Nat
      BY <1>0, Types
    <3>2. Append(expecting, p) \in Seq(Name) /\ Len(Append(expecting, p)) = Len(expecting) + 1
      BY <1>1, <3>1, AppendFacts
    <3> QED  BY <1>2, <1>5, <1>6, <3>1, <3>2
  <2>2. chosen' \in [Side -> Seq(Name)] /\ \A r \in Side : Len(chosen'[r]) <= stage[r]
    BY <1>0, <1>1, <1>2, <1>5, ChosenTyped DEF TypeOK
  <2>3. stage' = stage
    BY DEF DialerPropose
  <2> QED  BY <1>6, <2>1, <2>2, <2>3 DEF ChoicesTyped, T
<1>10. WiresTyped' /\ ListenerTyped' /\ OutcomeTyped'
  BY <1>0, TypesKept DEF DialerPropose, muxing
<1> QED  BY <1>7, <1>8, <1>9, <1>10, TypePartsNext

LEMMA FlushTypes ==
  ASSUME Basis, DialerFlush
  PROVE  TypeOK'
<1> DEFINE T == {Proposal(q) : q \in Name}
<1>0. TypeOK
  BY DEF Basis
<1>1. held \in Seq(T) /\ held # <<>> /\ T \subseteq Token
  BY <1>0, Types, Tokens DEF DialerFlush
<1>2. wire' = [wire EXCEPT !["dialer"] = Append(wire["dialer"], Head(held))]
      /\ Len(wire["dialer"]) < WireCap /\ held' = Tail(held)
  BY DEF DialerFlush
<1> HIDE DEF T
<1>3. Head(held) \in Token /\ held' \in Seq(T) /\ Len(held') = Len(held) - 1
  BY <1>1, <1>2, HeadTail
<1>4. Append(wire["dialer"], Head(held)) \in Seq(Token)
      /\ Len(Append(wire["dialer"], Head(held))) = Len(wire["dialer"]) + 1
  BY <1>0, <1>3, Types, AppendFacts
<1>5. wire \in [Side -> Seq(Token)] /\ \A s \in Side : Len(wire[s]) <= WireCap
  BY <1>0 DEF TypeOK
<1>6. \A s \in Side : Len(wire[s]) \in Nat
  BY <1>0, Types
<1>7. WiresTyped'
  <2>1. wire' \in [Side -> Seq(Token)]
    BY <1>2, <1>4, <1>5
  <2>2. \A s \in Side : Len(wire'[s]) <= WireCap
    BY <1>2, <1>4, <1>5, <1>6, BoundsAssumption
  <2> QED  BY <2>1, <2>2 DEF WiresTyped
<1>8. ChoicesTyped'
  <2>1. UNCHANGED <<chosen, stage, expecting>>
    BY DEF DialerFlush
  <2>2. Len(held') <= Len(expecting) + 1
    BY <1>0, <1>3, Types DEF TypeOK
  <2> QED  BY <1>0, <1>3, <2>1, <2>2 DEF ChoicesTyped, TypeOK, T
<1>9. ChainTyped' /\ PhasesTyped' /\ ListenerTyped' /\ OutcomeTyped'
  BY <1>0, TypesKept DEF DialerFlush, muxing
<1> QED  BY <1>7, <1>8, <1>9, TypePartsNext

LEMMA AwaitTypes ==
  ASSUME Basis, DialerAwait
  PROVE  TypeOK'
<1> DEFINE p == Stage("dialer").offers[tried]
<1>0. TypeOK /\ phase["dialer"] = "await"
  BY DEF Basis, DialerAwait
<1>1. p \in Name /\ Len(chosen["dialer"]) = stage["dialer"] - 1
  <2>1. tried \in Nat
    BY <1>0, Types
  <2>2. p \in Name
    BY <1>0, <2>1, Offer
  <2> QED  BY <1>0, <2>2 DEF Basis, Local, Progress, Chosen
<1>2. \/ Choose("dialer", p)
      \/ Goto("dialer", "select") /\ UNCHANGED chosen
      \/ Goto("dialer", "failed") /\ UNCHANGED chosen
  BY DEF DialerAwait
<1> HIDE DEF p
<1>3. PhasesTyped'
  BY <1>0, <1>2, PhaseTyped DEF Choose, DialerPhases
<1>4. ChoicesTyped'
  <2>1. chosen' \in [Side -> Seq(Name)] /\ \A r \in Side : Len(chosen'[r]) <= stage[r]
    BY <1>0, <1>1, <1>2, ChosenTyped DEF TypeOK
  <2>2. UNCHANGED <<stage, expecting, held>>
    BY DEF DialerAwait, dialing
  <2> QED  BY <1>0, <2>1, <2>2 DEF ChoicesTyped, TypeOK
<1>5. WiresTyped'
  BY <1>0, WireTyped DEF DialerAwait, Readable, WiresTyped
<1>6. ChainTyped' /\ ListenerTyped' /\ OutcomeTyped'
  BY <1>0, TypesKept DEF DialerAwait, dialing, muxing
<1> QED  BY <1>3, <1>4, <1>5, <1>6, TypePartsNext

LEMMA ConfirmTypes ==
  ASSUME Basis, DialerConfirm
  PROVE  TypeOK'
<1>0. TypeOK
  BY DEF Basis
<1>1. WiresTyped'
  BY <1>0, WireTyped DEF DialerConfirm, WiresTyped
<1>2. PhasesTyped'
  <2>1. CASE UNCHANGED phase
    BY <1>0, <2>1, TypesKept
  <2>2. CASE Fail("dialer")
    BY <1>0, <2>2, PhaseTyped DEF Fail, DialerPhases
  <2> QED  BY <2>1, <2>2 DEF DialerConfirm
<1>3. ChoicesTyped'
  <2>1. held = <<>> /\ expecting # <<>>
    BY DEF DialerConfirm, Arrived
  <2>2. Tail(expecting) \in Seq(Name) /\ Len(Tail(expecting)) \in Nat /\ Len(held) = 0
    BY <1>0, <2>1, Types, HeadTail
  <2>3. expecting' \in Seq(Name) /\ Len(held) <= Len(expecting') + 1
    <3>1. Len(expecting) \in Nat /\ expecting \in Seq(Name)
      BY <1>0, Types
    <3>2. expecting' = Tail(expecting) \/ expecting' = expecting
      BY DEF DialerConfirm
    <3> QED  BY <2>2, <3>1, <3>2
  <2>4. UNCHANGED <<chosen, stage, held>>
    BY DEF DialerConfirm
  <2> QED  BY <1>0, <2>3, <2>4 DEF ChoicesTyped, TypeOK
<1>4. ChainTyped' /\ ListenerTyped' /\ OutcomeTyped'
  BY <1>0, TypesKept DEF DialerConfirm, muxing
<1> QED  BY <1>1, <1>2, <1>3, <1>4, TypePartsNext

LEMMA ListenerTypes ==
  ASSUME Basis, ListenerReceive \/ ListenerSwallow \/ ListenerAnswer
  PROVE  TypeOK'
<1>0. TypeOK
  BY DEF Basis
<1>1. CASE ListenerReceive
  <2>1. WiresTyped'
    BY <1>0, <1>1, WireTyped DEF ListenerReceive, Readable, WiresTyped
  <2>2. PhasesTyped'
    <3>1. CASE UNCHANGED phase
      BY <1>0, <3>1, TypesKept
    <3>2. CASE Fail("listener") \/ Goto("listener", "answer")
      BY <1>0, <3>2, PhaseTyped DEF Fail, ListenerPhases
    <3> QED  BY <1>1, <3>1, <3>2 DEF ListenerReceive
  <2>3. ListenerTyped'
    <3>1. Next1("listener") \in Token
      BY <1>0, <1>1, NextToken DEF ListenerReceive, Readable
    <3>2. answer' \in Token
      BY <1>0, <1>1, <3>1, Tokens DEF ListenerReceive, TypeOK
    <3>3. garbled' = garbled \/ garbled' = TRUE
      BY <1>1, Zenon DEF ListenerReceive
    <3>4. garbled' \in BOOLEAN
      BY <1>0, <3>3, Zenon DEF TypeOK
    <3> QED  BY <3>2, <3>4, Zenon DEF ListenerTyped
  <2>4. ChainTyped' /\ ChoicesTyped' /\ OutcomeTyped'
    BY <1>0, <1>1, TypesKept DEF ListenerReceive, dialing, muxing
  <2> QED  BY <2>1, <2>2, <2>3, <2>4, TypePartsNext
<1>2. CASE ListenerSwallow
  <2>1. WiresTyped'
    BY <1>0, <1>2, WireTyped DEF ListenerSwallow, Readable, WiresTyped
  <2>2. PhasesTyped'
    BY <1>0, <1>2 DEF ListenerSwallow, TypeOK, PhasesTyped, ListenerPhases
  <2>3. ChainTyped' /\ ChoicesTyped' /\ ListenerTyped' /\ OutcomeTyped'
    BY <1>0, <1>2, TypesKept DEF ListenerSwallow, dialing, muxing
  <2> QED  BY <2>1, <2>2, <2>3, TypePartsNext
<1>3. CASE ListenerAnswer
  <2>1. WiresTyped'
    BY <1>0, <1>3, WireTyped DEF ListenerAnswer, TypeOK, WiresTyped
  <2>2. CASE answer = NA
    <3>1. PhasesTyped'
      BY <1>0, <1>3, <2>2, PhaseTyped DEF ListenerAnswer, ListenerPhases
    <3>2. ChainTyped' /\ ChoicesTyped' /\ ListenerTyped' /\ OutcomeTyped'
      BY <1>0, <1>3, <2>2, TypesKept DEF ListenerAnswer, dialing, muxing
    <3> QED  BY <2>1, <3>1, <3>2, TypePartsNext
  <2>3. CASE answer # NA
    <3>1. answer.val \in Name /\ Choose("listener", answer.val)
      BY <1>3, <2>3, TokenKinds DEF Basis, ListenerLocal, ListenerAnswer
    <3>2. Len(chosen["listener"]) = stage["listener"] - 1
      BY <1>3 DEF Basis, Local, Progress, ListenerAnswer, Chosen
    <3>3. PhasesTyped'
      BY <1>0, <3>1, PhaseTyped DEF Choose, ListenerPhases
    <3>4. ChoicesTyped'
      <4>1. chosen' \in [Side -> Seq(Name)] /\ \A r \in Side : Len(chosen'[r]) <= stage[r]
        BY <1>0, <3>1, <3>2, ChosenTyped
      <4>2. UNCHANGED <<stage, expecting, held>>
        BY <1>3 DEF ListenerAnswer, dialing
      <4> QED  BY <1>0, <4>1, <4>2 DEF ChoicesTyped, TypeOK
    <3>5. ChainTyped' /\ ListenerTyped' /\ OutcomeTyped'
      BY <1>0, <1>3, TypesKept DEF ListenerAnswer, dialing, muxing
    <3> QED  BY <2>1, <3>3, <3>4, <3>5, TypePartsNext
  <2> QED  BY <2>2, <2>3
<1> QED  BY <1>1, <1>2, <1>3

\* The next stage exists.
LEMMA StageTyped ==
  ASSUME TypeOK, NEW s \in Side, NextStage(s), stage[s] < Stages, UNCHANGED pipeline
  PROVE  ChainTyped' /\ PhasesTyped' /\ \A r \in Side : stage[r] <= stage'[r]
<1>0. /\ stage' = [stage EXCEPT ![s] = stage[s] + 1] /\ Goto(s, "select")
      /\ tried' = IF s = "dialer" THEN 0 ELSE tried
  BY DEF NextStage
<1>1. Stages \in Nat /\ DOMAIN pipeline = 1..Stages /\ stage \in [Side -> 1..Stages]
  BY Chain, Types
<1>2. stage' \in [Side -> 1..Stages] /\ \A r \in Side : stage[r] <= stage'[r]
  BY <1>0, <1>1
<1>3. PhasesTyped'
  BY <1>0, PhaseTyped DEF DialerPhases, ListenerPhases
<1>4. tried' \in 0..Len(pipeline[stage'["dialer"]].offers)
  <2>1. CASE s = "dialer"
    <3>1. stage'["dialer"] \in 1..Stages
      BY <1>2
    <3>2. Len(pipeline[stage'["dialer"]].offers) \in Nat
      BY <3>1, Chain
    <3> QED  BY <1>0, <2>1, <3>2
  <2>2. CASE s = "listener"
    BY <1>0, <1>1, <2>2 DEF TypeOK
  <2> QED  BY <2>1, <2>2
<1> QED  BY <1>1, <1>2, <1>3, <1>4 DEF ChainTyped, TypeOK

LEMMA KeyTypes ==
  ASSUME Basis, NEW s \in Side, SendKey(s) \/ ReadKey(s)
  PROVE  TypeOK'
<1>0. TypeOK
  BY DEF Basis
<1>1. CASE SendKey(s)
  <2>1. WiresTyped'
    BY <1>0, <1>1, WireTyped, Tokens DEF SendKey, WiresTyped
  <2>2. PhasesTyped'
    BY <1>0, <1>1, PhaseTyped DEF SendKey, DialerPhases, ListenerPhases
  <2>3. ChainTyped' /\ ChoicesTyped' /\ ListenerTyped' /\ OutcomeTyped'
    BY <1>0, <1>1, TypesKept DEF SendKey, dialing, muxing
  <2> QED  BY <2>1, <2>2, <2>3, TypePartsNext
<1>2. CASE ReadKey(s)
  <2>1. WiresTyped'
    BY <1>0, <1>2, WireTyped DEF ReadKey, Readable, WiresTyped
  <2>2. stage[s] < Stages
    BY <1>0, <1>2, Chain DEF Basis, Local, Progress, ReadKey
  <2>3. ChainTyped' /\ PhasesTyped' /\ \A r \in Side : stage[r] <= stage'[r]
    BY <1>0, <1>2, <2>2, StageTyped DEF ReadKey
  <2>4. ChoicesTyped'
    <3>1. UNCHANGED <<chosen, expecting, held>>
      BY <1>2 DEF ReadKey
    <3>2. \A r \in Side : Len(chosen[r]) <= stage'[r]
      <4>1. \A r \in Side : stage'[r] \in Nat
        BY <1>2, Types, <1>0 DEF ReadKey, NextStage
      <4>2. \A r \in Side : Len(chosen[r]) \in Nat /\ stage[r] \in Nat /\ Len(chosen[r]) <= stage[r]
        BY <1>0, Types DEF TypeOK
      <4> HIDE DEF Side
      <4> QED  BY <2>3, <4>1, <4>2
    <3> QED  BY <1>0, <3>1, <3>2 DEF ChoicesTyped, TypeOK
  <2>5. OutcomeTyped'
    <3>1. Next1(s) \in Token
      BY <1>0, <1>2, NextToken DEF ReadKey, Readable
    <3>2. Next1(s).kind = "key" => Next1(s).val \in Side
      BY <3>1, Tokens, TokenKinds
    <3>3. peer' \in [Side -> Side \cup {"none", "garbage"}]
      BY <1>0, <1>2, <3>2 DEF ReadKey, TypeOK
    <3> QED  BY <1>0, <1>2, <3>3 DEF ReadKey, muxing, TypeOK, OutcomeTyped
  <2>6. ListenerTyped'
    BY <1>0, <1>2, TypesKept DEF ReadKey
  <2> QED  BY <2>1, <2>3, <2>4, <2>5, <2>6, TypePartsNext
<1> QED  BY <1>1, <1>2

LEMMA PassTypes ==
  ASSUME Basis, NEW s \in Side, PassReady(s) \/ StartMuxer(s)
  PROVE  TypeOK'
<1>0. TypeOK
  BY DEF Basis
<1>1. CASE PassReady(s)
  <2>1. stage[s] \in 1..Stages /\ Stage(s).kind = "ready"
    BY <1>0, <1>1, Types DEF PassReady
  <2>2. stage[s] < Stages
    BY <1>0, <2>1, Chain DEF Stage
  <2>3. ChainTyped' /\ PhasesTyped' /\ \A r \in Side : stage[r] <= stage'[r]
    BY <1>0, <1>1, <2>2, StageTyped DEF PassReady
  <2>4. ChoicesTyped'
    <3>1. UNCHANGED <<chosen, expecting, held>>
      BY <1>1 DEF PassReady
    <3>2. \A r \in Side : Len(chosen[r]) <= stage'[r]
      <4>1. \A r \in Side : stage'[r] \in Nat
        BY <1>1, Types, <1>0 DEF PassReady, NextStage
      <4>2. \A r \in Side : Len(chosen[r]) \in Nat /\ stage[r] \in Nat /\ Len(chosen[r]) <= stage[r]
        BY <1>0, Types DEF TypeOK
      <4> HIDE DEF Side
      <4> QED  BY <2>3, <4>1, <4>2
    <3> QED  BY <1>0, <3>1, <3>2 DEF ChoicesTyped, TypeOK
  <2>5. WiresTyped' /\ ListenerTyped' /\ OutcomeTyped'
    BY <1>0, <1>1, TypesKept DEF PassReady, muxing
  <2> QED  BY <2>3, <2>4, <2>5, TypePartsNext
<1>2. CASE StartMuxer(s)
  <2>1. PhasesTyped'
    BY <1>0, <1>2, PhaseTyped DEF StartMuxer, DialerPhases, ListenerPhases
  <2>2. ChainTyped' /\ ChoicesTyped' /\ WiresTyped' /\ ListenerTyped' /\ OutcomeTyped'
    BY <1>0, <1>2, TypesKept DEF StartMuxer, dialing, muxing
  <2> QED  BY <2>1, <2>2, TypePartsNext
<1> QED  BY <1>1, <1>2

LEMMA MuxTypes ==
  ASSUME Basis, NEW s \in Side, MuxWrite(s) \/ MuxRead(s)
  PROVE  TypeOK'
<1>0. TypeOK
  BY DEF Basis
<1>1. CASE MuxWrite(s)
  <2>1. muxSent \in [Side -> 0..MaxFrames] /\ muxSent[s] < MaxFrames
    BY <1>0, <1>1 DEF TypeOK, MuxWrite
  <2>2. muxSent[s] + 1 \in 1..MaxFrames
    BY <2>1, BoundsAssumption
  <2>3. WiresTyped'
    BY <1>0, <1>1, <2>2, WireTyped, Tokens DEF MuxWrite, WiresTyped
  <2>4. OutcomeTyped'
    BY <1>0, <1>1, <2>1, <2>2, BoundsAssumption DEF MuxWrite, OutcomeTyped, TypeOK
  <2>5. ChainTyped' /\ PhasesTyped' /\ ChoicesTyped' /\ ListenerTyped'
    BY <1>0, <1>1, TypesKept DEF MuxWrite, dialing
  <2> QED  BY <2>3, <2>4, <2>5, TypePartsNext
<1>2. CASE MuxRead(s)
  <2>1. WiresTyped'
    BY <1>0, <1>2, WireTyped DEF MuxRead, Readable, WiresTyped
  <2>2. OutcomeTyped'
    <3>1. Next1(s) \in Token /\ muxRead[s] \in Seq(Token)
      BY <1>0, <1>2, NextToken, Types DEF MuxRead, Readable
    <3>2. Append(muxRead[s], Next1(s)) \in Seq(Token)
      BY <3>1, AppendFacts
    <3> QED  BY <1>0, <1>2, <3>2 DEF MuxRead, OutcomeTyped, TypeOK
  <2>3. ChainTyped' /\ PhasesTyped' /\ ChoicesTyped' /\ ListenerTyped'
    BY <1>0, <1>2, TypesKept DEF MuxRead, dialing
  <2> QED  BY <2>1, <2>2, <2>3, TypePartsNext
<1> QED  BY <1>1, <1>2

LEMMA EndTypes ==
  ASSUME Basis, NEW s \in Side, Ends(s)
  PROVE  TypeOK'
<1>0. TypeOK
  BY DEF Basis
<1>1. PhasesTyped'
  BY <1>0, PhaseTyped DEF Ends, Fail, DialerPhases, ListenerPhases
<1>2. OutcomeTyped'
  BY <1>0 DEF Ends, OutcomeTyped, TypeOK, muxing
<1>3. ChainTyped' /\ ChoicesTyped' /\ WiresTyped' /\ ListenerTyped'
  BY <1>0, TypesKept DEF Ends, dialing
<1> QED  BY <1>1, <1>2, <1>3, TypePartsNext

LEMMA TypeStep ==
  ASSUME Basis, [Next]_vars
  PROVE  TypeOK'
<1>0. TypeOK
  BY DEF Basis
<1>1. UNCHANGED vars => TypeOK'
  <2> SUFFICES ASSUME UNCHANGED vars PROVE TypeOK'
    OBVIOUS
  <2>1. /\ ChainTyped' /\ PhasesTyped' /\ ChoicesTyped' /\ WiresTyped'
        /\ ListenerTyped' /\ OutcomeTyped'
    BY <1>0, TypesKept DEF vars, listening
  <2> QED  BY <2>1, TypePartsNext
<1> QED  BY <1>0, <1>1, Cases, ProposeTypes, FlushTypes, AwaitTypes, ConfirmTypes, ListenerTypes,
            KeyTypes, PassTypes, MuxTypes, EndTypes DEF SideStep

-----------------------------------------------------------------------------
(* What is read is what should be read. *)

\* The numbers the invariant counts with.
LEMMA Counts ==
  ASSUME TypeOK
  PROVE  /\ Proposed \in Nat /\ Answered \in Nat /\ Unconfirmed \in Int
         /\ Bit(phase["dialer"] = "await") \in {0, 1}
         /\ \A k \in Int : Ahead(k) \in Int
         /\ \A k \in Int : OnWire("dialer") =
                             k + Ahead(k) + (muxSent["dialer"] - HasRead("listener"))
<1>1. /\ OnWire("dialer") \in Nat /\ muxSent["dialer"] \in Nat
      /\ HasRead("listener") \in Nat /\ Expected \in Nat
      /\ Chosen("dialer") \in Nat /\ Chosen("listener") \in Nat
  BY Types, Lengths
<1>2. \A b : Bit(b) \in {0, 1}
  BY DEF Bit
<1>3. Proposed \in Nat /\ Answered \in Nat /\ Unconfirmed \in Int
  BY <1>1, <1>2 DEF Proposed, Answered, Unconfirmed
<1>4. \A k \in Int : Ahead(k) \in Int
  BY <1>1 DEF Ahead
<1>5. \A k \in Int : OnWire("dialer") =
                       k + Ahead(k) + (muxSent["dialer"] - HasRead("listener"))
  BY <1>1 DEF Ahead
<1> QED  BY <1>2, <1>3, <1>4, <1>5

\* A muxer starts after the last stage.
LEMMA Connected ==
  ASSUME Basis, NEW s \in Side
  PROVE  /\ muxSent[s] > 0 \/ muxRead[s] # <<>> =>
              phase[s] \in {"connected", "broken"}
         /\ phase[s] \in {"connected", "broken"} =>
              Chosen(s) = Stages /\ stage[s] = Stages /\ stage[s] > 1
         /\ muxRead[s] = <<>> => HasRead(s) = 0
         /\ Chosen(s) <= Stages
<1>1. Stages \in Nat /\ Stages > 1 /\ muxSent[s] \in Nat /\ stage[s] \in 1..Stages
      /\ Chosen(s) \in Nat
  BY Chain, Types, Lengths DEF Basis
<1>2. Progress(s) /\ Frames(s)
  BY DEF Basis, Local
<1>3. muxRead[s] = <<>> => HasRead(s) = 0
  BY Lengths DEF Basis
<1>4. Chosen(s) \in {stage[s] - 1, stage[s]}
  BY <1>2 DEF Progress
<1>5. Chosen(s) <= Stages
  BY <1>1, <1>4
<1>6. muxSent[s] > 0 \/ muxRead[s] # <<>> => phase[s] \in {"connected", "broken"}
  BY <1>1, <1>2 DEF Frames, MuxIdle
<1>7. phase[s] \in {"connected", "broken"} =>
        Chosen(s) = Stages /\ stage[s] = Stages /\ stage[s] > 1
  BY <1>1, <1>2 DEF Progress
<1> QED  BY <1>3, <1>5, <1>6, <1>7

LEMMA UnreadCounts ==
  ASSUME TypeOK, NEW k \in {0, 1}, Unread(k)
  PROVE  /\ Ahead(k) \in Nat /\ Answered + Ahead(k) <= Stages
         /\ OnWire("dialer") = k + Ahead(k) + (muxSent["dialer"] - HasRead("listener"))
         /\ HasRead("listener") <= muxSent["dialer"]
<1>1. k \in Int
  OBVIOUS
<1>2. Ahead(k) \in Int
         /\ OnWire("dialer") = k + Ahead(k) + (muxSent["dialer"] - HasRead("listener"))
  BY <1>1, Counts
<1>3. Ahead(k) >= 0 /\ Answered + Ahead(k) <= Stages
         /\ HasRead("listener") <= muxSent["dialer"]
  BY DEF Unread
<1>4. Ahead(k) \in Nat
  BY <1>2, <1>3
<1> QED  BY <1>2, <1>3, <1>4

\* A listener that is not in a negotiation has read no garbage, and has
\* answered what it has chosen.
LEMMA Upgraded ==
  ASSUME Basis, phase["listener"] \in {"upgrade", "readKey", "connected"}
  PROVE  /\ ~Down("listener") /\ ~garbled
         /\ Chosen("listener") = stage["listener"]
         /\ Answered = Chosen("listener")
<1>1. ~garbled
  <2>1. garbled => phase["listener"] \in {"select", "failed"}
    BY DEF Basis, ListenerLocal
  <2> QED  BY <2>1
<1>2. Chosen("listener") = stage["listener"] /\ Chosen("listener") \in Nat
  BY Types, Lengths DEF Basis, Local, Progress
<1>3. Answered = Chosen("listener")
  BY <1>2 DEF Answered, Bit
<1> QED  BY <1>1, <1>2, <1>3 DEF Down

LEMMA ListenerReadsKey ==
  ASSUME IInv, ReadKey("listener")
  PROVE  /\ Next1("listener") = Key("dialer")
         /\ \A k \in {0, 1} : Unread(k) => k = 1
<1>0. Basis /\ TypeOK /\ phase["listener"] = "readKey" /\ Readable("listener")
  BY DEF IInv, Basis, ReadKey
<1>1. ~Down("listener") /\ ~garbled /\ stage["listener"] = 1
      /\ Chosen("listener") = 1 /\ Answered = 1
  <2>1. stage["listener"] = 1
    BY <1>0 DEF Basis, Local, Progress
  <2> QED  BY <1>0, <2>1, Upgraded
<1>2. muxRead["listener"] = <<>> /\ HasRead("listener") = 0
  BY <1>0, Connected
<1>3. OnWire("dialer") > 0 /\ Next1("listener") = wire["dialer"][1]
  BY <1>0, NextToken, Peers DEF Readable, OnWire
<1>4. ASSUME NEW k \in {0, 1}, Unread(k)
      PROVE  k = 1 /\ Next1("listener") = Key("dialer")
  <2>1. /\ Ahead(k) \in Nat
        /\ OnWire("dialer") = k + Ahead(k) + (muxSent["dialer"] - HasRead("listener"))
    BY <1>0, <1>4, UnreadCounts
  <2>2. CASE k = 1
    BY <1>1, <1>3, <1>4, <2>1, <2>2 DEF Unread, KeyAt
  <2>3. CASE k = 0
    <3>1. 1 + Ahead(k) <= 1 /\ muxSent["dialer"] = 0
      BY <1>1, <1>4, <2>3 DEF Unread
    <3> QED  BY <1>2, <1>3, <2>1, <2>3, <3>1
  <2> QED  BY <2>2, <2>3
<1>5. \E k \in {0, 1} : Unread(k)
  BY <1>1 DEF IInv, ListenerView
<1> QED  BY <1>4, <1>5

LEMMA DialerReadsKey ==
  ASSUME IInv, ReadKey("dialer")
  PROVE  /\ Next1("dialer") = Key("listener")
         /\ InStep /\ Chosen("listener") = 1 /\ Unconfirmed = 1
         /\ SentKey("listener") \/ Down("listener")
<1>0. Basis /\ TypeOK /\ phase["dialer"] = "readKey" /\ Readable("dialer")
  BY DEF IInv, Basis, ReadKey
<1>1. Chosen("dialer") = 1 /\ Unconfirmed = 1 /\ Proposed = 1 /\ ~Down("dialer")
  <2>1. Expected = 0
    BY <1>0, Lengths DEF Readable
  <2>2. Chosen("dialer") = 1
    BY <1>0 DEF Basis, Local, Progress
  <2> QED  BY <1>0, <2>1, <2>2 DEF Unconfirmed, Proposed, Bit, Down
<1>2. InStep
  BY <1>0, <1>1 DEF IInv, DialerView, RefusedAwaited, RefusedLast
<1>3. Chosen("listener") = 1
  <2>1. Chosen("listener") \in Nat
    BY <1>0, Types, Lengths
  <2>2. Unconfirmed <= Chosen("listener") /\ Chosen("listener") <= Proposed
    BY <1>2 DEF InStep, EchoesInStep, Written, EchoesTo
  <2> QED  BY <1>1, <2>1, <2>2
<1>4. muxSent["listener"] = 0 /\ HasRead("dialer") = 0
  <2>1. Stages > 1 /\ Stages \in Nat /\ muxSent["listener"] \in Nat
    BY <1>0, Chain, Types, Lengths
  <2>2. phase["listener"] \notin {"connected", "broken"}
    BY <1>0, <1>3, <2>1, Connected
  <2>3. ~(muxSent["listener"] > 0) /\ HasRead("dialer") = 0
    BY <1>0, <2>2, Connected
  <2> QED  BY <2>1, <2>3
<1>5. OnWire("listener") > 0 /\ Next1("dialer") = wire["listener"][1]
  BY <1>0, NextToken, Peers DEF Readable, OnWire
<1>6. PICK k \in {0, 1} :
        /\ OnWire("listener") + HasRead("dialer") =
             Chosen("listener") - Unconfirmed + k + muxSent["listener"]
        /\ k = 1 => wire["listener"][Chosen("listener") - Unconfirmed + 1] = Key("listener")
        /\ ~Down("listener") => (k = 1 <=> stage["dialer"] = 1 /\ SentKey("listener"))
  BY <1>2 DEF InStep, EchoesInStep, Written
<1>7. OnWire("listener") \in Nat
  BY <1>0, Lengths
<1>8. k = 1 /\ Chosen("listener") - Unconfirmed + 1 = 1
  BY <1>1, <1>3, <1>4, <1>5, <1>6, <1>7
<1> QED  BY <1>1, <1>2, <1>3, <1>5, <1>6, <1>8

\* The next frame of a muxer.
LEMMA FrameAt ==
  ASSUME TypeOK, NEW s \in Side, NEW r \in Side, s = Peer(r), Frames(s), wire[s] # <<>>,
         OnWire(s) = muxSent[s] - HasRead(r)
  PROVE  wire[s][1] = MuxFrame(s, HasRead(r) + 1)
<1>1. OnWire(s) \in Nat /\ muxSent[s] \in Nat /\ HasRead(r) \in Nat
      /\ wire[s] \in Seq(Token)
  BY Types, Lengths
<1>2. OnWire(s) # 0
  BY Lengths
<1>3. OnWire(s) = muxSent[s] - HasRead(r)
  OBVIOUS
<1>4. 1 \in 1..OnWire(s) /\ OnWire(s) - 1 < muxSent[s]
      /\ muxSent[s] - (OnWire(s) - 1) = HasRead(r) + 1
  BY <1>1, <1>2, <1>3
<1> QED  BY <1>4 DEF Frames, MuxLast

LEMMA ListenerReadsFrame ==
  ASSUME IInv, MuxRead("listener")
  PROVE  /\ Next1("listener") = MuxFrame("dialer", HasRead("listener") + 1)
         /\ \A k \in {0, 1} : Unread(k) => k = 0 /\ Ahead(k) = 0
<1>0. Basis /\ TypeOK /\ phase["listener"] = "connected" /\ Readable("listener")
  BY DEF IInv, Basis, MuxRead
<1>1. ~Down("listener") /\ ~garbled /\ Chosen("listener") = Stages /\ Answered = Stages
      /\ stage["listener"] # 1
  <2>1. Chosen("listener") = Stages /\ stage["listener"] # 1
    BY <1>0, Connected
  <2> QED  BY <1>0, <2>1, Upgraded
<1>2. ASSUME NEW k \in {0, 1}, Unread(k) PROVE k = 0 /\ Ahead(k) = 0
  <2>1. k = 0
    BY <1>1, <1>2 DEF Unread
  <2>2. Ahead(k) \in Nat /\ Answered + Ahead(k) <= Stages /\ Stages \in Nat
    BY <1>0, <1>2, UnreadCounts, Chain
  <2>3. Ahead(k) = 0
    BY <1>1, <2>2
  <2> QED  BY <2>1, <2>3
<1>3. PICK k \in {0, 1} : Unread(k)
  BY <1>1 DEF IInv, ListenerView
<1>4. OnWire("dialer") = muxSent["dialer"] - HasRead("listener")
  <2>1. k = 0 /\ Ahead(k) = 0
    BY <1>2, <1>3
  <2>2. OnWire("dialer") = k + Ahead(k) + (muxSent["dialer"] - HasRead("listener"))
    BY <1>0, <1>3, UnreadCounts
  <2>3. muxSent["dialer"] \in Nat /\ HasRead("listener") \in Nat
    BY <1>0, Types, Lengths
  <2> QED  BY <2>1, <2>2, <2>3
<1>5. wire["dialer"] # <<>> /\ Next1("listener") = wire["dialer"][1]
  BY <1>0, NextToken, Peers DEF Readable, OnWire
<1> QED  BY <1>0, <1>2, <1>4, <1>5, FrameAt, Peers DEF Basis, Local

LEMMA DialerReadsFrame ==
  ASSUME IInv, MuxRead("dialer")
  PROVE  Next1("dialer") = MuxFrame("listener", HasRead("dialer") + 1)
<1>0. Basis /\ TypeOK /\ phase["dialer"] = "connected" /\ Readable("dialer")
  BY DEF IInv, Basis, MuxRead
<1>1. /\ Chosen("dialer") = Stages /\ Unconfirmed = Stages /\ ~Down("dialer")
      /\ Stages \in Nat /\ stage["dialer"] # 1
  <2>1. Expected = 0
    BY <1>0, Lengths DEF Readable
  <2>2. Chosen("dialer") = Stages /\ Stages \in Nat /\ stage["dialer"] # 1
    BY <1>0, Connected, Chain
  <2> QED  BY <1>0, <2>1, <2>2 DEF Unconfirmed, Down
<1>2. InStep
  BY <1>0, <1>1 DEF IInv, DialerView, RefusedAwaited, RefusedLast
<1>3. Chosen("listener") = Stages
  <2>1. Chosen("listener") \in Nat /\ Chosen("listener") <= Stages
    BY <1>0, Types, Lengths, Connected
  <2>2. Unconfirmed <= Chosen("listener")
    BY <1>2 DEF InStep, EchoesInStep, Written, EchoesTo
  <2> QED  BY <1>1, <2>1, <2>2
<1>4. OnWire("listener") = muxSent["listener"] - HasRead("dialer")
  <2>1. PICK k \in {0, 1} :
          /\ OnWire("listener") + HasRead("dialer") =
               Chosen("listener") - Unconfirmed + k + muxSent["listener"]
          /\ k = 1 => stage["dialer"] = 1
    BY <1>2 DEF InStep, EchoesInStep, Written
  <2>2. OnWire("listener") \in Nat /\ HasRead("dialer") \in Nat /\ muxSent["listener"] \in Nat
    BY <1>0, Types, Lengths
  <2>3. k = 0 /\ Chosen("listener") - Unconfirmed = 0
    BY <1>1, <1>3, <2>1
  <2> QED  BY <2>1, <2>2, <2>3
<1>5. wire["listener"] # <<>> /\ Next1("dialer") = wire["listener"][1]
  BY <1>0, NextToken, Peers DEF Readable, OnWire
<1> QED  BY <1>0, <1>4, <1>5, FrameAt, Peers DEF Basis, Local

-----------------------------------------------------------------------------
(* The effect of each action, one variable at a time. *)

LEMMA PushEffect ==
  ASSUME TypeOK, NEW s \in Side, NEW t \in Token,
         wire' = [wire EXCEPT ![s] = Append(@, t)]
  PROVE  /\ OnWire(s)' = OnWire(s) + 1 /\ wire'[s][OnWire(s) + 1] = t
         /\ \A i \in 1..OnWire(s) : wire'[s][i] = wire[s][i]
         /\ OnWire(Peer(s))' = OnWire(Peer(s)) /\ wire'[Peer(s)] = wire[Peer(s)]
<1>1. wire'[s] = Append(wire[s], t) /\ wire'[Peer(s)] = wire[Peer(s)] /\ wire[s] \in Seq(Token)
  BY Types, Peers
<1>2. /\ Len(Append(wire[s], t)) = Len(wire[s]) + 1
      /\ \A i \in 1..Len(wire[s]) : Append(wire[s], t)[i] = wire[s][i]
      /\ Append(wire[s], t)[Len(wire[s]) + 1] = t
  BY <1>1, AppendFacts
<1> QED  BY <1>1, <1>2 DEF OnWire

LEMMA PullEffect ==
  ASSUME TypeOK, NEW s \in Side, NEW r \in Side, r = Peer(s), Arrived(s), Consume(s)
  PROVE  /\ OnWire(r) > 0 /\ OnWire(r)' = OnWire(r) - 1
         /\ Next1(s) = wire[r][1] /\ Next1(s) \in Token
         /\ \A i \in 1..(OnWire(r) - 1) : wire'[r][i] = wire[r][i + 1]
         /\ OnWire(s)' = OnWire(s) /\ wire'[s] = wire[s]
<1>1. wire'[r] = Tail(wire[r]) /\ wire'[s] = wire[s]
  BY Moves
<1> QED  BY <1>1, NextToken DEF OnWire

LEMMA ChooseEffect ==
  ASSUME TypeOK, NEW s \in Side, NEW r \in Side, r = Peer(s), NEW p \in Name, Choose(s, p)
  PROVE  /\ phase'[s] = "upgrade" /\ phase'[r] = phase[r]
         /\ Chosen(s)' = Chosen(s) + 1 /\ chosen'[s][Chosen(s) + 1] = p
         /\ \A i \in 1..Chosen(s) : chosen'[s][i] = chosen[s][i]
         /\ Chosen(r)' = Chosen(r) /\ chosen'[r] = chosen[r]
<1>1. /\ phase'[s] = "upgrade" /\ phase'[r] = phase[r]
      /\ chosen'[s] = Append(chosen[s], p) /\ chosen'[r] = chosen[r]
  BY Moves
<1>2. chosen[s] \in Seq(Name)
  BY Types
<1>3. /\ Len(Append(chosen[s], p)) = Len(chosen[s]) + 1
      /\ \A i \in 1..Len(chosen[s]) : Append(chosen[s], p)[i] = chosen[s][i]
      /\ Append(chosen[s], p)[Len(chosen[s]) + 1] = p
  BY <1>2, AppendFacts
<1> QED  BY <1>1, <1>3 DEF Chosen

\* Lengths depend on their sequences only.
LEMMA SameLengths ==
  /\ \A s \in Side :
       /\ chosen'[s] = chosen[s] => Chosen(s)' = Chosen(s)
       /\ wire'[s] = wire[s] => OnWire(s)' = OnWire(s)
       /\ muxRead'[s] = muxRead[s] => HasRead(s)' = HasRead(s)
  /\ expecting' = expecting => Expected' = Expected
  /\ held' = held => Held' = Held
BY DEF Chosen, OnWire, HasRead, Expected, Held

LEMMA ProposeEffect ==
  ASSUME Basis, DialerPropose
  PROVE  LET p == Stage("dialer").offers[tried + 1] IN
         /\ phase["dialer"] = "select" /\ Chosen("dialer") = stage["dialer"] - 1
         /\ p \in Name /\ tried' = tried + 1 /\ tried + 1 \in 1..Len(Stage("dialer").offers)
         /\ Held' = Held + 1 /\ held'[Held + 1] = Proposal(p)
         /\ \A i \in 1..Held : held'[i] = held[i]
         /\ UNCHANGED <<pipeline, stage, answer, garbled, wire, peer, muxRead, muxSent>>
         /\ phase'["listener"] = phase["listener"] /\ chosen'["listener"] = chosen["listener"]
         /\ \/ /\ phase'["dialer"] = "upgrade" /\ tried + 1 = Len(Stage("dialer").offers)
               /\ Chosen("dialer")' = Chosen("dialer") + 1
               /\ chosen'["dialer"][Chosen("dialer") + 1] = p
               /\ \A i \in 1..Chosen("dialer") : chosen'["dialer"][i] = chosen["dialer"][i]
               /\ Expected' = Expected + 1 /\ expecting'[Expected + 1] = p
               /\ \A i \in 1..Expected : expecting'[i] = expecting[i]
            \/ /\ phase'["dialer"] = "await" /\ tried + 1 < Len(Stage("dialer").offers)
               /\ UNCHANGED <<chosen, expecting>>
<1> DEFINE T == {Proposal(q) : q \in Name}
           p == Stage("dialer").offers[tried + 1]
<1>0. TypeOK /\ phase["dialer"] = "select" /\ Chosen("dialer") = stage["dialer"] - 1
  BY DEF Basis, DialerPropose, Local, Progress
<1>1. p \in Name /\ tried + 1 \in 1..Len(Stage("dialer").offers)
  <2>1. tried \in Nat
    BY <1>0, Types
  <2> QED  BY <1>0, <2>1, Offer
<1>2. /\ held' = Append(held, Proposal(p)) /\ tried' = tried + 1
      /\ UNCHANGED <<pipeline, stage, answer, garbled, wire, peer, muxRead, muxSent>>
      /\ \/ Choose("dialer", p) /\ expecting' = Append(expecting, p)
            /\ Optimistic(Len(Stage("dialer").offers) - tried')
         \/ Goto("dialer", "await") /\ UNCHANGED <<chosen, expecting>>
            /\ ~Optimistic(Len(Stage("dialer").offers) - tried')
  BY DEF DialerPropose, listening, muxing
<1>3. Proposal(p) \in T /\ held \in Seq(T) /\ expecting \in Seq(Name)
      /\ Len(Stage("dialer").offers) \in Nat
  BY <1>0, <1>1, Types, Chain DEF Stage
<1> HIDE DEF T, p
<1>4. Held' = Held + 1 /\ held'[Held + 1] = Proposal(p) /\ \A i \in 1..Held : held'[i] = held[i]
  BY <1>2, <1>3, AppendFacts DEF Held
<1>5. CASE Choose("dialer", p) /\ expecting' = Append(expecting, p)
           /\ Optimistic(Len(Stage("dialer").offers) - tried')
  <2>1. Expected' = Expected + 1 /\ expecting'[Expected + 1] = p
        /\ \A i \in 1..Expected : expecting'[i] = expecting[i]
    BY <1>1, <1>3, <1>5, AppendFacts DEF Expected
  <2>2. tried + 1 = Len(Stage("dialer").offers)
    BY <1>1, <1>2, <1>3, <1>5 DEF Optimistic
  <2>3. /\ phase'["dialer"] = "upgrade" /\ phase'["listener"] = phase["listener"]
        /\ Chosen("dialer")' = Chosen("dialer") + 1
        /\ chosen'["dialer"][Chosen("dialer") + 1] = p
        /\ \A i \in 1..Chosen("dialer") : chosen'["dialer"][i] = chosen["dialer"][i]
        /\ chosen'["listener"] = chosen["listener"]
    BY <1>0, <1>1, <1>5, ChooseEffect, Peers
  <2> QED  BY <1>0, <1>1, <1>2, <1>4, <2>1, <2>2, <2>3 DEF p
<1>6. CASE Goto("dialer", "await") /\ UNCHANGED <<chosen, expecting>>
           /\ ~Optimistic(Len(Stage("dialer").offers) - tried')
  <2>1. tried + 1 < Len(Stage("dialer").offers)
    BY <1>1, <1>2, <1>3, <1>6 DEF Optimistic
  <2>2. phase'["dialer"] = "await" /\ phase'["listener"] = phase["listener"]
    BY <1>0, <1>6, Moves, Peers
  <2> QED  BY <1>0, <1>1, <1>2, <1>4, <1>6, <2>1, <2>2 DEF p
<1> QED  BY <1>2, <1>5, <1>6

LEMMA FlushEffect ==
  ASSUME Basis, DialerFlush
  PROVE  /\ Held > 0 /\ Held' = Held - 1 /\ \A i \in 1..(Held - 1) : held'[i] = held[i + 1]
         /\ OnWire("dialer")' = OnWire("dialer") + 1
         /\ wire'["dialer"][OnWire("dialer") + 1] = held[1]
         /\ \A i \in 1..OnWire("dialer") : wire'["dialer"][i] = wire["dialer"][i]
         /\ wire'["listener"] = wire["listener"] /\ OnWire("listener")' = OnWire("listener")
         /\ held[1].kind = "protocol"
         /\ UNCHANGED <<pipeline, stage, phase, tried, chosen, expecting, answer, garbled,
                        peer, muxRead, muxSent>>
<1> DEFINE T == {Proposal(q) : q \in Name}
<1>0. TypeOK
  BY DEF Basis
<1>1. held \in Seq(T) /\ held # <<>> /\ T \subseteq Token /\ \A t \in T : t.kind = "protocol"
  BY <1>0, Types, Tokens, TokenKinds DEF DialerFlush
<1>2. wire' = [wire EXCEPT !["dialer"] = Append(@, Head(held))] /\ held' = Tail(held)
  BY DEF DialerFlush
<1> HIDE DEF T
<1>3. /\ Head(held) \in T /\ Head(held) = held[1] /\ Len(held) > 0 /\ Len(Tail(held)) = Len(held) - 1
      /\ \A i \in 1..(Len(held) - 1) : Tail(held)[i] = held[i + 1]
  BY <1>1, HeadTail
<1>4. /\ OnWire("dialer")' = OnWire("dialer") + 1
      /\ wire'["dialer"][OnWire("dialer") + 1] = Head(held)
      /\ \A i \in 1..OnWire("dialer") : wire'["dialer"][i] = wire["dialer"][i]
      /\ wire'["listener"] = wire["listener"] /\ OnWire("listener")' = OnWire("listener")
  BY <1>0, <1>1, <1>2, <1>3, PushEffect, Peers
<1>5. Held > 0 /\ Held' = Held - 1 /\ \A i \in 1..(Held - 1) : held'[i] = held[i + 1]
  BY <1>2, <1>3 DEF Held
<1>6. UNCHANGED <<pipeline, stage, phase, tried, chosen, expecting, answer, garbled,
                  peer, muxRead, muxSent>>
  BY DEF DialerFlush, listening, muxing
<1>7. held[1].kind = "protocol"
  BY <1>1, <1>3
<1> QED  BY <1>3, <1>4, <1>5, <1>6, <1>7

LEMMA AwaitEffect ==
  ASSUME Basis, DialerAwait
  PROVE  LET p == Stage("dialer").offers[tried] IN
         /\ phase["dialer"] = "await" /\ Chosen("dialer") = stage["dialer"] - 1
         /\ p \in Name /\ held = <<>> /\ expecting = <<>> /\ tried \in 1..Len(Stage("dialer").offers)
         /\ OnWire("listener") > 0 /\ OnWire("listener")' = OnWire("listener") - 1
         /\ \A i \in 1..(OnWire("listener") - 1) : wire'["listener"][i] = wire["listener"][i + 1]
         /\ wire'["dialer"] = wire["dialer"]
         /\ UNCHANGED <<pipeline, stage, tried, expecting, held, answer, garbled, peer,
                        muxRead, muxSent>>
         /\ phase'["listener"] = phase["listener"] /\ chosen'["listener"] = chosen["listener"]
         /\ \/ /\ phase'["dialer"] = "upgrade" /\ wire["listener"][1] = Proposal(p)
               /\ Chosen("dialer")' = Chosen("dialer") + 1
               /\ chosen'["dialer"][Chosen("dialer") + 1] = p
               /\ \A i \in 1..Chosen("dialer") : chosen'["dialer"][i] = chosen["dialer"][i]
            \/ /\ phase'["dialer"] \in {"select", "failed"} /\ wire["listener"][1] # Proposal(p)
               /\ UNCHANGED chosen
<1> DEFINE p == Stage("dialer").offers[tried]
<1>0. TypeOK /\ phase["dialer"] = "await" /\ Chosen("dialer") = stage["dialer"] - 1
  BY DEF Basis, DialerAwait, Local, Progress
<1>1. p \in Name /\ tried \in 1..Len(Stage("dialer").offers)
  <2>1. tried \in Nat
    BY <1>0, Types
  <2> QED  BY <1>0, <2>1, Offer
<1>2. Arrived("dialer") /\ Consume("dialer") /\ held = <<>> /\ expecting = <<>>
  BY DEF DialerAwait, Readable, Arrived
<1>3. /\ OnWire("listener") > 0 /\ OnWire("listener")' = OnWire("listener") - 1
      /\ Next1("dialer") = wire["listener"][1]
      /\ \A i \in 1..(OnWire("listener") - 1) : wire'["listener"][i] = wire["listener"][i + 1]
      /\ wire'["dialer"] = wire["dialer"]
  BY <1>0, <1>2, PullEffect, Peers
<1>4. UNCHANGED <<pipeline, stage, tried, expecting, held, answer, garbled, peer, muxRead, muxSent>>
  BY DEF DialerAwait, dialing, listening, muxing
<1>5. \/ Choose("dialer", p) /\ Next1("dialer") = Proposal(p)
      \/ /\ Goto("dialer", "select") \/ Goto("dialer", "failed")
         /\ UNCHANGED chosen /\ Next1("dialer") # Proposal(p)
  BY DEF DialerAwait
<1> HIDE DEF p
<1>6. CASE Choose("dialer", p) /\ Next1("dialer") = Proposal(p)
  <2>1. /\ phase'["dialer"] = "upgrade" /\ phase'["listener"] = phase["listener"]
        /\ Chosen("dialer")' = Chosen("dialer") + 1
        /\ chosen'["dialer"][Chosen("dialer") + 1] = p
        /\ \A i \in 1..Chosen("dialer") : chosen'["dialer"][i] = chosen["dialer"][i]
        /\ chosen'["listener"] = chosen["listener"]
    BY <1>0, <1>1, <1>6, ChooseEffect, Peers
  <2> QED  BY <1>0, <1>1, <1>2, <1>3, <1>4, <1>6, <2>1 DEF p
<1>7. CASE /\ Goto("dialer", "select") \/ Goto("dialer", "failed")
           /\ UNCHANGED chosen /\ Next1("dialer") # Proposal(p)
  <2>1. phase'["dialer"] \in {"select", "failed"} /\ phase'["listener"] = phase["listener"]
    BY <1>0, <1>7, Moves, Peers
  <2> QED  BY <1>0, <1>1, <1>2, <1>3, <1>4, <1>7, <2>1 DEF p
<1> QED  BY <1>5, <1>6, <1>7

LEMMA ConfirmEffect ==
  ASSUME Basis, DialerConfirm
  PROVE  /\ phase["dialer"] \in {"await", "readKey", "connected"}
         /\ held = <<>> /\ Expected > 0
         /\ OnWire("listener") > 0 /\ OnWire("listener")' = OnWire("listener") - 1
         /\ \A i \in 1..(OnWire("listener") - 1) : wire'["listener"][i] = wire["listener"][i + 1]
         /\ wire'["dialer"] = wire["dialer"]
         /\ UNCHANGED <<pipeline, stage, tried, chosen, held, answer, garbled, peer,
                        muxRead, muxSent>>
         /\ phase'["listener"] = phase["listener"]
         /\ \/ /\ wire["listener"][1] = Proposal(expecting[1]) /\ phase' = phase
               /\ Expected' = Expected - 1
               /\ \A i \in 1..(Expected - 1) : expecting'[i] = expecting[i + 1]
            \/ /\ wire["listener"][1] # Proposal(expecting[1]) /\ expecting' = expecting
               /\ phase'["dialer"] = IF phase["dialer"] = "connected" THEN "broken" ELSE "failed"
<1>0. TypeOK /\ phase["dialer"] \in {"await", "readKey", "connected"}
  BY DEF Basis, DialerConfirm
<1>1. /\ Arrived("dialer") /\ Consume("dialer") /\ held = <<>> /\ expecting # <<>>
      /\ expecting \in Seq(Name)
  BY <1>0, Types DEF DialerConfirm, Arrived
<1>2. /\ OnWire("listener") > 0 /\ OnWire("listener")' = OnWire("listener") - 1
      /\ Next1("dialer") = wire["listener"][1]
      /\ \A i \in 1..(OnWire("listener") - 1) : wire'["listener"][i] = wire["listener"][i + 1]
      /\ wire'["dialer"] = wire["dialer"]
  BY <1>0, <1>1, PullEffect, Peers
<1>3. UNCHANGED <<pipeline, stage, tried, chosen, held, answer, garbled, peer, muxRead, muxSent>>
  BY DEF DialerConfirm, listening, muxing
<1>4. /\ Head(expecting) = expecting[1] /\ Len(expecting) > 0
      /\ Len(Tail(expecting)) = Len(expecting) - 1
      /\ \A i \in 1..(Len(expecting) - 1) : Tail(expecting)[i] = expecting[i + 1]
  BY <1>1, HeadTail
<1>5. \/ /\ Next1("dialer") = Proposal(Head(expecting)) /\ expecting' = Tail(expecting)
         /\ UNCHANGED phase
      \/ Next1("dialer") # Proposal(Head(expecting)) /\ Fail("dialer") /\ UNCHANGED expecting
  BY DEF DialerConfirm
<1>6. CASE /\ Next1("dialer") = Proposal(Head(expecting)) /\ expecting' = Tail(expecting)
           /\ UNCHANGED phase
  <2>1. Expected > 0 /\ Expected' = Expected - 1
        /\ \A i \in 1..(Expected - 1) : expecting'[i] = expecting[i + 1]
    BY <1>4, <1>6 DEF Expected
  <2> QED  BY <1>0, <1>1, <1>2, <1>3, <1>4, <1>6, <2>1
<1>7. CASE Next1("dialer") # Proposal(Head(expecting)) /\ Fail("dialer") /\ UNCHANGED expecting
  <2>1. /\ phase'["dialer"] = IF phase["dialer"] = "connected" THEN "broken" ELSE "failed"
        /\ phase'["listener"] = phase["listener"]
    BY <1>0, <1>7, Moves, Peers
  <2>2. Expected > 0
    BY <1>4 DEF Expected
  <2> QED  BY <1>0, <1>1, <1>2, <1>3, <1>4, <1>7, <2>1, <2>2
<1> QED  BY <1>5, <1>6, <1>7

LEMMA ReceiveEffect ==
  ASSUME Basis, ListenerReceive
  PROVE  /\ phase["listener"] = "select" /\ ~garbled /\ Chosen("listener") = stage["listener"] - 1
         /\ OnWire("dialer") > 0 /\ OnWire("dialer")' = OnWire("dialer") - 1
         /\ \A i \in 1..(OnWire("dialer") - 1) : wire'["dialer"][i] = wire["dialer"][i + 1]
         /\ wire'["listener"] = wire["listener"]
         /\ UNCHANGED <<pipeline, stage, tried, chosen, expecting, held, peer, muxRead, muxSent>>
         /\ phase'["dialer"] = phase["dialer"]
         /\ \/ /\ phase'["listener"] = "answer" /\ garbled' = garbled
               /\ \E p \in Name : /\ wire["dialer"][1] = Proposal(p)
                                  /\ answer' = IF Accepts(p) THEN Proposal(p) ELSE NA
            \/ /\ wire["dialer"][1].kind # "protocol" /\ answer' = answer
               /\ \/ phase'["listener"] = "failed" /\ garbled' = garbled
                  \/ phase' = phase /\ garbled'
<1>0. TypeOK /\ phase["listener"] = "select" /\ ~garbled /\ Chosen("listener") = stage["listener"] - 1
  <2>1. TypeOK /\ phase["listener"] = "select" /\ ~garbled
    BY DEF Basis, ListenerReceive
  <2> QED  BY <2>1 DEF Basis, Local, Progress
<1>1. /\ Arrived("listener") /\ Consume("listener")
  BY DEF ListenerReceive, Readable
<1>2. /\ OnWire("dialer") > 0 /\ OnWire("dialer")' = OnWire("dialer") - 1
      /\ Next1("listener") = wire["dialer"][1] /\ Next1("listener") \in Token
      /\ \A i \in 1..(OnWire("dialer") - 1) : wire'["dialer"][i] = wire["dialer"][i + 1]
      /\ wire'["listener"] = wire["listener"]
  BY <1>0, <1>1, PullEffect, Peers
<1>3. UNCHANGED <<pipeline, stage, tried, chosen, expecting, held, peer, muxRead, muxSent>>
  BY DEF ListenerReceive, dialing, muxing
<1>4. CASE /\ Next1("listener").kind = "protocol"
           /\ answer' = IF Accepts(Next1("listener").val) THEN Next1("listener") ELSE NA
           /\ Goto("listener", "answer") /\ UNCHANGED garbled
  <2>1. PICK p \in Name : Next1("listener") = Proposal(p)
    BY <1>2, <1>4, Tokens
  <2>2. answer' = IF Accepts(p) THEN Proposal(p) ELSE NA
    BY <1>4, <2>1, TokenKinds
  <2>3. phase'["listener"] = "answer" /\ phase'["dialer"] = phase["dialer"]
    BY <1>0, <1>4, Moves, Peers
  <2> QED  BY <1>0, <1>2, <1>3, <1>4, <2>1, <2>2, <2>3
<1>5. CASE /\ Next1("listener").kind # "protocol" /\ UNCHANGED answer
           /\ Fail("listener") /\ UNCHANGED garbled
  <2>1. phase'["listener"] = "failed" /\ phase'["dialer"] = phase["dialer"]
    BY <1>0, <1>5, Moves, Peers
  <2> QED  BY <1>0, <1>2, <1>3, <1>5, <2>1
<1>6. CASE /\ Next1("listener").kind # "protocol" /\ UNCHANGED answer
           /\ garbled' = TRUE /\ UNCHANGED phase
  BY <1>0, <1>2, <1>3, <1>6
<1> QED  BY <1>4, <1>5, <1>6 DEF ListenerReceive

LEMMA SwallowEffect ==
  ASSUME Basis, ListenerSwallow
  PROVE  /\ phase["listener"] = "select" /\ garbled
         /\ phase'["listener"] \in {"select", "failed"}
         /\ OnWire("dialer") > 0 /\ OnWire("dialer")' = OnWire("dialer") - 1
         /\ \A i \in 1..(OnWire("dialer") - 1) : wire'["dialer"][i] = wire["dialer"][i + 1]
         /\ wire'["listener"] = wire["listener"]
         /\ UNCHANGED <<pipeline, stage, tried, chosen, expecting, held, answer, garbled, peer,
                        muxRead, muxSent>>
         /\ phase'["dialer"] = phase["dialer"]
<1>0. TypeOK /\ phase["listener"] = "select" /\ garbled
  BY DEF Basis, ListenerSwallow
<1>1. /\ Arrived("listener") /\ Consume("listener")
  BY DEF ListenerSwallow, Readable
<1>2. /\ OnWire("dialer") > 0 /\ OnWire("dialer")' = OnWire("dialer") - 1
      /\ \A i \in 1..(OnWire("dialer") - 1) : wire'["dialer"][i] = wire["dialer"][i + 1]
      /\ wire'["listener"] = wire["listener"]
  BY <1>0, <1>1, PullEffect, Peers
<1>3. UNCHANGED <<pipeline, stage, tried, chosen, expecting, held, answer, garbled, peer, muxRead, muxSent>>
  BY DEF ListenerSwallow, dialing, listening, muxing
<1>4. phase'["listener"] \in {"select", "failed"} /\ phase'["dialer"] = phase["dialer"]
  BY <1>0, Types DEF ListenerSwallow
<1> QED  BY <1>0, <1>2, <1>3, <1>4

LEMMA AnswerEffect ==
  ASSUME Basis, ListenerAnswer
  PROVE  /\ phase["listener"] = "answer" /\ Chosen("listener") = stage["listener"] - 1
         /\ OnWire("listener")' = OnWire("listener") + 1
         /\ wire'["listener"][OnWire("listener") + 1] = answer
         /\ \A i \in 1..OnWire("listener") : wire'["listener"][i] = wire["listener"][i]
         /\ wire'["dialer"] = wire["dialer"]
         /\ UNCHANGED <<pipeline, stage, tried, expecting, held, answer, garbled, peer,
                        muxRead, muxSent>>
         /\ phase'["dialer"] = phase["dialer"] /\ chosen'["dialer"] = chosen["dialer"]
         /\ \/ /\ answer = NA /\ phase'["listener"] = "select" /\ chosen' = chosen
            \/ /\ phase'["listener"] = "upgrade"
               /\ Chosen("listener")' = Chosen("listener") + 1
               /\ \A i \in 1..Chosen("listener") : chosen'["listener"][i] = chosen["listener"][i]
               /\ \E p \in Name : /\ answer = Proposal(p) /\ Accepts(p)
                                  /\ chosen'["listener"][Chosen("listener") + 1] = p
<1>0. /\ TypeOK /\ phase["listener"] = "answer" /\ Chosen("listener") = stage["listener"] - 1
      /\ answer \in Token
  <2>1. TypeOK /\ phase["listener"] = "answer"
    BY DEF Basis, ListenerAnswer
  <2> QED  BY <2>1 DEF Basis, Local, Progress, TypeOK
<1>1. wire' = [wire EXCEPT !["listener"] = Append(@, answer)]
  BY DEF ListenerAnswer, Write
<1>2. /\ OnWire("listener")' = OnWire("listener") + 1
      /\ wire'["listener"][OnWire("listener") + 1] = answer
      /\ \A i \in 1..OnWire("listener") : wire'["listener"][i] = wire["listener"][i]
      /\ wire'["dialer"] = wire["dialer"]
  BY <1>0, <1>1, PushEffect, Peers
<1>3. UNCHANGED <<pipeline, stage, tried, expecting, held, answer, garbled, peer, muxRead, muxSent>>
  BY DEF ListenerAnswer, dialing, listening, muxing
<1>4. CASE answer = NA
  <2>1. Goto("listener", "select") /\ chosen' = chosen
    BY <1>4 DEF ListenerAnswer
  <2>2. phase'["listener"] = "select" /\ phase'["dialer"] = phase["dialer"]
    BY <1>0, <2>1, Moves, Peers
  <2> QED  BY <1>0, <1>2, <1>3, <1>4, <2>1, <2>2
<1>5. CASE answer # NA
  <2>1. PICK p \in Name : answer = Proposal(p)
    BY <1>5 DEF Basis, ListenerLocal
  <2>2. answer.val = p /\ Choose("listener", p) /\ Accepts(p)
    BY <1>0, <1>5, <2>1, TokenKinds DEF ListenerAnswer, Basis, ListenerLocal
  <2>3. /\ phase'["listener"] = "upgrade" /\ phase'["dialer"] = phase["dialer"]
        /\ Chosen("listener")' = Chosen("listener") + 1
        /\ chosen'["listener"][Chosen("listener") + 1] = p
        /\ \A i \in 1..Chosen("listener") : chosen'["listener"][i] = chosen["listener"][i]
        /\ chosen'["dialer"] = chosen["dialer"]
    BY <1>0, <2>2, ChooseEffect, Peers
  <2> QED  BY <1>0, <1>2, <1>3, <2>1, <2>2, <2>3
<1> QED  BY <1>4, <1>5

LEMMA SendKeyEffect ==
  ASSUME Basis, NEW s \in Side, NEW r \in Side, r = Peer(s), SendKey(s)
  PROVE  /\ phase[s] = "upgrade" /\ stage[s] = 1 /\ Chosen(s) = 1
         /\ s = "dialer" => held = <<>>
         /\ phase'[s] = "readKey" /\ phase'[r] = phase[r]
         /\ OnWire(s)' = OnWire(s) + 1 /\ wire'[s][OnWire(s) + 1] = Key(s)
         /\ \A i \in 1..OnWire(s) : wire'[s][i] = wire[s][i]
         /\ wire'[r] = wire[r]
         /\ UNCHANGED <<pipeline, stage, tried, chosen, expecting, held, answer, garbled, peer,
                        muxRead, muxSent>>
<1>0. TypeOK /\ phase[s] = "upgrade" /\ Stage(s).kind = "identify" /\ Goto(s, "readKey")
      /\ (s = "dialer" => held = <<>>)
  BY DEF Basis, SendKey, Write
<1>1. stage[s] = 1
  <2>1. stage[s] \in 1..Stages
    BY <1>0, Types
  <2> QED  BY <1>0, <2>1, Chain DEF Stage
<1>2. Chosen(s) = 1
  BY <1>0, <1>1 DEF Basis, Local, Progress
<1>3. wire' = [wire EXCEPT ![s] = Append(@, Key(s))]
  BY DEF SendKey, Write
<1>4. /\ OnWire(s)' = OnWire(s) + 1 /\ wire'[s][OnWire(s) + 1] = Key(s)
      /\ \A i \in 1..OnWire(s) : wire'[s][i] = wire[s][i]
      /\ wire'[r] = wire[r]
  BY <1>0, <1>3, PushEffect, Tokens
<1>5. phase'[s] = "readKey" /\ phase'[r] = phase[r]
  BY <1>0, Moves
<1>6. UNCHANGED <<pipeline, stage, tried, chosen, expecting, held, answer, garbled, peer,
                  muxRead, muxSent>>
  BY DEF SendKey, dialing, listening, muxing
<1> QED  BY <1>0, <1>1, <1>2, <1>4, <1>5, <1>6

LEMMA ReadKeyEffect ==
  ASSUME IInv, NEW s \in Side, NEW r \in Side, r = Peer(s), ReadKey(s)
  PROVE  /\ phase[s] = "readKey" /\ stage[s] = 1 /\ Chosen(s) = 1
         /\ s = "dialer" => held = <<>> /\ expecting = <<>>
         /\ phase'[s] = "select" /\ phase'[r] = phase[r]
         /\ stage'[s] = 2 /\ stage'[r] = stage[r]
         /\ tried' = IF s = "dialer" THEN 0 ELSE tried
         /\ peer'[s] = r /\ peer'[r] = peer[r]
         /\ OnWire(r) > 0 /\ OnWire(r)' = OnWire(r) - 1 /\ wire[r][1] = Key(r)
         /\ \A i \in 1..(OnWire(r) - 1) : wire'[r][i] = wire[r][i + 1]
         /\ wire'[s] = wire[s]
         /\ UNCHANGED <<pipeline, chosen, expecting, held, answer, garbled, muxRead, muxSent>>
<1>0. /\ Basis /\ TypeOK /\ phase[s] = "readKey" /\ Readable(s) /\ Consume(s) /\ NextStage(s)
      /\ Progress(s)
  BY DEF IInv, Basis, Local, ReadKey
<1>1. stage[s] = 1 /\ Chosen(s) = 1
  BY <1>0 DEF Progress
<1>2. Arrived(s) /\ (s = "dialer" => held = <<>> /\ expecting = <<>>)
  BY <1>0 DEF Readable, Arrived
<1>3. /\ OnWire(r) > 0 /\ OnWire(r)' = OnWire(r) - 1 /\ Next1(s) = wire[r][1]
      /\ \A i \in 1..(OnWire(r) - 1) : wire'[r][i] = wire[r][i + 1]
      /\ wire'[s] = wire[s]
  BY <1>0, <1>2, PullEffect
<1>4. Next1(s) = Key(r)
  BY ListenerReadsKey, DialerReadsKey, Peers
<1>5. peer'[s] = r /\ peer'[r] = peer[r]
  <2>1. peer \in [Side -> Side \cup {"none", "garbage"}]
    BY <1>0 DEF TypeOK
  <2>2. Next1(s).kind = "key" /\ Next1(s).val = r
    BY <1>4, TokenKinds
  <2>3. peer' = [peer EXCEPT ![s] = IF Next1(s).kind = "key" THEN Next1(s).val ELSE "garbage"]
    BY DEF ReadKey
  <2> QED  BY <2>1, <2>2, <2>3, Peers
<1>6. /\ phase'[s] = "select" /\ phase'[r] = phase[r]
      /\ stage'[s] = 2 /\ stage'[r] = stage[r]
      /\ tried' = IF s = "dialer" THEN 0 ELSE tried
  BY <1>0, <1>1, Moves
<1>7. UNCHANGED <<pipeline, chosen, expecting, held, answer, garbled, muxRead, muxSent>>
  BY DEF ReadKey, listening, muxing
<1> QED  BY <1>0, <1>1, <1>2, <1>3, <1>4, <1>5, <1>6, <1>7

LEMMA PassEffect ==
  ASSUME Basis, NEW s \in Side, NEW r \in Side, r = Peer(s), PassReady(s)
  PROVE  /\ phase[s] = "upgrade" /\ stage[s] > 1 /\ stage[s] < Stages /\ Chosen(s) = stage[s]
         /\ phase'[s] = "select" /\ phase'[r] = phase[r]
         /\ stage'[s] = stage[s] + 1 /\ stage'[r] = stage[r]
         /\ tried' = IF s = "dialer" THEN 0 ELSE tried
         /\ UNCHANGED <<pipeline, chosen, expecting, held, answer, garbled, wire, peer,
                        muxRead, muxSent>>
<1>0. TypeOK /\ phase[s] = "upgrade" /\ Stage(s).kind = "ready" /\ NextStage(s) /\ Progress(s)
  BY DEF Basis, Local, PassReady
<1>1. stage[s] > 1 /\ stage[s] < Stages
  <2>1. stage[s] \in 1..Stages /\ Stages \in Nat
    BY <1>0, Types, Chain
  <2>2. stage[s] # 1 /\ stage[s] # Stages
    BY <1>0, <2>1, Chain DEF Stage
  <2> QED  BY <2>1, <2>2
<1>2. Chosen(s) = stage[s]
  BY <1>0 DEF Progress
<1>3. /\ phase'[s] = "select" /\ phase'[r] = phase[r]
      /\ stage'[s] = stage[s] + 1 /\ stage'[r] = stage[r]
      /\ tried' = IF s = "dialer" THEN 0 ELSE tried
  BY <1>0, Moves
<1>4. UNCHANGED <<pipeline, chosen, expecting, held, answer, garbled, wire, peer, muxRead, muxSent>>
  BY DEF PassReady, listening, muxing
<1> QED  BY <1>0, <1>1, <1>2, <1>3, <1>4

LEMMA StartEffect ==
  ASSUME Basis, NEW s \in Side, NEW r \in Side, r = Peer(s), StartMuxer(s)
  PROVE  /\ phase[s] = "upgrade" /\ stage[s] = Stages /\ stage[s] > 1 /\ Chosen(s) = Stages
         /\ phase'[s] = "connected" /\ phase'[r] = phase[r]
         /\ UNCHANGED <<pipeline, stage, tried, chosen, expecting, held, answer, garbled, wire,
                        peer, muxRead, muxSent>>
<1>0. TypeOK /\ phase[s] = "upgrade" /\ Stage(s).kind = "mux" /\ Goto(s, "connected") /\ Progress(s)
  BY DEF Basis, Local, StartMuxer
<1>1. stage[s] = Stages /\ stage[s] > 1
  <2>1. stage[s] \in 1..Stages /\ Stages > 1
    BY <1>0, Types, Chain
  <2> QED  BY <1>0, <2>1, Chain DEF Stage
<1>2. Chosen(s) = Stages
  BY <1>0, <1>1 DEF Progress
<1>3. phase'[s] = "connected" /\ phase'[r] = phase[r]
  BY <1>0, Moves
<1>4. UNCHANGED <<pipeline, stage, tried, chosen, expecting, held, answer, garbled, wire,
                  peer, muxRead, muxSent>>
  BY DEF StartMuxer, dialing, listening, muxing
<1> QED  BY <1>0, <1>1, <1>2, <1>3, <1>4

LEMMA MuxWriteEffect ==
  ASSUME Basis, NEW s \in Side, NEW r \in Side, r = Peer(s), MuxWrite(s)
  PROVE  /\ phase[s] = "connected" /\ (s = "dialer" => held = <<>>)
         /\ OnWire(s)' = OnWire(s) + 1
         /\ wire'[s][OnWire(s) + 1] = MuxFrame(s, muxSent[s] + 1)
         /\ \A i \in 1..OnWire(s) : wire'[s][i] = wire[s][i]
         /\ wire'[r] = wire[r]
         /\ muxSent'[s] = muxSent[s] + 1 /\ muxSent'[r] = muxSent[r]
         /\ UNCHANGED <<pipeline, stage, phase, tried, chosen, expecting, held, answer, garbled,
                        peer, muxRead>>
<1>0. /\ TypeOK /\ phase[s] = "connected" /\ (s = "dialer" => held = <<>>)
      /\ muxSent[s] < MaxFrames
      /\ wire' = [wire EXCEPT ![s] = Append(@, MuxFrame(s, muxSent[s] + 1))]
      /\ muxSent' = [muxSent EXCEPT ![s] = @ + 1]
  BY DEF Basis, MuxWrite, Write
<1>1. muxSent[s] + 1 \in 1..MaxFrames /\ muxSent \in [Side -> 0..MaxFrames]
  <2>1. muxSent \in [Side -> 0..MaxFrames]
    BY <1>0, Types
  <2>2. muxSent[s] \in 0..MaxFrames /\ MaxFrames \in Nat /\ muxSent[s] < MaxFrames
    BY <1>0, <2>1, BoundsAssumption
  <2>3. \A n : n \in 0..MaxFrames /\ n < MaxFrames => n + 1 \in 1..MaxFrames
    BY <2>2
  <2> QED  BY <2>1, <2>2, <2>3
<1>2. /\ OnWire(s)' = OnWire(s) + 1
      /\ wire'[s][OnWire(s) + 1] = MuxFrame(s, muxSent[s] + 1)
      /\ \A i \in 1..OnWire(s) : wire'[s][i] = wire[s][i]
      /\ wire'[r] = wire[r]
  <2>1. MuxFrame(s, muxSent[s] + 1) \in Token
    BY <1>1, Tokens
  <2> QED  BY <1>0, <2>1, PushEffect
<1>3. muxSent'[s] = muxSent[s] + 1 /\ muxSent'[r] = muxSent[r]
  BY <1>0, <1>1, Peers
<1>4. UNCHANGED <<pipeline, stage, phase, tried, chosen, expecting, held, answer, garbled,
                  peer, muxRead>>
  BY DEF MuxWrite, dialing, listening
<1> QED  BY <1>0, <1>2, <1>3, <1>4

LEMMA MuxReadEffect ==
  ASSUME IInv, NEW s \in Side, NEW r \in Side, r = Peer(s), MuxRead(s)
  PROVE  /\ phase[s] = "connected" /\ (s = "dialer" => held = <<>> /\ expecting = <<>>)
         /\ OnWire(r) > 0 /\ OnWire(r)' = OnWire(r) - 1
         /\ wire[r][1] = MuxFrame(r, HasRead(s) + 1)
         /\ \A i \in 1..(OnWire(r) - 1) : wire'[r][i] = wire[r][i + 1]
         /\ wire'[s] = wire[s]
         /\ HasRead(s)' = HasRead(s) + 1
         /\ muxRead'[s][HasRead(s) + 1] = MuxFrame(r, HasRead(s) + 1)
         /\ \A i \in 1..HasRead(s) : muxRead'[s][i] = muxRead[s][i]
         /\ muxRead'[r] = muxRead[r]
         /\ UNCHANGED <<pipeline, stage, phase, tried, chosen, expecting, held, answer, garbled,
                        peer, muxSent>>
<1>0. /\ TypeOK /\ phase[s] = "connected" /\ Readable(s) /\ Consume(s)
      /\ muxRead' = [muxRead EXCEPT ![s] = Append(@, Next1(s))]
  BY DEF IInv, Basis, MuxRead
<1>1. Arrived(s) /\ (s = "dialer" => held = <<>> /\ expecting = <<>>)
  BY <1>0 DEF Readable, Arrived
<1>2. /\ OnWire(r) > 0 /\ OnWire(r)' = OnWire(r) - 1
      /\ Next1(s) = wire[r][1] /\ Next1(s) \in Token
      /\ \A i \in 1..(OnWire(r) - 1) : wire'[r][i] = wire[r][i + 1]
      /\ wire'[s] = wire[s]
  BY <1>0, <1>1, PullEffect
<1>3. Next1(s) = MuxFrame(r, HasRead(s) + 1)
  BY ListenerReadsFrame, DialerReadsFrame, Peers
<1>4. /\ muxRead'[s] = Append(muxRead[s], Next1(s)) /\ muxRead'[r] = muxRead[r]
      /\ muxRead[s] \in Seq(Token)
  BY <1>0, Types, Peers
<1>5. /\ HasRead(s)' = HasRead(s) + 1 /\ muxRead'[s][HasRead(s) + 1] = Next1(s)
      /\ \A i \in 1..HasRead(s) : muxRead'[s][i] = muxRead[s][i]
  BY <1>2, <1>4, AppendFacts DEF HasRead
<1>6. UNCHANGED <<pipeline, stage, phase, tried, chosen, expecting, held, answer, garbled,
                  peer, muxSent>>
  BY DEF MuxRead, dialing, listening
<1> QED  BY <1>0, <1>1, <1>2, <1>3, <1>4, <1>5, <1>6

LEMMA EndsEffect ==
  ASSUME Basis, NEW s \in Side, NEW r \in Side, r = Peer(s), Ends(s)
  PROVE  /\ ~Down(s) /\ Down(s)' /\ phase'[r] = phase[r]
         /\ phase'[s] = IF phase[s] = "connected" THEN "broken" ELSE "failed"
         /\ UNCHANGED <<pipeline, stage, tried, chosen, expecting, held, answer, garbled, wire,
                        peer, muxRead, muxSent>>
<1>0. TypeOK /\ ~Down(s) /\ Fail(s)
  BY DEF Basis, Ends
<1>1. phase'[s] = (IF phase[s] = "connected" THEN "broken" ELSE "failed") /\ phase'[r] = phase[r]
  BY <1>0, Moves
<1>2. Down(s)'
  BY <1>1 DEF Down
<1>3. UNCHANGED <<pipeline, stage, tried, chosen, expecting, held, answer, garbled, wire,
                  peer, muxRead, muxSent>>
  BY DEF Ends, dialing, listening, muxing
<1> QED  BY <1>0, <1>1, <1>2, <1>3

-----------------------------------------------------------------------------
(* Stages, phases and muxers: Local. *)

\* What has happened to what s has written.
Kept(s) == wire'[s] = wire[s]
Pushed(s, t) == /\ OnWire(s)' = OnWire(s) + 1 /\ wire'[s][OnWire(s) + 1] = t
                /\ \A i \in 1..OnWire(s) : wire'[s][i] = wire[s][i]
Popped(s) == /\ OnWire(s) > 0 /\ OnWire(s)' = OnWire(s) - 1
             /\ \A i \in 1..(OnWire(s) - 1) : wire'[s][i] = wire[s][i + 1]

LEMMA ProgressKept ==
  ASSUME NEW s \in Side, Progress(s), UNCHANGED pipeline,
         stage'[s] = stage[s], phase'[s] = phase[s], chosen'[s] = chosen[s], peer'[s] = peer[s]
  PROVE  Progress(s)'
<1>1. Chosen(s)' = Chosen(s) /\ Stages' = Stages
  BY SameLengths DEF Stages
<1> QED  BY <1>1 DEF Progress

LEMMA LastKept ==
  ASSUME TypeOK, TypeOK', NEW s \in Side, MuxLast(s), muxSent'[s] = muxSent[s],
         \/ Kept(s) \/ Popped(s)
         \/ \E t : Pushed(s, t) /\ t.kind # "mux" /\ muxSent[s] = 0
  PROVE  MuxLast(s)'
<1>0. muxSent[s] \in Nat /\ OnWire(s) \in Nat /\ OnWire(s)' \in Nat
  <2>1. muxSent[s] \in Nat /\ OnWire(s) \in Nat
    BY Types, Lengths
  <2>2. OnWire(s)' = OnWire(s) \/ OnWire(s)' = OnWire(s) + 1 \/ (OnWire(s) > 0 /\ OnWire(s)' = OnWire(s) - 1)
    BY SameLengths DEF Kept, Pushed, Popped
  <2> QED  BY <2>1, <2>2
<1>1. CASE Kept(s)
  BY <1>1, SameLengths DEF Kept, MuxLast
<1>2. CASE Popped(s)
  <2> SUFFICES ASSUME NEW i \in 1..OnWire(s)'
               PROVE  IF OnWire(s)' - i < muxSent[s]
                      THEN wire'[s][i] = MuxFrame(s, muxSent[s] - (OnWire(s)' - i))
                      ELSE wire'[s][i].kind # "mux"
    BY DEF MuxLast
  <2>1. /\ i + 1 \in 1..OnWire(s) /\ OnWire(s)' - i = OnWire(s) - (i + 1)
        /\ wire'[s][i] = wire[s][i + 1]
    BY <1>0, <1>2 DEF Popped
  <2> QED  BY <2>1 DEF MuxLast
<1>3. ASSUME NEW t, Pushed(s, t), t.kind # "mux", muxSent[s] = 0
      PROVE  MuxLast(s)'
  <2> SUFFICES ASSUME NEW i \in 1..OnWire(s)'
               PROVE  /\ ~(OnWire(s)' - i < 0)
                      /\ wire'[s][i].kind # "mux"
    BY <1>3 DEF MuxLast
  <2>1. ~(OnWire(s)' - i < 0)
    BY <1>0
  <2>2. i \in 1..OnWire(s) \/ i = OnWire(s) + 1
    BY <1>0, <1>3 DEF Pushed
  <2>3. CASE i \in 1..OnWire(s)
    <3>1. ~(OnWire(s) - i < muxSent[s])
      BY <1>0, <1>3, <2>3
    <3> QED  BY <1>3, <2>1, <2>3, <3>1 DEF MuxLast, Pushed
  <2>4. CASE i = OnWire(s) + 1
    BY <1>3, <2>1, <2>4 DEF Pushed
  <2> QED  BY <2>2, <2>3, <2>4
<1> QED  BY <1>1, <1>2, <1>3

\* A side whose muxer neither writes nor reads.
LEMMA FramesKept ==
  ASSUME TypeOK, TypeOK', NEW s \in Side, Frames(s),
         muxSent'[s] = muxSent[s], muxRead'[s] = muxRead[s],
         \/ phase'[s] = phase[s]
         \/ phase[s] \notin {"connected", "broken"}
         \/ phase'[s] \in {"connected", "broken"},
         \/ Kept(s) \/ Popped(s)
         \/ \E t : Pushed(s, t) /\ t.kind # "mux" /\ muxSent[s] = 0
  PROVE  Frames(s)'
<1>1. MuxLast(s)'
  BY LastKept DEF Frames
<1>2. MuxIdle(s)'
  BY DEF Frames, MuxIdle
<1>3. MuxInOrder(s)'
  BY SameLengths DEF Frames, MuxInOrder
<1> QED  BY <1>1, <1>2, <1>3 DEF Frames

\* One that writes a frame.
LEMMA FramesWritten ==
  ASSUME TypeOK, TypeOK', NEW s \in Side, Frames(s), phase'[s] = "connected",
         muxSent'[s] = muxSent[s] + 1, muxRead'[s] = muxRead[s],
         Pushed(s, MuxFrame(s, muxSent[s] + 1))
  PROVE  Frames(s)'
<1>0. muxSent[s] \in Nat /\ OnWire(s) \in Nat
  BY Types, Lengths
<1>1. MuxLast(s)'
  <2> SUFFICES ASSUME NEW i \in 1..(OnWire(s) + 1)
               PROVE  IF (OnWire(s) + 1) - i < muxSent[s] + 1
                      THEN wire'[s][i] = MuxFrame(s, (muxSent[s] + 1) - ((OnWire(s) + 1) - i))
                      ELSE wire'[s][i].kind # "mux"
    BY DEF MuxLast, Pushed
  <2>1. CASE i \in 1..OnWire(s)
    <3>1. /\ ((OnWire(s) + 1) - i < muxSent[s] + 1) <=> (OnWire(s) - i < muxSent[s])
          /\ (muxSent[s] + 1) - ((OnWire(s) + 1) - i) = muxSent[s] - (OnWire(s) - i)
      BY <1>0, <2>1
    <3>2. wire'[s][i] = wire[s][i]
      BY <2>1 DEF Pushed
    <3> QED  BY <2>1, <3>1, <3>2 DEF Frames, MuxLast
  <2>2. CASE i = OnWire(s) + 1
    <3>1. (OnWire(s) + 1) - i < muxSent[s] + 1
          /\ (muxSent[s] + 1) - ((OnWire(s) + 1) - i) = muxSent[s] + 1
      BY <1>0, <2>2
    <3> QED  BY <2>2, <3>1 DEF Pushed
  <2> QED  BY <1>0, <2>1, <2>2
<1>2. MuxIdle(s)' /\ MuxInOrder(s)'
  BY SameLengths DEF Frames, MuxIdle, MuxInOrder
<1> QED  BY <1>1, <1>2 DEF Frames

\* One that reads a frame.
LEMMA FramesRead ==
  ASSUME TypeOK, TypeOK', NEW s \in Side, Frames(s), phase'[s] = "connected",
         muxSent'[s] = muxSent[s], Kept(s), HasRead(s)' = HasRead(s) + 1,
         muxRead'[s][HasRead(s) + 1] = MuxFrame(Peer(s), HasRead(s) + 1),
         \A i \in 1..HasRead(s) : muxRead'[s][i] = muxRead[s][i]
  PROVE  Frames(s)'
<1>0. HasRead(s) \in Nat /\ HasRead(s) = Len(muxRead[s]) /\ muxRead[s] \in Seq(Token)
  BY Types, Lengths
<1>1. muxRead'[s] \in Seq(Token) /\ HasRead(s)' = Len(muxRead'[s])
  <2>1. muxRead' \in [Side -> Seq(Token)]
    BY DEF TypeOK
  <2> QED  BY <2>1 DEF HasRead
<1>2. MuxInOrder(s)'
  <2> DEFINE n == HasRead(s) + 1
  <2>1. muxRead'[s] = [i \in 1..n |-> muxRead'[s][i]]
    BY <1>1
  <2>2. \A i \in 1..n : muxRead'[s][i] = MuxFrame(Peer(s), i)
    <3>1. \A i \in 1..HasRead(s) : muxRead[s][i] = MuxFrame(Peer(s), i)
      BY DEF Frames, MuxInOrder
    <3> QED  BY <1>0, <3>1
  <2>3. [i \in 1..n |-> muxRead'[s][i]] = [i \in 1..n |-> MuxFrame(Peer(s), i)]
    BY <2>2
  <2> QED  BY <2>1, <2>3 DEF MuxInOrder
<1>3. MuxLast(s)' /\ MuxIdle(s)'
  BY LastKept DEF Frames, MuxIdle
<1> QED  BY <1>2, <1>3 DEF Frames

LEMMA ProposeLocal ==
  ASSUME Basis, TypeOK', DialerPropose
  PROVE  Local'
<1> USE ProposeEffect
<1>0. /\ TypeOK /\ Progress("dialer") /\ Frames("dialer")
      /\ Progress("listener") /\ Frames("listener")
  BY DEF Basis, Local
<1>1. Progress("dialer")'
  <2>1. stage["dialer"] \in Nat /\ Chosen("dialer") \in Nat
    BY <1>0, Types, Lengths
  <2>2. /\ phase["dialer"] = "select" /\ Chosen("dialer") = stage["dialer"] - 1
        /\ UNCHANGED <<pipeline, stage, peer>>
        /\ \/ phase'["dialer"] = "upgrade" /\ Chosen("dialer")' = Chosen("dialer") + 1
           \/ phase'["dialer"] = "await" /\ Chosen("dialer")' = Chosen("dialer")
    BY SameLengths
  <2> QED  BY <1>0, <2>1, <2>2 DEF Progress
<1>2. Frames("dialer")'
  BY <1>0, FramesKept DEF Kept
<1>3. Progress("listener")' /\ Frames("listener")'
  BY <1>0, ProgressKept, FramesKept DEF Kept
<1> QED  BY <1>1, <1>2, <1>3 DEF Local

LEMMA FlushLocal ==
  ASSUME Basis, TypeOK', DialerFlush
  PROVE  Local'
<1> USE FlushEffect
<1>0. /\ TypeOK /\ Progress("dialer") /\ Frames("dialer")
      /\ Progress("listener") /\ Frames("listener")
  BY DEF Basis, Local
<1>1. muxSent["dialer"] = 0
  BY Lengths DEF Basis, DialerLocal, Holding
<1>2. Pushed("dialer", held[1]) /\ held[1].kind # "mux"
  BY DEF Pushed
<1>3. \A s \in Side : Progress(s)'
  BY <1>0, ProgressKept
<1>4. Frames("dialer")' /\ Frames("listener")'
  BY <1>0, <1>1, <1>2, FramesKept DEF Kept
<1> QED  BY <1>3, <1>4 DEF Local

LEMMA AwaitLocal ==
  ASSUME Basis, TypeOK', DialerAwait
  PROVE  Local'
<1> USE AwaitEffect
<1>0. /\ TypeOK /\ Progress("dialer") /\ Frames("dialer")
      /\ Progress("listener") /\ Frames("listener")
  BY DEF Basis, Local
<1>1. Progress("dialer")'
  <2>1. stage["dialer"] \in Nat /\ Chosen("dialer") \in Nat
    BY <1>0, Types, Lengths
  <2>2. /\ phase["dialer"] = "await" /\ Chosen("dialer") = stage["dialer"] - 1
        /\ UNCHANGED <<pipeline, stage, peer>>
        /\ \/ phase'["dialer"] = "upgrade" /\ Chosen("dialer")' = Chosen("dialer") + 1
           \/ phase'["dialer"] \in {"select", "failed"} /\ Chosen("dialer")' = Chosen("dialer")
    BY SameLengths
  <2> QED  BY <1>0, <2>1, <2>2 DEF Progress
<1>2. Frames("dialer")' /\ Frames("listener")'
  BY <1>0, FramesKept DEF Kept, Popped
<1>3. Progress("listener")'
  BY <1>0, ProgressKept
<1> QED  BY <1>1, <1>2, <1>3 DEF Local

LEMMA ConfirmLocal ==
  ASSUME Basis, TypeOK', DialerConfirm
  PROVE  Local'
<1> USE ConfirmEffect
<1>0. /\ TypeOK /\ Progress("dialer") /\ Frames("dialer")
      /\ Progress("listener") /\ Frames("listener")
  BY DEF Basis, Local
<1>1. Progress("dialer")'
  <2>1. /\ UNCHANGED <<pipeline, stage, peer>> /\ Chosen("dialer")' = Chosen("dialer")
        /\ Stages' = Stages
        /\ \/ phase'["dialer"] = phase["dialer"]
           \/ phase["dialer"] = "connected" /\ phase'["dialer"] = "broken"
           \/ phase'["dialer"] = "failed"
    BY SameLengths DEF Stages
  <2> QED  BY <1>0, <2>1 DEF Progress
<1>2. Frames("dialer")'
  BY <1>0, FramesKept DEF Kept
<1>3. Progress("listener")' /\ Frames("listener")'
  BY <1>0, ProgressKept, FramesKept DEF Popped
<1> QED  BY <1>1, <1>2, <1>3 DEF Local

LEMMA ReceiveLocal ==
  ASSUME Basis, TypeOK', ListenerReceive \/ ListenerSwallow
  PROVE  Local'
<1>0. /\ TypeOK /\ Progress("dialer") /\ Frames("dialer")
      /\ Progress("listener") /\ Frames("listener")
  BY DEF Basis, Local
<1>1. /\ phase["listener"] = "select" /\ phase'["listener"] \in {"select", "answer", "failed"}
      /\ phase'["dialer"] = phase["dialer"]
      /\ UNCHANGED <<pipeline, stage, chosen, peer, muxRead, muxSent>>
      /\ Kept("listener") /\ Popped("dialer")
  BY ReceiveEffect, SwallowEffect DEF Kept, Popped
<1>2. Progress("listener")'
  <2>1. Chosen("listener")' = Chosen("listener")
    BY <1>1, SameLengths
  <2> QED  BY <1>0, <1>1, <2>1 DEF Progress
<1>3. Progress("dialer")'
  BY <1>0, <1>1, ProgressKept
<1>4. Frames("dialer")' /\ Frames("listener")'
  BY <1>0, <1>1, FramesKept
<1> QED  BY <1>2, <1>3, <1>4 DEF Local

LEMMA AnswerLocal ==
  ASSUME Basis, TypeOK', ListenerAnswer
  PROVE  Local'
<1> USE AnswerEffect
<1>0. /\ TypeOK /\ Progress("dialer") /\ Frames("dialer")
      /\ Progress("listener") /\ Frames("listener")
  BY DEF Basis, Local
<1>1. Progress("listener")'
  <2>1. stage["listener"] \in Nat /\ Chosen("listener") \in Nat
    BY <1>0, Types, Lengths
  <2>2. /\ phase["listener"] = "answer" /\ Chosen("listener") = stage["listener"] - 1
        /\ UNCHANGED <<pipeline, stage, peer>>
        /\ \/ phase'["listener"] = "upgrade" /\ Chosen("listener")' = Chosen("listener") + 1
           \/ phase'["listener"] = "select" /\ Chosen("listener")' = Chosen("listener")
    BY SameLengths
  <2> QED  BY <1>0, <2>1, <2>2 DEF Progress
<1>2. Frames("listener")'
  <2>1. Pushed("listener", answer)
    BY DEF Pushed
  <2>2. answer.kind # "mux"
    BY TokenKinds DEF Basis, ListenerLocal
  <2>3. muxSent["listener"] = 0
    BY <1>0 DEF Frames, MuxIdle
  <2> QED  BY <1>0, <2>1, <2>2, <2>3, FramesKept
<1>3. Progress("dialer")' /\ Frames("dialer")'
  BY <1>0, ProgressKept, FramesKept DEF Kept
<1> QED  BY <1>1, <1>2, <1>3 DEF Local

LEMMA SideLocal ==
  ASSUME IInv, TypeOK', NEW s \in Side, SideStep(s)
  PROVE  Local'
<1> DEFINE r == Peer(s)
<1>0. /\ Basis /\ TypeOK /\ Progress(s) /\ Frames(s) /\ r \in Side
      /\ Progress(r) /\ Frames(r) /\ Side = {s, r}
  BY Peers DEF IInv, Basis, Local
<1> HIDE DEF r
<1>1. stage[s] \in Nat /\ Chosen(s) \in Nat
  BY <1>0, Types, Lengths
<1> USE <1>0, <1>1
<1>2. ASSUME Progress(s)', Frames(s)', Progress(r)', Frames(r)'
      PROVE  Local'
  BY <1>2 DEF Local
<1>3. CASE SendKey(s)
  <2> USE <1>3, SendKeyEffect DEF r
  <2>1. Progress(s)' /\ Progress(r)'
    <3>1. Chosen(s)' = Chosen(s) /\ Stages' = Stages
      BY SameLengths DEF Stages
    <3> QED  BY <3>1, ProgressKept DEF Progress
  <2>2. Frames(s)'
    <3>1. Pushed(s, Key(s)) /\ Key(s).kind # "mux" /\ muxSent[s] = 0
      BY TokenKinds DEF Frames, MuxIdle, Pushed
    <3> QED  BY <3>1, FramesKept
  <2>3. Frames(r)'
    BY FramesKept DEF Kept
  <2> QED  BY <1>2, <2>1, <2>2, <2>3
<1>4. CASE ReadKey(s)
  <2> USE <1>4, ReadKeyEffect DEF r
  <2>1. Progress(s)' /\ Progress(r)'
    <3>1. Chosen(s)' = Chosen(s) /\ Stages' = Stages
      BY SameLengths DEF Stages
    <3> QED  BY <3>1, ProgressKept DEF Progress
  <2>2. Frames(s)' /\ Frames(r)'
    BY FramesKept DEF Kept, Popped
  <2> QED  BY <1>2, <2>1, <2>2
<1>5. CASE PassReady(s)
  <2> USE <1>5, PassEffect DEF r
  <2>1. Progress(s)' /\ Progress(r)'
    <3>1. Chosen(s)' = Chosen(s) /\ Stages' = Stages
      BY SameLengths DEF Stages
    <3> QED  BY <3>1, ProgressKept DEF Progress
  <2>2. Frames(s)' /\ Frames(r)'
    BY FramesKept DEF Kept
  <2> QED  BY <1>2, <2>1, <2>2
<1>6. CASE StartMuxer(s)
  <2> USE <1>6, StartEffect DEF r
  <2>1. Progress(s)' /\ Progress(r)'
    <3>1. Chosen(s)' = Chosen(s) /\ Stages' = Stages
      BY SameLengths DEF Stages
    <3> QED  BY <3>1, ProgressKept DEF Progress
  <2>2. Frames(s)' /\ Frames(r)'
    BY FramesKept DEF Kept
  <2> QED  BY <1>2, <2>1, <2>2
<1>7. CASE MuxWrite(s)
  <2> USE <1>7, MuxWriteEffect DEF r
  <2>1. Progress(s)' /\ Progress(r)'
    BY ProgressKept
  <2>2. Frames(s)'
    BY FramesWritten DEF Pushed
  <2>3. Frames(r)'
    BY FramesKept DEF Kept
  <2> QED  BY <1>2, <2>1, <2>2, <2>3
<1>8. CASE MuxRead(s)
  <2> USE <1>8, MuxReadEffect DEF r
  <2>1. Progress(s)' /\ Progress(r)'
    BY ProgressKept
  <2>2. Frames(s)'
    BY FramesRead DEF Kept
  <2>3. Frames(r)'
    BY FramesKept DEF Popped
  <2> QED  BY <1>2, <2>1, <2>2, <2>3
<1>9. CASE Ends(s)
  <2> USE <1>9, EndsEffect DEF r
  <2>1. Progress(r)'
    BY ProgressKept
  <2>2. Progress(s)'
    <3>1. /\ Chosen(s)' = Chosen(s) /\ Stages' = Stages /\ UNCHANGED <<stage, peer>>
          /\ \/ phase[s] = "connected" /\ phase'[s] = "broken"
             \/ phase'[s] = "failed"
      BY SameLengths DEF Stages
    <3> QED  BY <3>1 DEF Progress
  <2>3. Frames(s)' /\ Frames(r)'
    BY FramesKept DEF Kept, Down
  <2> QED  BY <1>2, <2>1, <2>2, <2>3
<1> QED  BY <1>3, <1>4, <1>5, <1>6, <1>7, <1>8, <1>9 DEF SideStep

LEMMA LocalStep ==
  ASSUME IInv, TypeOK', [Next]_vars
  PROVE  Local'
<1>1. Basis /\ TypeOK
  BY DEF IInv, Basis
<1>2. CASE UNCHANGED vars
  BY <1>1, <1>2, SameLengths DEF Local, Basis, Progress, Frames, MuxIdle, MuxLast, MuxInOrder,
     Stages, vars
<1> QED  BY <1>1, <1>2, Cases, ProposeLocal, FlushLocal, AwaitLocal, ConfirmLocal, ReceiveLocal,
            AnswerLocal, SideLocal

-----------------------------------------------------------------------------
(* The dialer's offers, its write buffers and what its streams expect. *)

LEMMA OfferingKept ==
  ASSUME Offering, UNCHANGED <<pipeline, tried>>, stage'["dialer"] = stage["dialer"],
         phase'["dialer"] = phase["dialer"] \/ phase'["dialer"] \notin {"select", "await"}
  PROVE  Offering'
BY DEF Offering, Stage

\* Two facts about the types, of the state a step leads to.
LEMMA Offers ==
    TypeOK => Len(Stage("dialer").offers) > 0
BY Types, Chain DEF Stage

LEMMA OffersNext ==
    TypeOK' => (Len(Stage("dialer").offers) > 0)'
BY Offers, PTL

LEMMA Nothing ==
    TypeOK => Expected \in Nat /\ (held = <<>> => Held = 0)
BY Lengths

LEMMA NothingNext ==
    TypeOK' => (Expected \in Nat /\ (held = <<>> => Held = 0))'
BY Nothing, PTL

\* The dialer is at the first offer of a new stage.
LEMMA OfferingNew ==
  ASSUME TypeOK', tried' = 0, phase'["dialer"] = "select"
  PROVE  Offering'
BY OffersNext DEF Offering

LEMMA HoldingKept ==
  ASSUME Holding, UNCHANGED <<expecting, held>>, muxSent'["dialer"] = muxSent["dialer"],
         \/ phase'["dialer"] = phase["dialer"]
         \/ Down("dialer")'
         \/ phase["dialer"] = "upgrade" /\ phase'["dialer"] \in {"select", "connected"}
  PROVE  Holding'
<1>1. Held' = Held /\ Expected' = Expected
  BY SameLengths
<1>2. CASE phase'["dialer"] = phase["dialer"]
  BY <1>1, <1>2 DEF Holding, Down
<1>3. CASE Down("dialer")'
  BY <1>1, <1>3 DEF Holding, Down
<1>4. CASE phase["dialer"] = "upgrade" /\ phase'["dialer"] \in {"select", "connected"}
  BY <1>1, <1>4 DEF Holding, Down, Bit
<1> QED  BY <1>2, <1>3, <1>4

\* All is flushed.
LEMMA HoldingNone ==
  ASSUME TypeOK', held' = <<>>
  PROVE  Holding'
<1>1. Expected' \in Nat /\ Held' = 0
  BY NothingNext
<1>2. Bit(phase["dialer"] = "await")' \in {0, 1}
  BY DEF Bit
<1> QED  BY <1>1, <1>2 DEF Holding

LEMMA ExpectationKept ==
  ASSUME Expectation, UNCHANGED expecting, chosen'["dialer"] = chosen["dialer"],
         stage'["dialer"] = stage["dialer"] \/ stage["dialer"] > 1 \/ Unconfirmed > 0
  PROVE  Expectation'
<1>1. Expected' = Expected /\ Chosen("dialer")' = Chosen("dialer")
  BY SameLengths
<1>2. Unconfirmed' = Unconfirmed
  BY <1>1 DEF Unconfirmed
<1> QED  BY <1>1, <1>2 DEF Expectation

LEMMA ProposeDialer ==
  ASSUME Basis, TypeOK', DialerPropose
  PROVE  DialerLocal'
<1> USE ProposeEffect
<1> DEFINE p == Stage("dialer").offers[tried + 1]
<1>0. /\ TypeOK /\ Holding /\ Expectation /\ phase["dialer"] = "select"
      /\ Chosen("dialer") \in Nat /\ Expected \in Nat /\ Held \in Nat /\ tried \in Nat
      /\ stage["dialer"] \in Nat /\ Chosen("dialer") = stage["dialer"] - 1
      /\ Len(Stage("dialer").offers) \in Nat
  BY Types, Lengths, Chain DEF Basis, DialerLocal, Stage
<1>1. Offering'
  <2>1. Stage("dialer")' = Stage("dialer")
    BY DEF Stage
  <2>2. \/ phase'["dialer"] = "upgrade"
        \/ phase'["dialer"] = "await" /\ tried + 1 < Len(Stage("dialer").offers)
    OBVIOUS
  <2> QED  BY <1>0, <2>1, <2>2 DEF Offering
<1>2. muxSent["dialer"] = 0
  BY <1>0 DEF Basis, Local, Frames, MuxIdle
<1>3. Held <= Expected
  BY <1>0 DEF Holding, Down, Bit
<1>4. CASE /\ phase'["dialer"] = "upgrade"
           /\ Chosen("dialer")' = Chosen("dialer") + 1
           /\ chosen'["dialer"][Chosen("dialer") + 1] = p
           /\ \A i \in 1..Chosen("dialer") : chosen'["dialer"][i] = chosen["dialer"][i]
           /\ Expected' = Expected + 1 /\ expecting'[Expected + 1] = p
           /\ \A i \in 1..Expected : expecting'[i] = expecting[i]
  <2>1. Holding'
    BY <1>0, <1>2, <1>3, <1>4 DEF Holding, Bit
  <2>2. Unconfirmed' = Unconfirmed
    BY <1>0, <1>4 DEF Unconfirmed
  <2>3. Unconfirmed + Expected = Chosen("dialer") /\ Unconfirmed \in Nat
    BY <1>0 DEF Unconfirmed, Expectation
  <2>4. ASSUME NEW i \in 1..(Expected + 1)
        PROVE  expecting'[i] = chosen'["dialer"][Unconfirmed + i]
    <3>1. CASE i \in 1..Expected
      <4>1. Unconfirmed + i \in 1..Chosen("dialer")
        BY <1>0, <2>3, <3>1
      <4> QED  BY <1>0, <1>4, <3>1, <4>1 DEF Expectation
    <3>2. CASE i = Expected + 1
      <4>1. Unconfirmed + i = Chosen("dialer") + 1
        BY <1>0, <2>3, <3>2
      <4> QED  BY <1>4, <3>2, <4>1
    <3> QED  BY <1>0, <3>1, <3>2
  <2>5. Expectation'
    <3>1. Expected' <= Chosen("dialer")'
      BY <1>0, <1>4 DEF Expectation
    <3>2. stage'["dialer"] > 1 => Unconfirmed' > 0
      BY <1>0, <2>2 DEF Expectation
    <3>3. Expected' = Expected + 1
      BY <1>4
    <3> QED  BY <2>2, <2>4, <3>1, <3>2, <3>3 DEF Expectation
  <2> QED  BY <1>1, <2>1, <2>5 DEF DialerLocal
<1>5. CASE phase'["dialer"] = "await" /\ UNCHANGED <<chosen, expecting>>
  <2>1. Holding'
    <3>1. Expected' = Expected
      BY <1>5, SameLengths
    <3> QED  BY <1>0, <1>2, <1>3, <1>5, <3>1 DEF Holding, Bit
  <2>2. Expectation'
    BY <1>0, <1>5, ExpectationKept
  <2> QED  BY <1>1, <2>1, <2>2 DEF DialerLocal
<1> QED  BY <1>4, <1>5

LEMMA FlushDialer ==
  ASSUME Basis, TypeOK', DialerFlush
  PROVE  DialerLocal'
<1> USE FlushEffect
<1>0. /\ TypeOK /\ Offering /\ Holding /\ Expectation
      /\ Expected \in Nat /\ Held \in Nat /\ Expected' = Expected
  BY Lengths, SameLengths DEF Basis, DialerLocal
<1>1. Offering' /\ Expectation'
  BY <1>0, OfferingKept, ExpectationKept
<1>2. Holding'
  <2>1. held # <<>> /\ muxSent'["dialer"] = 0
    BY <1>0, Lengths DEF Holding
  <2>2. phase'["dialer"] # "readKey"
    BY <1>0, <2>1 DEF Holding
  <2>3. ~Down("dialer")' => Held' <= Expected' + Bit(phase["dialer"] = "await")'
    <3>1. Bit(phase["dialer"] = "await") \in {0, 1}
      BY DEF Bit
    <3>2. phase' = phase
      OBVIOUS
    <3>3. ~Down("dialer") => Held - 1 <= Expected + Bit(phase["dialer"] = "await")
      BY <1>0, <3>1 DEF Holding
    <3> QED  BY <1>0, <3>2, <3>3 DEF Down
  <2> QED  BY <2>1, <2>2, <2>3 DEF Holding
<1> QED  BY <1>1, <1>2 DEF DialerLocal

LEMMA AwaitDialer ==
  ASSUME Basis, TypeOK', DialerAwait
  PROVE  DialerLocal'
<1> USE AwaitEffect
<1>0. /\ TypeOK /\ Offering /\ Expectation /\ phase["dialer"] = "await"
      /\ Chosen("dialer") \in Nat /\ stage["dialer"] \in Nat
      /\ Chosen("dialer") = stage["dialer"] - 1
  BY Types, Lengths DEF Basis, DialerLocal
<1>1. Offering'
  <2>1. Stage("dialer")' = Stage("dialer")
    BY DEF Stage
  <2> QED  BY <1>0, <2>1 DEF Offering
<1>2. Holding'
  BY HoldingNone
<1>3. Expectation'
  <2>1. Expected = 0 /\ Expected' = 0
    BY <1>0, Lengths, SameLengths
  <2>2. Chosen("dialer")' \in {Chosen("dialer"), Chosen("dialer") + 1}
    BY SameLengths
  <2>3. Unconfirmed' = Chosen("dialer")'
    BY <1>0, <2>1, <2>2 DEF Unconfirmed
  <2> QED  BY <1>0, <2>1, <2>2, <2>3 DEF Expectation
<1> QED  BY <1>1, <1>2, <1>3 DEF DialerLocal

LEMMA ConfirmDialer ==
  ASSUME Basis, TypeOK', DialerConfirm
  PROVE  DialerLocal'
<1> USE ConfirmEffect
<1>0. /\ TypeOK /\ Offering /\ Expectation
      /\ Chosen("dialer") \in Nat /\ Chosen("dialer")' = Chosen("dialer")
      /\ Expected \in Nat /\ stage["dialer"] \in Nat
  BY Types, Lengths, SameLengths DEF Basis, DialerLocal
<1>1. Offering'
  BY <1>0, OfferingKept
<1>2. Holding'
  BY HoldingNone
<1>3. CASE expecting' = expecting
  BY <1>0, <1>1, <1>2, <1>3, ExpectationKept DEF DialerLocal
<1>4. CASE /\ Expected > 0 /\ Expected' = Expected - 1
           /\ \A i \in 1..(Expected - 1) : expecting'[i] = expecting[i + 1]
  <2>1. Unconfirmed' = Unconfirmed + 1 /\ Unconfirmed \in Nat
    BY <1>0, <1>4 DEF Unconfirmed, Expectation
  <2>2. ASSUME NEW i \in 1..(Expected - 1)
        PROVE  expecting'[i] = chosen'["dialer"][Unconfirmed + 1 + i]
    <3>1. i + 1 \in 1..Expected /\ Unconfirmed + (i + 1) = Unconfirmed + 1 + i
      BY <1>0, <2>1
    <3> QED  BY <1>4, <1>0, <3>1 DEF Expectation
  <2>3. Expectation'
    <3>1. Expected' <= Chosen("dialer")' /\ Unconfirmed' > 0
      BY <1>0, <1>4, <2>1 DEF Expectation
    <3>2. Expected' = Expected - 1 /\ Unconfirmed' = Unconfirmed + 1
      BY <1>4, <2>1
    <3> QED  BY <2>2, <3>1, <3>2 DEF Expectation
  <2> QED  BY <1>1, <1>2, <2>3 DEF DialerLocal
<1> QED  BY <1>3, <1>4

LEMMA SideDialer ==
  ASSUME IInv, TypeOK', SideStep("dialer")
  PROVE  DialerLocal'
<1>0. Basis /\ TypeOK /\ Offering /\ Holding /\ Expectation /\ "listener" = Peer("dialer")
  BY Peers DEF IInv, Basis, DialerLocal
<1> USE <1>0
<1>1. ASSUME Offering', Holding', Expectation'
      PROVE  DialerLocal'
  BY <1>1 DEF DialerLocal
<1>2. CASE SendKey("dialer")
  <2> USE <1>2, SendKeyEffect
  <2> QED  BY <1>1, OfferingKept, HoldingNone, ExpectationKept
<1>3. CASE ReadKey("dialer")
  <2> USE <1>3, ReadKeyEffect
  <2>1. Unconfirmed > 0
    <3>1. Expected = 0 /\ Chosen("dialer") = 1
      BY Lengths
    <3> QED  BY <3>1 DEF Unconfirmed
  <2> QED  BY <1>1, <2>1, OfferingNew, HoldingNone, ExpectationKept
<1>4. CASE PassReady("dialer")
  <2> USE <1>4, PassEffect
  <2> QED  BY <1>1, OfferingNew, HoldingKept, ExpectationKept
<1>5. CASE StartMuxer("dialer")
  <2> USE <1>5, StartEffect
  <2> QED  BY <1>1, OfferingKept, HoldingKept, ExpectationKept
<1>6. CASE MuxWrite("dialer")
  <2> USE <1>6, MuxWriteEffect
  <2> QED  BY <1>1, OfferingKept, HoldingNone, ExpectationKept
<1>7. CASE MuxRead("dialer")
  <2> USE <1>7, MuxReadEffect
  <2> QED  BY <1>1, OfferingKept, HoldingNone, ExpectationKept
<1>8. CASE Ends("dialer")
  <2> USE <1>8, EndsEffect
  <2> QED  BY <1>1, OfferingKept, HoldingKept, ExpectationKept DEF Down
<1> QED  BY <1>2, <1>3, <1>4, <1>5, <1>6, <1>7, <1>8 DEF SideStep

\* No step of the listener touches the dialer's state.
LEMMA DialerUntouched ==
  ASSUME IInv, \/ ListenerReceive \/ ListenerSwallow \/ ListenerAnswer
               \/ SideStep("listener") \/ UNCHANGED vars
  PROVE  /\ UNCHANGED <<pipeline, tried, expecting, held>>
         /\ phase'["dialer"] = phase["dialer"] /\ stage'["dialer"] = stage["dialer"]
         /\ chosen'["dialer"] = chosen["dialer"] /\ muxSent'["dialer"] = muxSent["dialer"]
<1>0. Basis /\ "dialer" = Peer("listener")
  BY Peers DEF IInv
<1>1. CASE ListenerReceive \/ ListenerSwallow \/ ListenerAnswer
  BY <1>0, <1>1, ReceiveEffect, SwallowEffect, AnswerEffect
<1>2. CASE SideStep("listener")
  BY <1>0, <1>2, SendKeyEffect, ReadKeyEffect, PassEffect, StartEffect, MuxWriteEffect,
     MuxReadEffect, EndsEffect DEF SideStep
<1>3. CASE UNCHANGED vars
  BY <1>3 DEF vars
<1> QED  BY <1>1, <1>2, <1>3

LEMMA DialerLocalStep ==
  ASSUME IInv, TypeOK', [Next]_vars
  PROVE  DialerLocal'
<1>0. Basis /\ TypeOK /\ Offering /\ Holding /\ Expectation
  BY DEF IInv, Basis, DialerLocal
<1>1. CASE \/ ListenerReceive \/ ListenerSwallow \/ ListenerAnswer
           \/ SideStep("listener") \/ UNCHANGED vars
  BY <1>0, <1>1, DialerUntouched, OfferingKept, HoldingKept, ExpectationKept DEF DialerLocal
<1> QED  BY <1>0, <1>1, Cases, ProposeDialer, FlushDialer, AwaitDialer, ConfirmDialer, SideDialer

-----------------------------------------------------------------------------
(* What the dialer learns from an answer it waits for. *)

LEMMA Awaiting ==
  ASSUME IInv, DialerAwait
  PROVE  /\ Unconfirmed = Chosen("dialer") /\ Proposed = Chosen("dialer") + 1
         /\ Chosen("dialer") \in Nat /\ Chosen("dialer") < Stages
         /\ Asked(Proposed) = Stage("dialer").offers[tried]
         /\ ~Down("dialer") /\ (InStep \/ RefusedAwaited)
<1>0. Basis /\ TypeOK
  BY DEF IInv, Basis
<1> USE <1>0, AwaitEffect
<1>1. Chosen("dialer") \in Nat /\ Expected = 0 /\ phase["dialer"] = "await"
  BY Lengths
<1>2. Unconfirmed = Chosen("dialer") /\ Proposed = Chosen("dialer") + 1
  BY <1>1 DEF Unconfirmed, Proposed, Bit
<1>3. Asked(Proposed) = Stage("dialer").offers[tried]
  BY <1>1, <1>2 DEF Asked
<1>4. ~Down("dialer") /\ ~RefusedLast
  BY <1>1, <1>2 DEF Down, RefusedLast
<1>5. Chosen("dialer") < Stages
  <2>1. stage["dialer"] \in 1..Stages /\ Stages \in Nat
    BY Types, Chain
  <2> QED  BY <1>1, <2>1
<1> QED  BY <1>1, <1>2, <1>3, <1>4, <1>5 DEF IInv, DialerView

\* In step, the answer is the echo of the proposal that was made last.
LEMMA AwaitInStep ==
  ASSUME IInv, DialerAwait, InStep
  PROVE  /\ wire["listener"][1] = Proposal(Stage("dialer").offers[tried])
         /\ Chosen("listener") = Proposed
<1>0. Basis /\ TypeOK
  BY DEF IInv, Basis
<1>1. /\ OnWire("listener") > 0 /\ OnWire("listener") \in Nat
      /\ HasRead("dialer") = 0 /\ muxSent["listener"] \in Nat
      /\ Chosen("listener") \in Nat /\ Chosen("dialer") = stage["dialer"] - 1
      /\ stage["dialer"] \in Nat
  <2>1. muxRead["dialer"] = <<>>
    BY <1>0, AwaitEffect DEF Basis, Local, Frames, MuxIdle
  <2> QED  BY <1>0, <2>1, AwaitEffect, Lengths, Types
<1> USE Awaiting
<1>2. Chosen("listener") \in {Chosen("dialer"), Proposed}
  <2>1. Unconfirmed <= Chosen("listener") /\ Chosen("listener") <= Proposed
    BY DEF InStep, EchoesInStep, Written, EchoesTo
  <2> QED  BY <1>1, <2>1
<1>3. Chosen("listener") # Chosen("dialer")
  <2> SUFFICES ASSUME Chosen("listener") = Chosen("dialer") PROVE FALSE
    OBVIOUS
  <2>1. PICK k \in {0, 1} :
          /\ OnWire("listener") + HasRead("dialer") =
               Chosen("listener") - Unconfirmed + k + muxSent["listener"]
          /\ k = 1 => stage["dialer"] = 1 /\ Chosen("listener") = 1
    BY DEF InStep, EchoesInStep, Written
  <2>2. k = 0
    BY <1>1, <2>1
  <2>3. muxSent["listener"] = 0
    <3>1. ~(phase["listener"] \in {"connected", "broken"})
      <4>1. Chosen("listener") # Stages
        OBVIOUS
      <4> QED  BY <1>0, <4>1, Connected
    <3> QED  BY <1>0, <1>1, <3>1, Connected
  <2> QED  BY <1>1, <2>1, <2>2, <2>3
<1>4. Chosen("listener") = Proposed
  BY <1>2, <1>3
<1>5. wire["listener"][Proposed - Unconfirmed] = Proposal(Asked(Proposed))
  BY <1>4 DEF InStep, EchoesInStep, Written, EchoesTo
<1>6. Proposed - Unconfirmed = 1
  OBVIOUS
<1> QED  BY <1>4, <1>5, <1>6

\* After a refusal it is NA, and the listener supports none of that name.
LEMMA AwaitRefused ==
  ASSUME IInv, DialerAwait, RefusedAwaited
  PROVE  /\ wire["listener"][1] = NA /\ OnWire("listener") = 1
         /\ Stage("dialer").offers[tried] \notin Stage("dialer").supports
<1>1. OnWire("listener") = 1
  BY Awaiting DEF RefusedAwaited
<1> QED  BY <1>1, Awaiting DEF RefusedAwaited

-----------------------------------------------------------------------------
(* InOrderOfPreference. *)

\* The first conjunct.
Preferred ==
    \A i \in 1..Chosen("dialer") :
        \E j \in 1..Len(pipeline[i].offers) :
            chosen["dialer"][i] = pipeline[i].offers[j] /\ RefusedBefore(i, j)

LEMMA PreferredKept ==
  ASSUME Preferred, UNCHANGED pipeline, chosen'["dialer"] = chosen["dialer"]
  PROVE  Preferred'
<1>1. Chosen("dialer")' = Chosen("dialer")
  BY SameLengths
<1> QED  BY <1>1 DEF Preferred, RefusedBefore

LEMMA PreferredMore ==
  ASSUME TypeOK, Preferred, UNCHANGED pipeline, Chosen("dialer") = stage["dialer"] - 1,
         NEW j \in 1..Len(Stage("dialer").offers), RefusedBefore(stage["dialer"], j),
         Chosen("dialer")' = Chosen("dialer") + 1,
         chosen'["dialer"][Chosen("dialer") + 1] = Stage("dialer").offers[j],
         \A i \in 1..Chosen("dialer") : chosen'["dialer"][i] = chosen["dialer"][i]
  PROVE  Preferred'
<1>1. Chosen("dialer") \in Nat /\ stage["dialer"] \in Nat
  BY Lengths, Types
<1>2. Chosen("dialer") + 1 = stage["dialer"]
  BY <1>1
<1> SUFFICES ASSUME NEW i \in 1..(Chosen("dialer") + 1)
             PROVE  \E m \in 1..Len(pipeline[i].offers) :
                      chosen'["dialer"][i] = pipeline[i].offers[m] /\ RefusedBefore(i, m)
  BY DEF Preferred, RefusedBefore
<1>3. CASE i \in 1..Chosen("dialer")
  BY <1>3 DEF Preferred
<1>4. CASE i = Chosen("dialer") + 1
  BY <1>2, <1>4 DEF Stage
<1> QED  BY <1>1, <1>3, <1>4

LEMMA OrderStep ==
  ASSUME IInv, TypeOK', [Next]_vars
  PROVE  InOrderOfPreference'
<1>0. Basis /\ TypeOK /\ Preferred
  BY DEF IInv, Basis, InOrderOfPreference, Preferred
<1>1. ASSUME Preferred',
             phase'["dialer"] = "select" => RefusedBefore(stage["dialer"], tried + 1)',
             phase'["dialer"] = "await" => RefusedBefore(stage["dialer"], tried)'
      PROVE  InOrderOfPreference'
  BY <1>1 DEF InOrderOfPreference, Preferred
<1>2. ASSUME UNCHANGED <<pipeline, tried>>, chosen'["dialer"] = chosen["dialer"],
             stage'["dialer"] = stage["dialer"],
             phase'["dialer"] = phase["dialer"] \/ phase'["dialer"] \notin {"select", "await"}
      PROVE  InOrderOfPreference'
  BY <1>0, <1>1, <1>2, PreferredKept DEF IInv, InOrderOfPreference, RefusedBefore
<1>3. ASSUME UNCHANGED pipeline, chosen'["dialer"] = chosen["dialer"],
             tried' = 0, phase'["dialer"] = "select"
      PROVE  InOrderOfPreference'
  BY <1>0, <1>1, <1>3, PreferredKept DEF RefusedBefore
<1>4. CASE DialerPropose
  <2> USE <1>0, <1>4, ProposeEffect
  <2>1. RefusedBefore(stage["dialer"], tried + 1)
    BY DEF IInv, InOrderOfPreference
  <2>2. CASE phase'["dialer"] = "await" /\ UNCHANGED <<chosen, expecting>>
    BY <1>1, <2>1, <2>2, PreferredKept DEF RefusedBefore
  <2>3. CASE /\ phase'["dialer"] = "upgrade" /\ Chosen("dialer")' = Chosen("dialer") + 1
             /\ chosen'["dialer"][Chosen("dialer") + 1] = Stage("dialer").offers[tried + 1]
             /\ \A i \in 1..Chosen("dialer") : chosen'["dialer"][i] = chosen["dialer"][i]
    <3>1. Preferred'
      BY <2>1, <2>3, PreferredMore
    <3> QED  BY <1>1, <2>3, <3>1
  <2> QED  BY <2>2, <2>3
<1>5. CASE DialerFlush
  BY <1>0, <1>2, <1>5, FlushEffect
<1>6. CASE DialerAwait
  <2> USE <1>0, <1>6, AwaitEffect
  <2>1. RefusedBefore(stage["dialer"], tried)
    BY DEF IInv, InOrderOfPreference
  <2>2. CASE /\ phase'["dialer"] = "upgrade" /\ Chosen("dialer")' = Chosen("dialer") + 1
             /\ chosen'["dialer"][Chosen("dialer") + 1] = Stage("dialer").offers[tried]
             /\ \A i \in 1..Chosen("dialer") : chosen'["dialer"][i] = chosen["dialer"][i]
    <3>1. Preferred'
      BY <2>1, <2>2, PreferredMore
    <3> QED  BY <1>1, <2>2, <3>1
  <2>3. CASE /\ phase'["dialer"] \in {"select", "failed"} /\ UNCHANGED chosen
             /\ wire["listener"][1] # Proposal(Stage("dialer").offers[tried])
    <3>1. RefusedAwaited
      BY <2>3, Awaiting, AwaitInStep
    <3>2. Stage("dialer").offers[tried] \notin Stage("dialer").supports
      BY <3>1, AwaitRefused
    <3>3. RefusedBefore(stage["dialer"], tried + 1)
      <4>1. tried \in Nat
        BY Types
      <4>2. \A m \in 1..((tried + 1) - 1) : m \in 1..(tried - 1) \/ m = tried
        BY <4>1
      <4> QED  BY <2>1, <3>2, <4>2 DEF RefusedBefore, Stage
    <3>4. RefusedBefore(stage["dialer"], tried + 1)'
      BY <3>3 DEF RefusedBefore
    <3> QED  BY <1>1, <2>3, <3>4, PreferredKept
  <2> QED  BY <2>2, <2>3
<1>7. CASE DialerConfirm
  BY <1>0, <1>2, <1>7, ConfirmEffect
<1>8. CASE SideStep("dialer")
  <2>1. "listener" = Peer("dialer")
    BY Peers
  <2>2. CASE ReadKey("dialer") \/ PassReady("dialer")
    BY <1>0, <1>3, <2>1, <2>2, ReadKeyEffect, PassEffect
  <2>3. CASE \/ SendKey("dialer") \/ StartMuxer("dialer")
             \/ MuxWrite("dialer") \/ MuxRead("dialer") \/ Ends("dialer")
    BY <1>0, <1>2, <2>1, <2>3, SendKeyEffect, StartEffect, MuxWriteEffect, MuxReadEffect,
       EndsEffect
  <2> QED  BY <1>8, <2>2, <2>3 DEF SideStep
<1>9. CASE \/ ListenerReceive \/ ListenerSwallow \/ ListenerAnswer
           \/ SideStep("listener") \/ UNCHANGED vars
  BY <1>2, <1>9, DialerUntouched
<1> QED  BY <1>0, <1>4, <1>5, <1>6, <1>7, <1>8, <1>9, Cases

-----------------------------------------------------------------------------
(* The listener's own state. *)

\* No step of the dialer touches it.
LEMMA ListenerUntouched ==
  ASSUME IInv, \/ DialerPropose \/ DialerFlush \/ DialerAwait \/ DialerConfirm
               \/ SideStep("dialer") \/ UNCHANGED vars
  PROVE  /\ UNCHANGED <<pipeline, answer, garbled>>
         /\ phase'["listener"] = phase["listener"] /\ stage'["listener"] = stage["listener"]
         /\ chosen'["listener"] = chosen["listener"]
         /\ muxSent'["listener"] = muxSent["listener"]
         /\ muxRead'["listener"] = muxRead["listener"]
<1>0. Basis /\ "listener" = Peer("dialer")
  BY Peers DEF IInv
<1>1. CASE DialerPropose \/ DialerFlush \/ DialerAwait \/ DialerConfirm
  BY <1>0, <1>1, ProposeEffect, FlushEffect, AwaitEffect, ConfirmEffect
<1>2. CASE SideStep("dialer")
  BY <1>0, <1>2, SendKeyEffect, ReadKeyEffect, PassEffect, StartEffect, MuxWriteEffect,
     MuxReadEffect, EndsEffect DEF SideStep
<1>3. CASE UNCHANGED vars
  BY <1>3 DEF vars
<1> QED  BY <1>1, <1>2, <1>3

\* The third conjunct of ListenerLocal.
SupportedSoFar ==
    \A i \in 1..Chosen("listener") : chosen["listener"][i] \in pipeline[i].supports

LEMMA ListenerLocalStep ==
  ASSUME IInv, TypeOK', [Next]_vars
  PROVE  ListenerLocal'
<1>0. Basis /\ TypeOK /\ ListenerLocal /\ SupportedSoFar
  BY DEF IInv, Basis, ListenerLocal, SupportedSoFar
<1>1. ASSUME UNCHANGED pipeline, chosen'["listener"] = chosen["listener"]
      PROVE  SupportedSoFar'
  BY <1>0, <1>1, SameLengths DEF SupportedSoFar
<1>2. ASSUME SupportedSoFar',
             answer' \in {NA} \cup {Proposal(p) : p \in Name},
             phase'["listener"] = "answer" /\ answer' # NA => Accepts(answer.val)',
             garbled' => phase'["listener"] \in {"select", "failed"}
      PROVE  ListenerLocal'
  BY <1>2 DEF ListenerLocal, SupportedSoFar
<1>3. ASSUME UNCHANGED <<pipeline, answer, garbled>>, chosen'["listener"] = chosen["listener"],
             \/ phase'["listener"] = phase["listener"] /\ stage'["listener"] = stage["listener"]
             \/ phase'["listener"] \notin {"answer"} /\ ~garbled
             \/ phase'["listener"] \in {"select", "failed"}
      PROVE  ListenerLocal'
  <2>1. SupportedSoFar'
    BY <1>1, <1>3
  <2>2. answer' \in {NA} \cup {Proposal(p) : p \in Name}
    BY <1>0, <1>3 DEF ListenerLocal
  <2>3. phase'["listener"] = "answer" /\ answer' # NA => Accepts(answer.val)'
    BY <1>0, <1>3 DEF ListenerLocal, Accepts, Stage
  <2>4. garbled' => phase'["listener"] \in {"select", "failed"}
    BY <1>0, <1>3 DEF ListenerLocal
  <2> QED  BY <1>2, <2>1, <2>2, <2>3, <2>4
<1>4. CASE \/ DialerPropose \/ DialerFlush \/ DialerAwait \/ DialerConfirm
           \/ SideStep("dialer") \/ UNCHANGED vars
  BY <1>3, <1>4, ListenerUntouched
<1>5. CASE ListenerReceive
  <2> USE <1>0, <1>5, ReceiveEffect
  <2>1. SupportedSoFar'
    BY <1>1
  <2>2. CASE /\ phase'["listener"] = "answer" /\ garbled' = garbled
             /\ \E p \in Name : answer' = IF Accepts(p) THEN Proposal(p) ELSE NA
    <3>1. PICK p \in Name : answer' = IF Accepts(p) THEN Proposal(p) ELSE NA
      BY <2>2
    <3>2. Accepts(p)' = Accepts(p)
      BY DEF Accepts, Stage
    <3>3. answer' # NA => Accepts(answer.val)'
      <4>1. CASE Accepts(p)
        <5>1. answer' = Proposal(p) /\ Proposal(p).val = p
          BY <3>1, <4>1, TokenKinds
        <5>2. answer'.val = p
          BY <5>1
        <5> QED  BY <3>2, <4>1, <5>2 DEF Accepts
      <4>2. CASE ~Accepts(p)
        BY <3>1, <4>2
      <4> QED  BY <4>1, <4>2
    <3>4. answer' \in {NA} \cup {Proposal(q) : q \in Name}
      BY <3>1
    <3>5. garbled' = garbled /\ ~garbled
      BY <2>2
    <3> QED  BY <1>2, <2>1, <3>3, <3>4, <3>5
  <2>3. CASE answer' = answer /\ phase'["listener"] = "failed" /\ garbled' = garbled
    BY <1>3, <2>3
  <2>4. CASE answer' = answer /\ phase' = phase /\ garbled'
    BY <1>2, <2>1, <2>4 DEF ListenerLocal
  <2> QED  BY <2>2, <2>3, <2>4
<1>6. CASE ListenerSwallow
  BY <1>0, <1>3, <1>6, SwallowEffect
<1>7. CASE ListenerAnswer
  <2> USE <1>0, <1>7, AnswerEffect
  <2>0. ~garbled
    BY DEF ListenerLocal
  <2>1. CASE phase'["listener"] = "select" /\ chosen' = chosen
    BY <1>3, <2>1
  <2>2. CASE /\ phase'["listener"] = "upgrade"
             /\ Chosen("listener")' = Chosen("listener") + 1
             /\ \A i \in 1..Chosen("listener") : chosen'["listener"][i] = chosen["listener"][i]
             /\ \E p \in Name : /\ answer = Proposal(p) /\ Accepts(p)
                                /\ chosen'["listener"][Chosen("listener") + 1] = p
    <3>1. Chosen("listener") \in Nat /\ stage["listener"] \in Nat
          /\ Chosen("listener") + 1 = stage["listener"]
      BY Lengths, Types
    <3>2. chosen'["listener"][stage["listener"]] \in pipeline[stage["listener"]].supports
      BY <2>2, <3>1 DEF Accepts, Stage
    <3>3. \A i \in 1..(Chosen("listener") + 1) :
            i \in 1..Chosen("listener") \/ i = stage["listener"]
      BY <3>1
    <3>4. \A i \in 1..(Chosen("listener") + 1) :
            chosen'["listener"][i] \in pipeline[i].supports
      BY <2>2, <3>2, <3>3 DEF SupportedSoFar
    <3>5. SupportedSoFar'
      BY <2>2, <3>4 DEF SupportedSoFar
    <3> QED  BY <1>2, <2>0, <2>2, <3>5 DEF ListenerLocal
  <2> QED  BY <2>1, <2>2
<1>8. CASE SideStep("listener")
  <2>1. "dialer" = Peer("listener")
    BY Peers
  <2>2. CASE ReadKey("listener") \/ PassReady("listener") \/ SendKey("listener") \/ StartMuxer("listener")
             \/ MuxWrite("listener") \/ MuxRead("listener")
    <3>1. ~garbled
      BY <1>0, <2>2 DEF ListenerLocal, ReadKey, PassReady, SendKey, StartMuxer, MuxWrite, MuxRead
    <3> QED  BY <1>0, <1>3, <2>1, <2>2, <3>1, ReadKeyEffect, PassEffect, SendKeyEffect, StartEffect,
                MuxWriteEffect, MuxReadEffect
  <2>3. CASE Ends("listener")
    <3>1. phase'["listener"] \in {"broken", "failed"} /\ (garbled => phase'["listener"] = "failed")
      BY <1>0, <2>1, <2>3, EndsEffect DEF ListenerLocal
    <3> QED  BY <1>0, <1>3, <2>1, <2>3, <3>1, EndsEffect
  <2> QED  BY <1>8, <2>2, <2>3 DEF SideStep
<1> QED  BY <1>0, <1>4, <1>5, <1>6, <1>7, <1>8, Cases

-----------------------------------------------------------------------------
(* Apart: the keys are exchanged in order, and what is confirmed is agreed. *)

\* A key that was sent stays sent.
LEMMA SentStays ==
  ASSUME IInv, [Next]_vars, NEW s \in Side, SentKey(s) \/ Down(s)
  PROVE  SentKey(s)' \/ Down(s)'
<1> DEFINE r == Peer(s)
<1>0. Basis /\ TypeOK /\ r \in Side /\ s = Peer(r) /\ stage[s] \in Nat
  BY Peers, Types DEF IInv, Basis
<1>1. ASSUME phase'[s] = phase[s], stage'[s] = stage[s] PROVE SentKey(s)' \/ Down(s)'
  BY <1>1 DEF SentKey, Down
<1>2. ASSUME stage'[s] > 1 \/ phase'[s] \in {"readKey", "broken", "failed"}
      PROVE  SentKey(s)' \/ Down(s)'
  BY <1>2 DEF SentKey, Down
<1>3. CASE SideStep(r)
  BY <1>0, <1>1, <1>3, SendKeyEffect, ReadKeyEffect, PassEffect, StartEffect, MuxWriteEffect,
     MuxReadEffect, EndsEffect DEF SideStep
<1>4. CASE SideStep(s)
  <2>1. CASE SendKey(s)
    BY <1>0, <1>2, <2>1, SendKeyEffect
  <2>2. CASE ReadKey(s)
    BY <1>0, <1>2, <2>2, ReadKeyEffect
  <2>3. CASE PassReady(s)
    BY <1>0, <1>2, <2>3, PassEffect
  <2>4. CASE StartMuxer(s)
    BY <1>0, <1>2, <2>4, StartEffect
  <2>5. CASE MuxWrite(s) \/ MuxRead(s)
    BY <1>0, <1>1, <2>5, MuxWriteEffect, MuxReadEffect
  <2>6. CASE Ends(s)
    BY <1>0, <1>2, <2>6, EndsEffect DEF Down
  <2> QED  BY <1>4, <2>1, <2>2, <2>3, <2>4, <2>5, <2>6 DEF SideStep
<1>5. CASE DialerPropose \/ DialerFlush \/ DialerAwait \/ DialerConfirm
  <2>1. CASE s = "listener"
    BY <1>0, <1>1, <1>5, <2>1, ProposeEffect, FlushEffect, AwaitEffect, ConfirmEffect
  <2>2. CASE s = "dialer"
    <3>1. stage'[s] = stage[s] /\ (Down(s) => phase'[s] = phase[s])
      BY <1>0, <1>5, <2>2, ProposeEffect, FlushEffect, AwaitEffect, ConfirmEffect DEF Down
    <3>2. phase[s] = "readKey" => phase'[s] \in {"readKey", "broken", "failed"}
      BY <1>0, <1>5, <2>2, ProposeEffect, FlushEffect, AwaitEffect, ConfirmEffect
    <3> QED  BY <1>1, <1>2, <3>1, <3>2 DEF SentKey
  <2> QED  BY <2>1, <2>2
<1>6. CASE ListenerReceive \/ ListenerSwallow \/ ListenerAnswer
  <2>1. CASE s = "dialer"
    BY <1>0, <1>1, <1>6, <2>1, ReceiveEffect, SwallowEffect, AnswerEffect
  <2>2. CASE s = "listener"
    <3>1. phase[s] \in {"select", "answer"} /\ stage'[s] = stage[s]
      BY <1>0, <1>6, <2>2, ReceiveEffect, SwallowEffect, AnswerEffect
    <3> QED  BY <1>2, <3>1 DEF SentKey, Down
  <2> QED  BY <2>1, <2>2
<1>7. CASE UNCHANGED vars
  BY <1>1, <1>7 DEF vars
<1>8. SideStep("dialer") \/ SideStep("listener") => SideStep(s) \/ SideStep(r)
  BY <1>0, Peers
<1> HIDE DEF r
<1> QED  BY <1>0, <1>3, <1>4, <1>5, <1>6, <1>7, <1>8, Cases

LEMMA KeyOrderStep ==
  ASSUME IInv, TypeOK', [Next]_vars
  PROVE  KeyOrder'
<1>0. Basis /\ TypeOK /\ KeyOrder /\ stage["dialer"] \in Nat /\ stage["listener"] \in Nat
  BY Types DEF IInv, Basis, Apart
<1>1. stage'["dialer"] > 1 => SentKey("listener")' \/ Down("listener")'
  <2>1. CASE stage["dialer"] > 1
    BY <1>0, <2>1, SentStays DEF KeyOrder
  <2>2. CASE ReadKey("dialer")
    <3>1. SentKey("listener") \/ Down("listener")
      BY <2>2, DialerReadsKey
    <3> QED  BY <3>1, SentStays
  <2>3. CASE ~ReadKey("dialer") /\ ~(stage["dialer"] > 1)
    <3>1. stage'["dialer"] = stage["dialer"]
      BY <1>0, <2>3, Cases, Peers, ProposeEffect, FlushEffect, AwaitEffect, ConfirmEffect,
         DialerUntouched, SendKeyEffect, PassEffect, StartEffect, MuxWriteEffect, MuxReadEffect,
         EndsEffect DEF SideStep
    <3> QED  BY <2>3, <3>1
  <2> QED  BY <2>1, <2>2, <2>3
<1>2. ~Down("dialer")' /\ ~SentKey("dialer")' => stage'["listener"] = 1
  <2>1. CASE SentKey("dialer") \/ Down("dialer")
    BY <2>1, SentStays
  <2>2. CASE ReadKey("listener")
    <3>1. ~Down("listener") /\ ~garbled
      BY <1>0, <2>2, Upgraded DEF ReadKey
    <3>2. Unread(1)
      BY <2>2, <3>1, ListenerReadsKey DEF IInv, ListenerView
    <3>3. SentKey("dialer") \/ Down("dialer")
      BY <3>2 DEF Unread
    <3> QED  BY <3>3, SentStays
  <2>3. CASE ~ReadKey("listener") /\ ~(SentKey("dialer") \/ Down("dialer"))
    <3>1. stage["listener"] = 1
      BY <1>0, <2>3 DEF KeyOrder
    <3>2. stage'["listener"] = stage["listener"]
      BY <1>0, <2>3, <3>1, Cases, Peers, ReceiveEffect, SwallowEffect, AnswerEffect,
         ListenerUntouched, SendKeyEffect, PassEffect, StartEffect, MuxWriteEffect, MuxReadEffect,
         EndsEffect DEF SideStep
    <3> QED  BY <3>1, <3>2
  <2> QED  BY <2>1, <2>2, <2>3
<1> QED  BY <1>1, <1>2 DEF KeyOrder

\* The first answer the dialer reads while it expects an echo is that echo,
\* and the listener has chosen as it says, or it is NA.
LEMMA NextAnswer ==
  ASSUME IInv, ~Down("dialer"), Expected > 0, OnWire("listener") > 0
  PROVE  \/ /\ wire["listener"][1] = Proposal(Asked(Unconfirmed + 1))
            /\ Unconfirmed < Chosen("listener")
            /\ chosen["listener"][Unconfirmed + 1] = Asked(Unconfirmed + 1)
         \/ RefusedLast /\ wire["listener"][1] = NA
<1>0. /\ Basis /\ TypeOK /\ Unconfirmed \in Nat /\ Unconfirmed < Chosen("dialer")
      /\ Chosen("dialer") \in Nat /\ Chosen("listener") \in Nat /\ OnWire("listener") \in Nat
      /\ HasRead("dialer") \in Nat /\ muxSent["listener"] \in Nat
      /\ Chosen("dialer") <= Stages /\ Stages \in Nat
  <2>1. Basis /\ TypeOK /\ Expectation
    BY DEF IInv, Basis, DialerLocal
  <2>2. /\ Chosen("dialer") \in Nat /\ Chosen("listener") \in Nat /\ OnWire("listener") \in Nat
        /\ HasRead("dialer") \in Nat /\ muxSent["listener"] \in Nat /\ Expected \in Nat
    BY <2>1, Lengths, Types
  <2>3. Chosen("dialer") <= Stages /\ Stages \in Nat
    BY <2>1, Connected, Chain
  <2> QED  BY <2>1, <2>2, <2>3 DEF Expectation, Unconfirmed
<1>1. ASSUME NEW e \in Nat, EchoesTo(e), Unconfirmed < e
      PROVE  /\ wire["listener"][1] = Proposal(Asked(Unconfirmed + 1))
             /\ Unconfirmed < Chosen("listener")
             /\ chosen["listener"][Unconfirmed + 1] = Asked(Unconfirmed + 1)
  <2>1. /\ Unconfirmed + 1 \in (Unconfirmed + 1)..e /\ (Unconfirmed + 1) - Unconfirmed = 1
        /\ Unconfirmed + 1 \in 1..e
    BY <1>0, <1>1
  <2>2. wire["listener"][(Unconfirmed + 1) - Unconfirmed] = Proposal(Asked(Unconfirmed + 1))
    BY <1>1, <2>1 DEF EchoesTo
  <2>3. chosen["listener"][Unconfirmed + 1] = Asked(Unconfirmed + 1) /\ e <= Chosen("listener")
    BY <1>1, <2>1 DEF EchoesTo
  <2> QED  BY <1>0, <1>1, <2>1, <2>2, <2>3
<1>2. CASE InStep
  <2>1. EchoesTo(Chosen("listener"))
    BY <1>2 DEF InStep, EchoesInStep, Written
  <2>2. Unconfirmed <= Chosen("listener")
    BY <2>1 DEF EchoesTo
  <2>3. CASE Unconfirmed = Chosen("listener")
    <3>1. PICK k \in {0, 1} :
            /\ OnWire("listener") + HasRead("dialer") =
                 Chosen("listener") - Unconfirmed + k + muxSent["listener"]
            /\ k = 1 => stage["dialer"] = 1 /\ Chosen("listener") = 1
      BY <1>2 DEF InStep, EchoesInStep, Written
    <3>2. muxSent["listener"] = 0
      <4>1. Chosen("listener") # Stages
        BY <1>0, <2>3
      <4>2. ~(phase["listener"] \in {"connected", "broken"})
        BY <1>0, <4>1, Connected
      <4> QED  BY <1>0, <4>2, Connected
    <3>3. k = 0
      <4> SUFFICES ASSUME k = 1 PROVE FALSE
        BY <3>1
      <4>1. stage["dialer"] = 1 /\ Unconfirmed = 1
        BY <2>3, <3>1
      <4>2. Chosen("dialer") \in {stage["dialer"] - 1, stage["dialer"]}
        BY <1>0 DEF Basis, Local, Progress
      <4> QED  BY <1>0, <4>1, <4>2
    <3> QED  BY <1>0, <2>3, <3>1, <3>2, <3>3
  <2> QED  BY <1>0, <1>1, <2>1, <2>2, <2>3
<1>3. CASE RefusedAwaited
  <2>1. EchoesTo(Chosen("dialer"))
    BY <1>3 DEF RefusedAwaited
  <2> QED  BY <1>0, <1>1, <2>1
<1>4. CASE RefusedLast
  <2>1. PICK b \in (Unconfirmed + 1)..Chosen("dialer") :
          EchoesTo(b - 1) /\ wire["listener"][b - Unconfirmed] = NA
    BY <1>4 DEF RefusedLast
  <2>2. CASE b = Unconfirmed + 1
    BY <1>0, <1>4, <2>1, <2>2
  <2>3. CASE b # Unconfirmed + 1
    <3>1. b - 1 \in Nat /\ Unconfirmed < b - 1
      BY <1>0, <2>1, <2>3
    <3> QED  BY <1>1, <2>1, <3>1
  <2> QED  BY <2>2, <2>3
<1> QED  BY <1>2, <1>3, <1>4 DEF IInv, DialerView

\* The second half of Apart.
Agreed ==
    /\ Unconfirmed <= Chosen("listener")
    /\ \A i \in 1..Unconfirmed : chosen["listener"][i] = chosen["dialer"][i]

LEMMA AgreedKept ==
  ASSUME TypeOK, Agreed, Unconfirmed' = Unconfirmed, Unconfirmed <= Chosen("dialer"),
         Chosen("listener")' >= Chosen("listener"),
         \A i \in 1..Chosen("dialer") : chosen'["dialer"][i] = chosen["dialer"][i],
         \A i \in 1..Chosen("listener") : chosen'["listener"][i] = chosen["listener"][i],
         Chosen("listener")' \in Nat
  PROVE  Agreed'
<1>1. Unconfirmed \in Int /\ Chosen("listener") \in Nat /\ Chosen("dialer") \in Nat
  BY Counts, Lengths
<1>2. \A i \in 1..Unconfirmed : i \in 1..Chosen("dialer") /\ i \in 1..Chosen("listener")
  BY <1>1 DEF Agreed
<1>3. \A i \in 1..Unconfirmed : chosen'["listener"][i] = chosen'["dialer"][i]
  BY <1>2 DEF Agreed
<1>4. Unconfirmed' <= Chosen("listener")'
  BY <1>1 DEF Agreed
<1> QED  BY <1>3, <1>4 DEF Agreed

LEMMA AgreedMore ==
  ASSUME TypeOK, Agreed, Unconfirmed' = Unconfirmed + 1, Unconfirmed < Chosen("listener"),
         chosen'["listener"] = chosen["listener"],
         \A i \in 1..Unconfirmed : chosen'["dialer"][i] = chosen["dialer"][i],
         chosen["listener"][Unconfirmed + 1] = chosen'["dialer"][Unconfirmed + 1]
  PROVE  Agreed'
<1>1. Unconfirmed \in Int /\ Chosen("listener") \in Nat /\ Chosen("listener")' = Chosen("listener")
  BY Counts, Lengths, SameLengths
<1>2. \A i \in 1..(Unconfirmed + 1) : i \in 1..Unconfirmed \/ i = Unconfirmed + 1
  BY <1>1
<1>3. \A i \in 1..(Unconfirmed + 1) : chosen'["listener"][i] = chosen'["dialer"][i]
  BY <1>2 DEF Agreed
<1>4. Unconfirmed' <= Chosen("listener")'
  BY <1>1
<1> QED  BY <1>3, <1>4 DEF Agreed

LEMMA AgreedStep ==
  ASSUME IInv, TypeOK', [Next]_vars
  PROVE  Agreed'
<1>0. /\ Basis /\ TypeOK /\ Agreed /\ Unconfirmed \in Int /\ Unconfirmed <= Chosen("dialer")
      /\ Chosen("dialer") \in Nat /\ Chosen("listener") \in Nat /\ Expected \in Nat
      /\ Unconfirmed + Expected = Chosen("dialer")
  <2>1. Basis /\ TypeOK
    BY DEF IInv, Basis
  <2>2. Chosen("dialer") \in Nat /\ Chosen("listener") \in Nat /\ Expected \in Nat
    BY <2>1, Lengths
  <2> QED  BY <2>1, <2>2 DEF IInv, Apart, Agreed, Unconfirmed
<1>1. ASSUME UNCHANGED expecting, chosen'["dialer"] = chosen["dialer"],
             chosen'["listener"] = chosen["listener"]
      PROVE  Agreed'
  <2>1. Unconfirmed' = Unconfirmed /\ Chosen("listener")' = Chosen("listener")
    BY <1>1, SameLengths DEF Unconfirmed
  <2> QED  BY <1>0, <1>1, <2>1, AgreedKept
<1>2. CASE DialerPropose
  <2> USE <1>0, <1>2, ProposeEffect
  <2>1. Unconfirmed' = Unconfirmed /\ Chosen("listener")' = Chosen("listener")
    BY SameLengths DEF Unconfirmed
  <2> QED  BY <2>1, AgreedKept
<1>3. CASE DialerFlush
  BY <1>0, <1>1, <1>3, FlushEffect
<1>4. CASE DialerAwait
  <2> USE <1>0, <1>4, AwaitEffect
  <2>1. CASE UNCHANGED chosen
    BY <1>1, <2>1
  <2>2. CASE /\ wire["listener"][1] = Proposal(Stage("dialer").offers[tried])
             /\ Chosen("dialer")' = Chosen("dialer") + 1
             /\ chosen'["dialer"][Chosen("dialer") + 1] = Stage("dialer").offers[tried]
             /\ \A i \in 1..Chosen("dialer") : chosen'["dialer"][i] = chosen["dialer"][i]
    <3>1. InStep
      BY <2>2, Awaiting, AwaitRefused, Distinct
    <3>2. /\ Unconfirmed = Chosen("dialer") /\ Proposed = Chosen("dialer") + 1
          /\ Asked(Proposed) = Stage("dialer").offers[tried]
          /\ Chosen("listener") = Proposed
      BY <3>1, Awaiting, AwaitInStep
    <3>3. chosen["listener"][Proposed] = Asked(Proposed)
      <4>1. Proposed \in 1..Chosen("listener")
        BY <3>2
      <4>2. EchoesTo(Chosen("listener"))
        BY <3>1 DEF InStep, EchoesInStep, Written
      <4> QED  BY <4>1, <4>2 DEF EchoesTo
    <3>4. Unconfirmed' = Unconfirmed + 1
      BY <2>2, SameLengths DEF Unconfirmed
    <3> QED  BY <2>2, <3>2, <3>3, <3>4, AgreedMore
  <2> QED  BY <2>1, <2>2
<1>5. CASE DialerConfirm
  <2> USE <1>0, <1>5, ConfirmEffect
  <2>1. CASE UNCHANGED expecting
    BY <1>1, <2>1
  <2>2. CASE wire["listener"][1] = Proposal(expecting[1]) /\ Expected' = Expected - 1
    <3>1. ~Down("dialer")
      BY DEF Down
    <3>2. wire["listener"][1] # NA
      BY <2>2, Distinct
    <3>3. /\ Unconfirmed < Chosen("listener")
          /\ chosen["listener"][Unconfirmed + 1] = Asked(Unconfirmed + 1)
      BY <3>1, <3>2, NextAnswer
    <3>4. Asked(Unconfirmed + 1) = chosen["dialer"][Unconfirmed + 1]
      BY DEF Asked
    <3>5. Unconfirmed' = Unconfirmed + 1
      BY <2>2, SameLengths DEF Unconfirmed
    <3> QED  BY <3>3, <3>4, <3>5, AgreedMore
  <2> QED  BY <2>1, <2>2
<1>6. CASE ListenerAnswer
  <2> USE <1>0, <1>6, AnswerEffect
  <2>1. CASE chosen' = chosen
    BY <1>1, <2>1
  <2>2. CASE /\ Chosen("listener")' = Chosen("listener") + 1
             /\ \A i \in 1..Chosen("listener") : chosen'["listener"][i] = chosen["listener"][i]
    <3>1. Unconfirmed' = Unconfirmed
      BY SameLengths DEF Unconfirmed
    <3> QED  BY <2>2, <3>1, AgreedKept
  <2> QED  BY <2>1, <2>2
<1>7. CASE \/ ListenerReceive \/ ListenerSwallow \/ SideStep("dialer") \/ SideStep("listener")
           \/ UNCHANGED vars
  BY <1>0, <1>1, <1>7, Peers, ReceiveEffect, SwallowEffect, SendKeyEffect, ReadKeyEffect,
     PassEffect, StartEffect, MuxWriteEffect, MuxReadEffect, EndsEffect DEF SideStep, vars
<1> QED  BY <1>0, <1>2, <1>3, <1>4, <1>5, <1>6, <1>7, Cases

LEMMA ApartStep ==
  ASSUME IInv, TypeOK', [Next]_vars
  PROVE  Apart'
BY KeyOrderStep, AgreedStep DEF Apart, Agreed

-----------------------------------------------------------------------------
(* ListenerView: what the listener still has to read. *)

LEMMA ProposedBound ==
  ASSUME Basis, ~Down("dialer")
  PROVE  Proposed <= stage["dialer"] /\ stage["dialer"] <= Stages /\ stage["dialer"] \in Nat
         /\ Proposed \in Nat /\ Stages \in Nat
<1>1. TypeOK /\ Progress("dialer") /\ phase["dialer"] \in DialerPhases
  BY DEF Basis, Local, TypeOK
<1>2. stage["dialer"] \in 1..Stages /\ Stages \in Nat /\ Chosen("dialer") \in Nat /\ Proposed \in Nat
  BY <1>1, Types, Chain, Lengths, Counts
<1>3. CASE phase["dialer"] = "await"
  <2>1. Bit(phase["dialer"] = "await") = 1
    BY <1>3 DEF Bit
  <2>2. Chosen("dialer") = stage["dialer"] - 1
    BY <1>1, <1>3 DEF Progress
  <2> QED  BY <1>2, <2>1, <2>2 DEF Proposed
<1>4. CASE phase["dialer"] # "await"
  <2>1. Bit(phase["dialer"] = "await") = 0
    BY <1>4 DEF Bit
  <2>2. Chosen("dialer") \in {stage["dialer"] - 1, stage["dialer"]}
    BY <1>1 DEF Progress
  <2> QED  BY <1>2, <2>1, <2>2 DEF Proposed
<1> QED  BY <1>3, <1>4

\* Before the listener has chosen, the dialer is at its first stage.
LEMMA FirstStage ==
  ASSUME IInv, Chosen("listener") = 0
  PROVE  stage["dialer"] = 1
<1>1. Unconfirmed <= 0 /\ Unconfirmed \in Int /\ stage["dialer"] \in 1..Stages /\ Stages \in Nat
  BY Counts, Types, Chain DEF IInv, Apart, Basis
<1>2. stage["dialer"] > 1 => Unconfirmed > 0
  BY DEF IInv, Basis, DialerLocal, Expectation
<1> QED  BY <1>1, <1>2

\* The numbers of Unread, before and after.
LEMMA UnreadNumbers ==
  ASSUME TypeOK, TypeOK', NEW k \in {0, 1}
  PROVE  /\ Ahead(k) \in Int /\ OnWire("dialer") \in Nat /\ HasRead("listener") \in Nat
         /\ muxSent["dialer"] \in Nat /\ Answered \in Nat /\ Held \in Nat /\ Proposed \in Nat
         /\ Chosen("listener") \in Nat /\ Stages \in Nat
         /\ Ahead(k) = OnWire("dialer") - k - (muxSent["dialer"] - HasRead("listener"))
         /\ Ahead(k)' = OnWire("dialer")' - k - (muxSent'["dialer"] - HasRead("listener")')
<1>1. k \in Int
  OBVIOUS
<1>2. /\ OnWire("dialer") \in Nat /\ HasRead("listener") \in Nat /\ muxSent["dialer"] \in Nat
      /\ Held \in Nat /\ Chosen("listener") \in Nat
  BY Lengths, Types
<1>3. Answered \in Nat /\ Proposed \in Nat /\ Ahead(k) \in Int
  BY <1>1, Counts
<1>4. Stages \in Nat
  BY Chain
<1> QED  BY <1>2, <1>3, <1>4 DEF Ahead

\* A step that leaves the listener where it is and the dialer's wire alone.
LEMMA UnreadKept ==
  ASSUME TypeOK, TypeOK', NEW k \in {0, 1}, Unread(k), UNCHANGED pipeline, Kept("dialer"),
         muxSent'["dialer"] = muxSent["dialer"], HasRead("listener")' = HasRead("listener"),
         Answered' = Answered, Chosen("listener")' = Chosen("listener"),
         stage'["listener"] = 1 <=> stage["listener"] = 1,
         Down("dialer") \/ SentKey("dialer") => Down("dialer")' \/ SentKey("dialer")',
         ~Down("dialer")' => /\ ~Down("dialer")
                             /\ SentKey("dialer")' => SentKey("dialer")
                             /\ Answered + Ahead(k) + Held' <= Proposed'
  PROVE  Unread(k)'
<1>1. OnWire("dialer")' = OnWire("dialer") /\ wire'["dialer"] = wire["dialer"] /\ Stages' = Stages
  BY SameLengths DEF Kept, Stages
<1>2. Ahead(k)' = Ahead(k) /\ KeyAt(k)' = KeyAt(k)
  BY <1>1 DEF Ahead, KeyAt
<1> HIDE DEF Kept
<1>3. HasRead("listener")' <= muxSent'["dialer"] /\ Ahead(k)' >= 0 /\ Answered' + Ahead(k)' <= Stages'
  BY <1>1, <1>2 DEF Unread
<1>4. ~Down("dialer")' => Answered' + Ahead(k)' + Held' <= Proposed'
  BY <1>2
<1>5. \A i \in 1..(k + Ahead(k)') :
        IF k = 1 /\ i = KeyAt(k)' THEN wire'["dialer"][i] = Key("dialer")
                                  ELSE wire'["dialer"][i].kind = "protocol"
  BY <1>1, <1>2 DEF Unread
<1>6. /\ k = 1 => stage'["listener"] = 1 /\ (Down("dialer")' \/ SentKey("dialer")')
      /\ ~Down("dialer")' /\ SentKey("dialer")' /\ stage'["listener"] = 1 => k = 1
  BY DEF Unread
<1>7. Chosen("listener")' = 0 \/ (stage'["listener"] = 1 /\ k = 0) =>
        Answered' + Ahead(k)' <= 1 /\ muxSent'["dialer"] = 0
  BY <1>2 DEF Unread
<1> QED  BY <1>3, <1>4, <1>5, <1>6, <1>7 DEF Unread

LEMMA ProposeUnread ==
  ASSUME IInv, TypeOK', DialerPropose, NEW k \in {0, 1}, Unread(k)
  PROVE  Unread(k)'
<1>0. Basis /\ TypeOK
  BY DEF IInv, Basis
<1> USE <1>0, ProposeEffect
<1>1. ~Down("dialer") /\ phase'["dialer"] \in {"upgrade", "await"}
  BY DEF Down
<1>2. SentKey("dialer")' <=> SentKey("dialer")
  BY <1>1 DEF SentKey
<1>3. Answered' = Answered /\ Chosen("listener")' = Chosen("listener")
      /\ HasRead("listener")' = HasRead("listener")
  BY SameLengths DEF Answered
<1>4. Proposed' = Proposed + 1
  <2>1. Chosen("dialer") \in Nat /\ phase["dialer"] = "select"
    BY Lengths
  <2>2. \/ phase'["dialer"] = "upgrade" /\ Chosen("dialer")' = Chosen("dialer") + 1
        \/ phase'["dialer"] = "await" /\ Chosen("dialer")' = Chosen("dialer")
    BY SameLengths
  <2> QED  BY <2>1, <2>2 DEF Proposed, Bit
<1>5. Answered + Ahead(k) + Held' <= Proposed'
  <2>1. /\ Answered \in Nat /\ Ahead(k) \in Int /\ Held \in Nat /\ Proposed \in Nat
        /\ Answered + Ahead(k) + Held <= Proposed /\ Held' = Held + 1
    BY <1>1, UnreadNumbers DEF Unread
  <2> QED  BY <1>4, <2>1
<1>6. UNCHANGED pipeline /\ Kept("dialer") /\ muxSent'["dialer"] = muxSent["dialer"]
      /\ stage' = stage
  BY DEF Kept
<1> QED  BY <1>1, <1>2, <1>3, <1>5, <1>6, UnreadKept

LEMMA FlushUnread ==
  ASSUME IInv, TypeOK', DialerFlush, NEW k \in {0, 1}, Unread(k)
  PROVE  Unread(k)'
<1>0. Basis /\ TypeOK /\ Holding
  BY DEF IInv, Basis, DialerLocal
<1> USE <1>0, FlushEffect
<1>1. ~Down("dialer") /\ phase["dialer"] # "readKey"
  BY Lengths DEF DialerFlush, Down, Holding
<1>2. muxSent["dialer"] = 0 /\ muxSent'["dialer"] = 0
  BY Lengths DEF Holding
<1>3. /\ SentKey("dialer")' = SentKey("dialer") /\ Down("dialer")' = Down("dialer")
      /\ Answered' = Answered /\ Chosen("listener")' = Chosen("listener") /\ Proposed' = Proposed
      /\ HasRead("listener")' = HasRead("listener") /\ Stages' = Stages /\ stage' = stage
  BY SameLengths DEF SentKey, Down, Answered, Proposed, Chosen, HasRead, Stages
<1>4. /\ HasRead("listener") = 0 /\ Ahead(k) \in Nat /\ OnWire("dialer") = k + Ahead(k)
      /\ Ahead(k)' = Ahead(k) + 1 /\ Answered \in Nat /\ Held \in Nat /\ Held > 0
      /\ Held' = Held - 1 /\ Answered + Ahead(k) + Held <= Proposed
      /\ OnWire("dialer")' = OnWire("dialer") + 1
  <2>1. HasRead("listener") <= muxSent["dialer"] /\ Ahead(k) >= 0
        /\ Answered + Ahead(k) + Held <= Proposed
    BY <1>1 DEF Unread
  <2>2. OnWire("dialer")' = OnWire("dialer") + 1 /\ Held' = Held - 1 /\ Held > 0
    OBVIOUS
  <2> QED  BY ONLY <1>2, <1>3, <2>1, <2>2, UnreadNumbers, <1>0, TypeOK', k \in {0, 1}
<1>5. Proposed <= stage["dialer"] /\ stage["dialer"] <= Stages /\ stage["dialer"] \in Nat
      /\ Proposed \in Nat /\ Stages \in Nat
  BY <1>1, ProposedBound
<1>6. Chosen("listener") = 0 \/ (stage["listener"] = 1 /\ k = 0) => stage["dialer"] = 1
  <2>1. CASE stage["listener"] = 1 /\ k = 0
    BY <1>1, <1>5, <2>1, Types DEF Unread, SentKey
  <2>2. CASE Chosen("listener") = 0
    BY <2>2, FirstStage
  <2> QED  BY <2>1, <2>2
<1>7. k = 1 => KeyAt(k)' = KeyAt(k) /\ KeyAt(k) \in 1..OnWire("dialer")
  <2> SUFFICES ASSUME k = 1 PROVE KeyAt(k)' = KeyAt(k) /\ KeyAt(k) \in 1..OnWire("dialer")
    OBVIOUS
  <2>1. Answered # 0
    <3> SUFFICES ASSUME Answered = 0 PROVE FALSE
      OBVIOUS
    <3>1. Chosen("listener") = 0
      <4>1. Chosen("listener") \in Nat
        BY Lengths
      <4>2. Answered = Chosen("listener") \/ Answered = Chosen("listener") + 1
        BY <4>1 DEF Answered, Bit
      <4> QED  BY <4>1, <4>2
    <3>2. stage["dialer"] = 1
      BY <3>1, FirstStage
    <3> QED  BY <1>1, <3>2 DEF Unread, SentKey
  <2>2. KeyAt(k) = 1 /\ KeyAt(k)' = 1
    BY <1>3, <2>1 DEF KeyAt
  <2> QED  BY <1>4, <2>2
<1>8. \A i \in 1..(k + Ahead(k)') :
        IF k = 1 /\ i = KeyAt(k)' THEN wire'["dialer"][i] = Key("dialer")
                                  ELSE wire'["dialer"][i].kind = "protocol"
  <2> SUFFICES ASSUME NEW i \in 1..(k + Ahead(k)')
               PROVE  IF k = 1 /\ i = KeyAt(k)' THEN wire'["dialer"][i] = Key("dialer")
                                                ELSE wire'["dialer"][i].kind = "protocol"
    OBVIOUS
  <2>1. CASE i \in 1..OnWire("dialer")
    <3>1. i \in 1..(k + Ahead(k)) /\ wire'["dialer"][i] = wire["dialer"][i]
      BY <1>4, <2>1
    <3> QED  BY <1>7, <3>1 DEF Unread
  <2>2. CASE i = OnWire("dialer") + 1
    <3>1. ~(k = 1 /\ i = KeyAt(k)')
      BY <1>4, <1>7, <2>2
    <3>2. wire'["dialer"][i].kind = "protocol"
      BY <2>2
    <3> QED  BY <3>1, <3>2
  <2>3. i \in 1..OnWire("dialer") \/ i = OnWire("dialer") + 1
    BY <1>4
  <2> QED  BY <2>1, <2>2, <2>3
<1>9. /\ HasRead("listener")' <= muxSent'["dialer"] /\ Ahead(k)' >= 0
      /\ Answered' + Ahead(k)' <= Stages' /\ Answered' + Ahead(k)' + Held' <= Proposed'
  BY <1>2, <1>3, <1>4, <1>5
<1>10. /\ k = 1 => stage'["listener"] = 1 /\ (Down("dialer")' \/ SentKey("dialer")')
       /\ ~Down("dialer")' /\ SentKey("dialer")' /\ stage'["listener"] = 1 => k = 1
  BY <1>3 DEF Unread
<1>11. Chosen("listener")' = 0 \/ (stage'["listener"] = 1 /\ k = 0) =>
         Answered' + Ahead(k)' <= 1 /\ muxSent'["dialer"] = 0
  BY <1>2, <1>3, <1>4, <1>5, <1>6
<1> QED  BY <1>8, <1>9, <1>10, <1>11 DEF Unread

LEMMA AwaitUnread ==
  ASSUME IInv, TypeOK', DialerAwait, NEW k \in {0, 1}, Unread(k), ~Down("listener"), ~garbled
  PROVE  Unread(k)'
<1>0. Basis /\ TypeOK
  BY DEF IInv, Basis
<1> USE <1>0, AwaitEffect
<1>1. ~Down("dialer") /\ phase'["dialer"] \in {"upgrade", "select", "failed"}
  BY DEF Down
<1>2. SentKey("dialer")' <=> SentKey("dialer")
  BY <1>1 DEF SentKey
<1>3. Answered' = Answered /\ Chosen("listener")' = Chosen("listener")
      /\ HasRead("listener")' = HasRead("listener") /\ Held' = Held /\ Held = 0
  BY SameLengths, Lengths DEF Answered
<1>4. ~Down("dialer")' => Answered + Ahead(k) + Held' <= Proposed'
  <2>1. CASE phase'["dialer"] = "upgrade"
    <3>1. Chosen("dialer")' = Chosen("dialer") + 1
      BY <2>1
    <3>2. Proposed' = Chosen("dialer") + 1
      BY <2>1, <3>1, Lengths DEF Proposed, Bit
    <3>3. Answered + Ahead(k) + Held <= Proposed
      BY <1>1 DEF Unread
    <3> QED  BY <1>3, <3>2, <3>3, Awaiting
  <2>2. CASE phase'["dialer"] = "select"
    <3>1. RefusedAwaited
      BY <2>2, Awaiting, AwaitInStep
    <3>2. /\ Chosen("listener") = Chosen("dialer") /\ phase["listener"] = "select"
          /\ OnWire("dialer") = 0 /\ Chosen("dialer")' = Chosen("dialer")
      BY <2>2, <3>1, Lengths, SameLengths DEF RefusedAwaited
    <3>3. Answered = Chosen("dialer") /\ Proposed' = Chosen("dialer")
      BY <2>2, <3>2, Lengths DEF Answered, Proposed, Bit
    <3>4. muxSent["dialer"] = 0
      BY DEF Basis, Local, Frames, MuxIdle
    <3>5. HasRead("listener") <= muxSent["dialer"] /\ Ahead(k) >= 0
      BY DEF Unread
    <3>6. Ahead(k) = 0
      <4>1. /\ Ahead(k) \in Int /\ HasRead("listener") \in Nat /\ k \in Nat
            /\ Ahead(k) = OnWire("dialer") - k - (muxSent["dialer"] - HasRead("listener"))
        BY UnreadNumbers
      <4>2. HasRead("listener") = 0
        BY <3>4, <3>5, <4>1
      <4> QED  BY <3>2, <3>4, <3>5, <4>1, <4>2
    <3>7. Chosen("dialer") \in Nat
      BY Lengths
    <3> QED  BY <1>3, <3>3, <3>6, <3>7
  <2>3. CASE phase'["dialer"] = "failed"
    BY <2>3 DEF Down
  <2> QED  BY <1>1, <2>1, <2>2, <2>3
<1>5. UNCHANGED pipeline /\ Kept("dialer") /\ muxSent'["dialer"] = muxSent["dialer"]
      /\ stage' = stage
  BY DEF Kept
<1> QED  BY <1>1, <1>2, <1>3, <1>4, <1>5, UnreadKept

\* The other steps of the dialer that leave its wire alone.
LEMMA DialerUnread ==
  ASSUME IInv, TypeOK', NEW k \in {0, 1}, Unread(k),
         \/ DialerConfirm \/ ReadKey("dialer") \/ PassReady("dialer") \/ StartMuxer("dialer")
         \/ MuxRead("dialer") \/ Ends("dialer")
  PROVE  Unread(k)'
<1>0. Basis /\ TypeOK /\ "listener" = Peer("dialer")
  BY Peers DEF IInv, Basis
<1> USE <1>0
<1>1. /\ UNCHANGED <<pipeline, chosen, held>> /\ Kept("dialer")
      /\ muxSent'["dialer"] = muxSent["dialer"] /\ muxRead'["listener"] = muxRead["listener"]
      /\ phase'["listener"] = phase["listener"] /\ stage'["listener"] = stage["listener"]
  BY ConfirmEffect, ReadKeyEffect, PassEffect, StartEffect, MuxReadEffect, EndsEffect DEF Kept
<1>2. /\ Answered' = Answered /\ Chosen("listener")' = Chosen("listener")
      /\ Chosen("dialer")' = Chosen("dialer") /\ Held' = Held
      /\ HasRead("listener")' = HasRead("listener")
  BY <1>1, SameLengths DEF Answered
<1>3. /\ ~Down("dialer")
      /\ ~Down("dialer")' => phase'["dialer"] = "await" <=> phase["dialer"] = "await"
      /\ ~Down("dialer")' => SentKey("dialer")' = SentKey("dialer")
  <2>1. CASE DialerConfirm
    BY <2>1, ConfirmEffect DEF Down, SentKey
  <2>2. CASE ReadKey("dialer")
    BY <2>2, ReadKeyEffect DEF Down, SentKey
  <2>3. CASE PassReady("dialer")
    <3>1. stage["dialer"] \in Nat
      BY Types
    <3> QED  BY <2>3, <3>1, PassEffect DEF Down, SentKey
  <2>4. CASE StartMuxer("dialer")
    BY <2>4, StartEffect DEF Down, SentKey
  <2>5. CASE MuxRead("dialer")
    BY <2>5, MuxReadEffect DEF Down, SentKey
  <2>6. CASE Ends("dialer")
    BY <2>6, EndsEffect
  <2> QED  BY <2>1, <2>2, <2>3, <2>4, <2>5, <2>6
<1>4. ~Down("dialer")' => Answered + Ahead(k) + Held' <= Proposed'
  <2>1. ~Down("dialer")' => Proposed' = Proposed
    BY <1>2, <1>3 DEF Proposed, Bit
  <2> QED  BY <1>2, <1>3, <2>1 DEF Unread
<1>5. Down("dialer") \/ SentKey("dialer") => Down("dialer")' \/ SentKey("dialer")'
  BY <1>3
<1> QED  BY <1>1, <1>2, <1>3, <1>4, <1>5, UnreadKept

\* And those of the listener.
LEMMA ListenerUnread ==
  ASSUME IInv, TypeOK', NEW k \in {0, 1}, Unread(k),
         \/ SendKey("listener") \/ PassReady("listener") \/ StartMuxer("listener")
         \/ MuxWrite("listener") \/ UNCHANGED vars
  PROVE  Unread(k)'
<1>0. Basis /\ TypeOK /\ "dialer" = Peer("listener") /\ stage["listener"] \in Nat
  BY Peers, Types DEF IInv, Basis
<1> USE <1>0
<1>1. /\ UNCHANGED <<pipeline, chosen, held>> /\ Kept("dialer")
      /\ muxSent'["dialer"] = muxSent["dialer"] /\ muxRead'["listener"] = muxRead["listener"]
      /\ phase'["dialer"] = phase["dialer"] /\ stage'["dialer"] = stage["dialer"]
      /\ stage'["listener"] = 1 <=> stage["listener"] = 1
      /\ phase'["listener"] = "answer" <=> phase["listener"] = "answer"
  BY SendKeyEffect, PassEffect, StartEffect, MuxWriteEffect DEF Kept, vars
<1>2. /\ Answered' = Answered /\ Chosen("listener")' = Chosen("listener")
      /\ Chosen("dialer")' = Chosen("dialer") /\ Held' = Held
      /\ HasRead("listener")' = HasRead("listener") /\ Proposed' = Proposed
  BY <1>1, SameLengths DEF Answered, Proposed
<1>3. Down("dialer")' = Down("dialer") /\ SentKey("dialer")' = SentKey("dialer")
  BY <1>1 DEF Down, SentKey
<1>4. ~Down("dialer")' => Answered + Ahead(k) + Held' <= Proposed'
  BY <1>2, <1>3 DEF Unread
<1> QED  BY <1>1, <1>2, <1>3, <1>4, UnreadKept

\* The dialer's key is the last thing on its wire.
LEMMA SendKeyUnread ==
  ASSUME IInv, TypeOK', SendKey("dialer"), NEW k \in {0, 1}, Unread(k)
  PROVE  k = 0 /\ Unread(1)'
<1>0. Basis /\ TypeOK /\ "listener" = Peer("dialer")
  BY Peers DEF IInv, Basis
<1> USE <1>0, SendKeyEffect
<1>1. ~Down("dialer") /\ ~SentKey("dialer") /\ SentKey("dialer")' /\ ~Down("dialer")'
  BY DEF Down, SentKey
<1>2. k = 0 /\ stage["listener"] = 1
  BY <1>1 DEF IInv, Apart, KeyOrder, Unread
<1>3. /\ Answered' = Answered /\ Chosen("listener")' = Chosen("listener") /\ Held' = Held
      /\ HasRead("listener")' = HasRead("listener") /\ Stages' = Stages /\ stage' = stage
      /\ muxSent' = muxSent /\ OnWire("dialer")' = OnWire("dialer") + 1
  BY SameLengths DEF Answered, Stages
<1>4. Proposed' = Proposed
  BY SameLengths DEF Proposed, Bit
<1>5. /\ muxSent["dialer"] = 0 /\ HasRead("listener") <= muxSent["dialer"] /\ Ahead(k) >= 0
      /\ Answered + Ahead(k) <= 1 /\ Answered + Ahead(k) <= Stages
      /\ Answered + Ahead(k) + Held <= Proposed
  BY <1>1, <1>2 DEF Unread
<1>6. /\ Ahead(1)' = Ahead(k) /\ OnWire("dialer") = Ahead(k) /\ Ahead(k) \in Nat
      /\ Answered \in Nat /\ HasRead("listener") = 0
  BY ONLY <1>0, TypeOK', k \in {0, 1}, 1 \in {0, 1}, <1>2, <1>3, <1>5, UnreadNumbers
<1>7. KeyAt(1)' = OnWire("dialer") + 1
  <2>1. CASE Answered = 0
    BY <1>3, <1>6, <2>1 DEF KeyAt
  <2>2. CASE Answered # 0
    <3>1. Ahead(k) = 0
      BY <1>5, <1>6, <2>2
    <3> QED  BY <1>3, <1>6, <2>2, <3>1 DEF KeyAt
  <2> QED  BY <2>1, <2>2
<1>8. \A i \in 1..(1 + Ahead(1)') :
        IF i = KeyAt(1)' THEN wire'["dialer"][i] = Key("dialer")
                         ELSE wire'["dialer"][i].kind = "protocol"
  <2> SUFFICES ASSUME NEW i \in 1..(1 + Ahead(1)')
               PROVE  IF i = KeyAt(1)' THEN wire'["dialer"][i] = Key("dialer")
                                       ELSE wire'["dialer"][i].kind = "protocol"
    OBVIOUS
  <2>1. CASE i \in 1..OnWire("dialer")
    <3>1. i \in 1..(k + Ahead(k)) /\ i # KeyAt(1)' /\ wire'["dialer"][i] = wire["dialer"][i]
      BY <1>2, <1>6, <1>7, <2>1
    <3> QED  BY <1>2, <3>1 DEF Unread
  <2>2. CASE i = OnWire("dialer") + 1
    BY <1>7, <2>2
  <2>3. i \in 1..OnWire("dialer") \/ i = OnWire("dialer") + 1
    BY <1>6
  <2> QED  BY <2>1, <2>2, <2>3
<1>9. /\ HasRead("listener")' <= muxSent'["dialer"] /\ Ahead(1)' >= 0
      /\ Answered' + Ahead(1)' <= Stages' /\ Answered' + Ahead(1)' + Held' <= Proposed'
      /\ Answered' + Ahead(1)' <= 1 /\ muxSent'["dialer"] = 0
  BY <1>3, <1>4, <1>5, <1>6
<1>10. stage'["listener"] = 1
  BY <1>2, <1>3
<1> QED  BY <1>1, <1>2, <1>8, <1>9, <1>10 DEF Unread

\* The listener takes a proposal from the wire to answer it.
LEMMA ReceiveUnread ==
  ASSUME IInv, TypeOK', ListenerReceive, phase'["listener"] = "answer",
         NEW k \in {0, 1}, Unread(k)
  PROVE  Unread(k)' /\ Answered' = Answered + 1 /\ Ahead(k)' = Ahead(k) - 1 /\ Ahead(k) > 0
         /\ (k = 1 => Answered = 0)
<1>0. Basis /\ TypeOK /\ "dialer" = Peer("listener")
  BY Peers DEF IInv, Basis
<1> USE <1>0, ReceiveEffect
<1>1. wire["dialer"][1].kind = "protocol" /\ phase["listener"] = "select"
  <2>1. PICK p \in Name : wire["dialer"][1] = Proposal(p)
    OBVIOUS
  <2> QED  BY <2>1, TokenKinds
<1>2. /\ Chosen("listener")' = Chosen("listener") /\ Held' = Held /\ Proposed' = Proposed
      /\ HasRead("listener")' = HasRead("listener") /\ Stages' = Stages /\ stage' = stage
      /\ muxSent' = muxSent /\ OnWire("dialer")' = OnWire("dialer") - 1 /\ OnWire("dialer") > 0
      /\ SentKey("dialer")' = SentKey("dialer") /\ Down("dialer")' = Down("dialer")
  BY SameLengths DEF Proposed, Stages, SentKey, Down
<1>3. Answered = Chosen("listener") /\ Answered' = Answered + 1 /\ Answered \in Nat
  <2>1. Chosen("listener") \in Nat
    BY Lengths
  <2> QED  BY <1>1, <1>2, <2>1 DEF Answered, Bit
<1>4. /\ Ahead(k)' = Ahead(k) - 1 /\ Ahead(k) \in Nat
      /\ OnWire("dialer") = k + Ahead(k) + (muxSent["dialer"] - HasRead("listener"))
      /\ HasRead("listener") \in Nat /\ muxSent["dialer"] \in Nat /\ OnWire("dialer") \in Nat
      /\ HasRead("listener") <= muxSent["dialer"] /\ k \in Nat
  <2>1. Ahead(k) >= 0 /\ HasRead("listener") <= muxSent["dialer"]
    BY DEF Unread
  <2> QED  BY ONLY <1>0, TypeOK', k \in {0, 1}, <1>2, <2>1, UnreadNumbers
<1>5. k = 1 => KeyAt(k) # 1
  <2> SUFFICES ASSUME k = 1, KeyAt(k) = 1 PROVE FALSE
    OBVIOUS
  <2>1. 1 \in 1..(k + Ahead(k))
    BY <1>4
  <2>2. wire["dialer"][1] = Key("dialer")
    BY <2>1 DEF Unread
  <2> QED  BY <1>1, <2>2, TokenKinds
<1>6. k = 1 => Answered = 0
  BY <1>5 DEF KeyAt
<1>7. Ahead(k) > 0
  <2> SUFFICES ASSUME Ahead(k) = 0 PROVE FALSE
    BY <1>4
  <2>1. CASE k = 1
    BY <1>5, <1>6, <2>1 DEF KeyAt
  <2>2. CASE k = 0
    <3>1. OnWire("dialer") = muxSent["dialer"] - HasRead("listener") /\ wire["dialer"] # <<>>
      BY <1>2, <1>4, <2>2, Lengths
    <3>2. wire["dialer"][1] = MuxFrame("dialer", HasRead("listener") + 1)
      BY <3>1, FrameAt, Peers DEF Basis, Local
    <3> QED  BY <1>1, <3>2, TokenKinds
  <2> QED  BY <2>1, <2>2
<1>8. k = 1 => Ahead(k) = 1
  <2> SUFFICES ASSUME k = 1 PROVE Ahead(k) = 1
    OBVIOUS
  <2>1. Answered + Ahead(k) <= 1
    BY <1>3, <1>6 DEF Unread
  <2> QED  BY <1>4, <1>6, <1>7, <2>1
<1>9. \A i \in 1..(k + Ahead(k)') :
        IF k = 1 /\ i = KeyAt(k)' THEN wire'["dialer"][i] = Key("dialer")
                                  ELSE wire'["dialer"][i].kind = "protocol"
  <2> SUFFICES ASSUME NEW i \in 1..(k + Ahead(k)')
               PROVE  IF k = 1 /\ i = KeyAt(k)' THEN wire'["dialer"][i] = Key("dialer")
                                                ELSE wire'["dialer"][i].kind = "protocol"
    OBVIOUS
  <2>1. i + 1 \in 1..(k + Ahead(k)) /\ i \in 1..(OnWire("dialer") - 1)
    BY <1>4
  <2>2. wire'["dialer"][i] = wire["dialer"][i + 1]
    BY <2>1
  <2>3. k = 1 => KeyAt(k) = 2 /\ KeyAt(k)' = 1
    BY <1>3, <1>6, <1>8 DEF KeyAt
  <2>4. k = 1 => (i = KeyAt(k)' <=> i + 1 = KeyAt(k))
    BY <2>3
  <2> QED  BY <2>1, <2>2, <2>4 DEF Unread
<1>10. /\ HasRead("listener")' <= muxSent'["dialer"] /\ Ahead(k)' >= 0
       /\ Answered' + Ahead(k)' = Answered + Ahead(k)
  BY <1>2, <1>3, <1>4, <1>7
<1>11. /\ Answered' + Ahead(k)' <= Stages'
       /\ ~Down("dialer")' => Answered' + Ahead(k)' + Held' <= Proposed'
       /\ Chosen("listener")' = 0 \/ (stage'["listener"] = 1 /\ k = 0) =>
            Answered' + Ahead(k)' <= 1 /\ muxSent'["dialer"] = 0
  BY <1>2, <1>10 DEF Unread
<1>12. /\ k = 1 => stage'["listener"] = 1 /\ (Down("dialer")' \/ SentKey("dialer")')
       /\ ~Down("dialer")' /\ SentKey("dialer")' /\ stage'["listener"] = 1 => k = 1
  BY <1>2 DEF Unread
<1> QED  BY <1>3, <1>4, <1>6, <1>7, <1>9, <1>10, <1>11, <1>12 DEF Unread

LEMMA AnswerUnread ==
  ASSUME IInv, TypeOK', ListenerAnswer, NEW k \in {0, 1}, Unread(k)
  PROVE  Unread(k)' /\ Ahead(k)' = Ahead(k)
         /\ Answered' = IF answer = NA THEN Answered - 1 ELSE Answered
<1>0. Basis /\ TypeOK /\ "dialer" = Peer("listener")
  BY Peers DEF IInv, Basis
<1> USE <1>0, AnswerEffect
<1>1. /\ Held' = Held /\ Proposed' = Proposed /\ OnWire("dialer")' = OnWire("dialer")
      /\ HasRead("listener")' = HasRead("listener") /\ Stages' = Stages /\ stage' = stage
      /\ muxSent' = muxSent /\ wire'["dialer"] = wire["dialer"]
      /\ SentKey("dialer")' = SentKey("dialer") /\ Down("dialer")' = Down("dialer")
  BY SameLengths DEF Proposed, Stages, SentKey, Down
<1>2. /\ Chosen("listener") \in Nat /\ Answered = Chosen("listener") + 1
      /\ Chosen("listener")' \in Nat /\ Answered' \in Nat
      /\ IF answer = NA THEN Chosen("listener")' = Chosen("listener") /\ Answered' = Answered - 1
                        ELSE Chosen("listener")' = Chosen("listener") + 1 /\ Answered' = Answered
  <2>1. Chosen("listener") \in Nat /\ phase["listener"] = "answer"
    BY Lengths
  <2>2. Answered = Chosen("listener") + 1
    BY <2>1 DEF Answered, Bit
  <2>3. CASE answer = NA
    <3>1. Chosen("listener")' = Chosen("listener") /\ phase'["listener"] = "select"
      BY <2>3, SameLengths, Distinct
    <3> QED  BY <2>1, <2>2, <2>3, <3>1 DEF Answered, Bit
  <2>4. CASE answer # NA
    <3>1. Chosen("listener")' = Chosen("listener") + 1 /\ phase'["listener"] = "upgrade"
      BY <2>4
    <3> QED  BY <2>1, <2>2, <2>4, <3>1 DEF Answered, Bit
  <2> QED  BY <2>3, <2>4
<1>3. Ahead(k)' = Ahead(k) /\ Ahead(k) \in Int /\ Ahead(k) >= 0
  BY <1>1, UnreadNumbers DEF Ahead, Unread
<1>4. k = 1 => KeyAt(k)' = KeyAt(k)
  <2> SUFFICES ASSUME k = 1 PROVE KeyAt(k)' = KeyAt(k)
    OBVIOUS
  <2>1. KeyAt(k) = 1
    BY <1>2 DEF KeyAt
  <2>2. CASE Answered' = 0
    <3>1. answer = NA /\ Chosen("listener") = 0
      BY <1>2, <2>2
    <3>2. Answered + Ahead(k) <= 1
      BY <3>1 DEF Unread
    <3>3. Ahead(k) = 0
      BY <1>2, <1>3, <3>1, <3>2
    <3> QED  BY <1>3, <2>1, <3>3 DEF KeyAt
  <2>3. CASE Answered' # 0
    BY <2>1, <2>3 DEF KeyAt
  <2> QED  BY <2>2, <2>3
<1>5. \A i \in 1..(k + Ahead(k)') :
        IF k = 1 /\ i = KeyAt(k)' THEN wire'["dialer"][i] = Key("dialer")
                                  ELSE wire'["dialer"][i].kind = "protocol"
  BY <1>1, <1>3, <1>4 DEF Unread
<1>6. HasRead("listener")' <= muxSent'["dialer"] /\ Ahead(k)' >= 0
  BY <1>1, <1>3 DEF Unread
<1>7. Answered' <= Answered
  BY <1>2
<1>8. /\ Answered + Ahead(k) <= Stages
      /\ ~Down("dialer") => Answered + Ahead(k) + Held <= Proposed
      /\ Chosen("listener") = 0 \/ (stage["listener"] = 1 /\ k = 0) =>
            Answered + Ahead(k) <= 1 /\ muxSent["dialer"] = 0
      /\ Stages \in Nat /\ Held \in Nat /\ Proposed \in Nat /\ Answered \in Nat
  BY UnreadNumbers DEF Unread
<1>9. /\ Answered' + Ahead(k)' <= Stages'
      /\ ~Down("dialer")' => Answered' + Ahead(k)' + Held' <= Proposed'
      /\ Chosen("listener")' = 0 \/ (stage'["listener"] = 1 /\ k = 0) =>
            Answered' + Ahead(k)' <= 1 /\ muxSent'["dialer"] = 0
  <2>1. Chosen("listener")' = 0 => Chosen("listener") = 0
    BY <1>2
  <2>2. /\ Answered' + Ahead(k) <= Stages
        /\ ~Down("dialer") => Answered' + Ahead(k) + Held <= Proposed
        /\ Answered + Ahead(k) <= 1 => Answered' + Ahead(k) <= 1
    BY <1>2, <1>3, <1>7, <1>8
  <2> QED  BY <1>1, <1>3, <1>8, <2>1, <2>2
<1>10. /\ k = 1 => stage'["listener"] = 1 /\ (Down("dialer")' \/ SentKey("dialer")')
       /\ ~Down("dialer")' /\ SentKey("dialer")' /\ stage'["listener"] = 1 => k = 1
  BY <1>1 DEF Unread
<1> QED  BY <1>2, <1>3, <1>5, <1>6, <1>9, <1>10 DEF Unread

LEMMA ReadKeyUnread ==
  ASSUME IInv, TypeOK', ReadKey("listener")
  PROVE  Unread(0)' /\ Unread(1) /\ Answered' = Answered /\ Ahead(0)' = Ahead(1)
         /\ Answered = 1
<1>0. Basis /\ TypeOK /\ "dialer" = Peer("listener") /\ 1 \in {0, 1} /\ 0 \in {0, 1}
  BY Peers DEF IInv, Basis
<1> USE <1>0, ReadKeyEffect
<1>1. Chosen("listener") = 1 /\ Answered = 1 /\ ~Down("listener") /\ ~garbled
  BY Upgraded
<1>2. Unread(1)
  BY <1>1, ListenerReadsKey DEF IInv, ListenerView
<1>3. /\ Held' = Held /\ Proposed' = Proposed
      /\ HasRead("listener")' = HasRead("listener") /\ Stages' = Stages
      /\ Chosen("listener")' = Chosen("listener")
      /\ muxSent' = muxSent /\ OnWire("dialer")' = OnWire("dialer") - 1
      /\ Down("dialer")' = Down("dialer") /\ stage'["listener"] = 2
  BY SameLengths DEF Proposed, Stages, Down
<1>4. Answered' = 1
  BY <1>1, <1>3 DEF Answered, Bit
<1>5. /\ Ahead(0)' = Ahead(1) /\ Ahead(1) \in Nat
      /\ OnWire("dialer") = 1 + Ahead(1) + (muxSent["dialer"] - HasRead("listener"))
      /\ HasRead("listener") \in Nat /\ muxSent["dialer"] \in Nat /\ OnWire("dialer") \in Nat
      /\ HasRead("listener") <= muxSent["dialer"]
  <2>1. Ahead(1) >= 0 /\ HasRead("listener") <= muxSent["dialer"]
    BY <1>2 DEF Unread
  <2> QED  BY ONLY <1>0, TypeOK', <1>3, <2>1, UnreadNumbers
<1>6. KeyAt(1) = 1
  BY <1>1 DEF KeyAt
<1>7. \A i \in 1..(0 + Ahead(0)') : wire'["dialer"][i].kind = "protocol"
  <2> SUFFICES ASSUME NEW i \in 1..Ahead(1) PROVE wire'["dialer"][i].kind = "protocol"
    BY <1>5
  <2>1. i + 1 \in 1..(1 + Ahead(1)) /\ i + 1 # KeyAt(1) /\ i \in 1..(OnWire("dialer") - 1)
    BY <1>5, <1>6
  <2>2. wire'["dialer"][i] = wire["dialer"][i + 1]
    BY <2>1
  <2> QED  BY <1>2, <2>1, <2>2 DEF Unread
<1>8. /\ HasRead("listener")' <= muxSent'["dialer"] /\ Ahead(0)' >= 0
      /\ Answered' + Ahead(0)' <= Stages'
      /\ ~Down("dialer")' => Answered' + Ahead(0)' + Held' <= Proposed'
  BY <1>1, <1>2, <1>3, <1>4, <1>5 DEF Unread
<1>9. ~(Chosen("listener")' = 0 \/ (stage'["listener"] = 1 /\ 0 = 0))
  BY <1>1, <1>3
<1>10. stage'["listener"] # 1
  BY <1>3
<1> QED  BY <1>1, <1>2, <1>4, <1>5, <1>7, <1>8, <1>9, <1>10 DEF Unread

LEMMA MuxReadUnread ==
  ASSUME IInv, TypeOK', MuxRead("listener"), NEW k \in {0, 1}, Unread(k)
  PROVE  Unread(k)' /\ Ahead(k)' = 0 /\ Ahead(k) = 0 /\ Answered' = Answered
<1>0. Basis /\ TypeOK /\ "dialer" = Peer("listener")
  BY Peers DEF IInv, Basis
<1> USE <1>0, MuxReadEffect
<1>1. k = 0 /\ Ahead(k) = 0
  BY ListenerReadsFrame
<1>2. /\ Held' = Held /\ Proposed' = Proposed /\ Answered' = Answered
      /\ Stages' = Stages /\ Chosen("listener")' = Chosen("listener")
      /\ HasRead("listener")' = HasRead("listener") + 1 /\ stage' = stage
      /\ muxSent' = muxSent /\ OnWire("dialer")' = OnWire("dialer") - 1 /\ OnWire("dialer") > 0
      /\ SentKey("dialer")' = SentKey("dialer") /\ Down("dialer")' = Down("dialer")
  BY SameLengths DEF Proposed, Answered, Stages, SentKey, Down
<1>3. Ahead(k)' = 0 /\ HasRead("listener")' <= muxSent'["dialer"]
  BY ONLY <1>0, TypeOK', k \in {0, 1}, <1>1, <1>2, UnreadNumbers
<1>4. \A i \in 1..(k + Ahead(k)') :
        IF k = 1 /\ i = KeyAt(k)' THEN wire'["dialer"][i] = Key("dialer")
                                  ELSE wire'["dialer"][i].kind = "protocol"
  BY <1>1, <1>3
<1>5. /\ Answered' + Ahead(k)' <= Stages'
      /\ ~Down("dialer")' => Answered' + Ahead(k)' + Held' <= Proposed'
      /\ Chosen("listener")' = 0 \/ (stage'["listener"] = 1 /\ k = 0) =>
            Answered' + Ahead(k)' <= 1 /\ muxSent'["dialer"] = 0
  BY <1>1, <1>2, <1>3 DEF Unread
<1>6. /\ k = 1 => stage'["listener"] = 1 /\ (Down("dialer")' \/ SentKey("dialer")')
      /\ ~Down("dialer")' /\ SentKey("dialer")' /\ stage'["listener"] = 1 => k = 1
  BY <1>2 DEF Unread
<1> QED  BY <1>1, <1>2, <1>3, <1>4, <1>5, <1>6 DEF Unread

LEMMA MuxWriteUnread ==
  ASSUME IInv, TypeOK', MuxWrite("dialer"), NEW k \in {0, 1}, Unread(k)
  PROVE  Unread(k)' /\ Ahead(k)' = Ahead(k)
<1>0. Basis /\ TypeOK /\ "listener" = Peer("dialer")
  BY Peers DEF IInv, Basis
<1> USE <1>0, MuxWriteEffect
<1>1. stage["dialer"] > 1 /\ ~Down("dialer") /\ SentKey("dialer")
  BY Connected DEF Down, SentKey
<1>2. /\ Held' = Held /\ Proposed' = Proposed /\ Answered' = Answered
      /\ Stages' = Stages /\ Chosen("listener")' = Chosen("listener")
      /\ HasRead("listener")' = HasRead("listener") /\ stage' = stage
      /\ muxSent'["dialer"] = muxSent["dialer"] + 1 /\ OnWire("dialer")' = OnWire("dialer") + 1
      /\ SentKey("dialer")' = SentKey("dialer") /\ Down("dialer")' = Down("dialer")
  BY SameLengths DEF Proposed, Answered, Stages, SentKey, Down
<1>3. /\ Ahead(k)' = Ahead(k) /\ Ahead(k) \in Int /\ HasRead("listener") \in Nat
      /\ muxSent["dialer"] \in Nat /\ OnWire("dialer") \in Nat /\ k \in Nat
      /\ Ahead(k) = OnWire("dialer") - k - (muxSent["dialer"] - HasRead("listener"))
  BY ONLY <1>0, TypeOK', k \in {0, 1}, <1>2, UnreadNumbers
<1>4. HasRead("listener") <= muxSent["dialer"]
  BY DEF Unread
<1>5. KeyAt(k)' = KeyAt(k)
  BY <1>2, <1>3 DEF KeyAt
<1>6. \A i \in 1..(k + Ahead(k)') :
        IF k = 1 /\ i = KeyAt(k)' THEN wire'["dialer"][i] = Key("dialer")
                                  ELSE wire'["dialer"][i].kind = "protocol"
  <2> SUFFICES ASSUME NEW i \in 1..(k + Ahead(k)')
               PROVE  IF k = 1 /\ i = KeyAt(k)' THEN wire'["dialer"][i] = Key("dialer")
                                                ELSE wire'["dialer"][i].kind = "protocol"
    OBVIOUS
  <2>1. i \in 1..(k + Ahead(k)) /\ i \in 1..OnWire("dialer")
    BY <1>3, <1>4
  <2>2. wire'["dialer"][i] = wire["dialer"][i]
    BY <2>1
  <2> QED  BY <1>5, <2>1, <2>2 DEF Unread
<1>7. HasRead("listener")' <= muxSent'["dialer"] /\ Ahead(k)' >= 0
  BY <1>2, <1>3, <1>4 DEF Unread
<1>8. /\ Answered' + Ahead(k)' <= Stages'
      /\ ~Down("dialer")' => Answered' + Ahead(k)' + Held' <= Proposed'
  BY <1>2, <1>3 DEF Unread
<1>9. ~(Chosen("listener")' = 0 \/ (stage'["listener"] = 1 /\ k = 0))
  <2>1. Chosen("listener") # 0
    BY <1>1, FirstStage
  <2>2. ~(stage["listener"] = 1 /\ k = 0)
    BY <1>1 DEF Unread
  <2> QED  BY <1>2, <2>1, <2>2
<1>10. /\ k = 1 => stage'["listener"] = 1 /\ (Down("dialer")' \/ SentKey("dialer")')
       /\ ~Down("dialer")' /\ SentKey("dialer")' /\ stage'["listener"] = 1 => k = 1
  BY <1>2 DEF Unread
<1> QED  BY <1>3, <1>6, <1>7, <1>8, <1>9, <1>10 DEF Unread

LEMMA ListenerViewStep ==
  ASSUME IInv, TypeOK', [Next]_vars
  PROVE  ListenerView'
<1> SUFFICES ASSUME ~Down("listener")', ~garbled'
             PROVE  \E k \in {0, 1} : Unread(k)'
  BY DEF ListenerView
<1>0. /\ Basis /\ TypeOK /\ "listener" = Peer("dialer") /\ "dialer" = Peer("listener")
      /\ garbled => phase["listener"] \in {"select", "failed"}
  BY Peers DEF IInv, Basis, ListenerLocal
<1> USE <1>0
<1>1. ~Down("listener") /\ ~garbled => \E k \in {0, 1} : Unread(k)
  BY DEF IInv, ListenerView
<1>2. CASE \/ DialerPropose \/ DialerFlush \/ DialerAwait \/ DialerConfirm
           \/ SideStep("dialer") \/ UNCHANGED vars
  <2>1. ~Down("listener") /\ ~garbled
    BY <1>2, ListenerUntouched DEF Down
  <2>2. PICK k \in {0, 1} : Unread(k)
    BY <1>1, <2>1
  <2>3. SideStep("dialer") => \/ SendKey("dialer") \/ MuxWrite("dialer")
                              \/ ReadKey("dialer") \/ PassReady("dialer") \/ StartMuxer("dialer")
                              \/ MuxRead("dialer") \/ Ends("dialer")
    BY DEF SideStep
  <2>4. CASE SendKey("dialer")
    BY <2>2, <2>4, SendKeyUnread
  <2>5. CASE MuxWrite("dialer")
    BY <2>2, <2>5, MuxWriteUnread
  <2>6. CASE \/ ReadKey("dialer") \/ PassReady("dialer") \/ StartMuxer("dialer")
             \/ MuxRead("dialer") \/ Ends("dialer") \/ DialerConfirm
    BY <2>2, <2>6, DialerUnread
  <2>7. CASE DialerPropose \/ DialerFlush \/ DialerAwait \/ UNCHANGED vars
    BY <2>1, <2>2, <2>7, ProposeUnread, FlushUnread, AwaitUnread, ListenerUnread
  <2> QED  BY <1>2, <2>3, <2>4, <2>5, <2>6, <2>7
<1>3. CASE ListenerReceive
  <2>1. phase["listener"] = "select" /\ ~garbled /\ phase'["listener"] # "failed"
    BY <1>3, ReceiveEffect DEF Down
  <2>2. PICK k \in {0, 1} : Unread(k)
    BY <1>1, <2>1 DEF Down
  <2>3. phase'["listener"] = "answer"
    BY <1>3, <2>1, ReceiveEffect
  <2> QED  BY <1>3, <2>2, <2>3, ReceiveUnread
<1>4. CASE ListenerSwallow
  BY <1>4, SwallowEffect
<1>5. CASE ListenerAnswer
  <2>1. ~Down("listener") /\ ~garbled
    BY <1>5, AnswerEffect DEF Down
  <2> QED  BY <1>1, <1>5, <2>1, AnswerUnread
<1>6. CASE SideStep("listener")
  <2>1. CASE ReadKey("listener")
    BY <2>1, ReadKeyUnread
  <2>2. CASE \/ MuxRead("listener") \/ SendKey("listener") \/ PassReady("listener")
             \/ StartMuxer("listener") \/ MuxWrite("listener")
    <3>1. phase["listener"] \in {"upgrade", "connected"}
      BY <2>2, MuxReadEffect, SendKeyEffect, PassEffect, StartEffect, MuxWriteEffect
    <3>2. PICK k \in {0, 1} : Unread(k)
      BY <1>1, <3>1 DEF Down
    <3> QED  BY <2>2, <3>2, MuxReadUnread, ListenerUnread
  <2>3. CASE Ends("listener")
    BY <2>3, EndsEffect
  <2> QED  BY <1>6, <2>1, <2>2, <2>3 DEF SideStep
<1> QED  BY <1>2, <1>3, <1>4, <1>5, <1>6, Cases

-----------------------------------------------------------------------------
(* DialerView, part by part: the echoes. *)

LEMMA ViewNumbers ==
  ASSUME Basis
  PROVE  /\ TypeOK /\ Unconfirmed \in Nat /\ Chosen("listener") \in Nat /\ Chosen("dialer") \in Nat
         /\ OnWire("listener") \in Nat /\ HasRead("dialer") \in Nat
         /\ muxSent["listener"] \in Nat /\ Proposed \in Nat /\ Expected \in Nat
         /\ stage["dialer"] \in Nat /\ stage["listener"] \in Nat
<1>1. TypeOK /\ Expectation
  BY DEF Basis, DialerLocal
<1>2. Chosen("dialer") \in Nat /\ Expected \in Nat /\ Expected <= Chosen("dialer")
  BY <1>1, Lengths DEF Expectation
<1>3. Unconfirmed \in Nat
  BY <1>2 DEF Unconfirmed
<1>4. /\ Chosen("listener") \in Nat /\ OnWire("listener") \in Nat /\ HasRead("dialer") \in Nat
      /\ muxSent["listener"] \in Nat /\ Proposed \in Nat
      /\ stage["dialer"] \in Nat /\ stage["listener"] \in Nat
  BY <1>1, Counts, Lengths, Types
<1> QED  BY <1>1, <1>2, <1>3, <1>4

\* What the echoes answer to stays, and the listener may write and choose more.
LEMMA EchoesKept ==
  ASSUME Basis, NEW e \in Nat, EchoesTo(e), Unconfirmed' = Unconfirmed, e <= Proposed',
         Chosen("listener")' \in Nat, Chosen("listener")' >= Chosen("listener"),
         \A i \in 1..Chosen("listener") : chosen'["listener"][i] = chosen["listener"][i],
         \A i \in 1..e : Asked(i)' = Asked(i),
         OnWire("listener")' \in Nat, OnWire("listener")' >= OnWire("listener"),
         \A i \in 1..OnWire("listener") : wire'["listener"][i] = wire["listener"][i]
  PROVE  EchoesTo(e)'
<1>0. /\ Unconfirmed \in Nat /\ Chosen("listener") \in Nat /\ OnWire("listener") \in Nat
      /\ Unconfirmed <= e /\ e <= Chosen("listener") /\ e - Unconfirmed <= OnWire("listener")
  BY ViewNumbers DEF EchoesTo
<1>1. /\ Unconfirmed' <= e /\ e <= Chosen("listener")' /\ e <= Proposed'
      /\ e - Unconfirmed' <= OnWire("listener")'
  BY <1>0
<1>2. \A i \in 1..e : chosen'["listener"][i] = Asked(i)'
  <2>1. \A i \in 1..e : i \in 1..Chosen("listener")
    BY <1>0
  <2> QED  BY <2>1 DEF EchoesTo
<1>3. ASSUME NEW i \in (Unconfirmed + 1)..e
      PROVE  wire'["listener"][i - Unconfirmed] = Proposal(Asked(i))
  <2>1. i - Unconfirmed \in 1..OnWire("listener")
    BY <1>0
  <2>2. wire["listener"][i - Unconfirmed] = Proposal(Asked(i))
    BY DEF EchoesTo
  <2> QED  BY <2>1, <2>2
<1>4. \A i \in (Unconfirmed + 1)..e : Asked(i)' = Asked(i)
  BY <1>0
<1> QED  BY <1>1, <1>2, <1>3, <1>4 DEF EchoesTo

\* The dialer has read the first echo.
LEMMA EchoesRead ==
  ASSUME Basis, NEW e \in Nat, EchoesTo(e), Unconfirmed < e,
         Unconfirmed' = Unconfirmed + 1, e <= Proposed',
         chosen'["listener"] = chosen["listener"], Popped("listener"),
         \A i \in 1..e : Asked(i)' = Asked(i)
  PROVE  EchoesTo(e)'
<1>0. /\ Unconfirmed \in Nat /\ Chosen("listener") \in Nat /\ OnWire("listener") \in Nat
      /\ e <= Chosen("listener") /\ e - Unconfirmed <= OnWire("listener")
      /\ Chosen("listener")' = Chosen("listener")
      /\ OnWire("listener")' = OnWire("listener") - 1
  BY ViewNumbers, SameLengths DEF EchoesTo, Popped
<1>1. /\ Unconfirmed' <= e /\ e <= Chosen("listener")' /\ e <= Proposed'
      /\ e - Unconfirmed' <= OnWire("listener")'
  BY <1>0
<1>2. \A i \in 1..e : chosen'["listener"][i] = Asked(i)'
  BY DEF EchoesTo
<1>3. ASSUME NEW i \in (Unconfirmed + 1 + 1)..e
      PROVE  wire'["listener"][i - (Unconfirmed + 1)] = Proposal(Asked(i)')
  <2>1. /\ i - (Unconfirmed + 1) \in 1..(OnWire("listener") - 1)
        /\ (i - (Unconfirmed + 1)) + 1 = i - Unconfirmed
        /\ i \in (Unconfirmed + 1)..e /\ i \in 1..e
    BY <1>0
  <2>2. wire["listener"][i - Unconfirmed] = Proposal(Asked(i))
    BY <2>1 DEF EchoesTo
  <2>3. wire'["listener"][i - (Unconfirmed + 1)] = wire["listener"][i - Unconfirmed]
    BY <2>1 DEF Popped
  <2> QED  BY <2>1, <2>2, <2>3
<1> QED  BY <1>1, <1>2, <1>3 DEF EchoesTo

\* A proposal keeps its place while the dialer only goes on.
LEMMA AskedKept ==
  ASSUME TypeOK, \A i \in 1..Chosen("dialer") : chosen'["dialer"][i] = chosen["dialer"][i],
         Chosen("dialer")' \in Nat, Chosen("dialer")' >= Chosen("dialer")
  PROVE  \A i \in 1..Chosen("dialer") : Asked(i)' = Asked(i)
<1>1. Chosen("dialer") \in Nat
  BY Lengths
<1> QED  BY <1>1 DEF Asked

\* And so does the one it awaits.
LEMMA AskedSame ==
  ASSUME UNCHANGED <<pipeline, tried>>, chosen'["dialer"] = chosen["dialer"],
         stage'["dialer"] = stage["dialer"]
  PROVE  \A i : Asked(i)' = Asked(i)
<1>1. Chosen("dialer")' = Chosen("dialer")
  BY SameLengths
<1> QED  BY <1>1 DEF Asked, Stage

\* Each step of the dialer but its reads of answers leaves the proposals made
\* so far as they are.
LEMMA AskedSoFar ==
  ASSUME IInv, [Next]_vars, ~Down("dialer")', ~DialerAwait
  PROVE  /\ ~Down("dialer")
         /\ Proposed' >= Proposed /\ \A i \in 1..Proposed : Asked(i)' = Asked(i)
         /\ ~DialerPropose => Proposed' = Proposed
<1>0. Basis /\ TypeOK /\ "listener" = Peer("dialer") /\ "dialer" = Peer("listener")
      /\ Proposed \in Nat /\ Chosen("dialer") \in Nat
  BY Peers, Counts, Lengths DEF IInv, Basis
<1> USE <1>0
<1>1. ASSUME UNCHANGED <<pipeline, tried>>, chosen'["dialer"] = chosen["dialer"],
             stage'["dialer"] = stage["dialer"], phase'["dialer"] = phase["dialer"]
      PROVE  /\ ~Down("dialer") /\ Proposed' = Proposed
             /\ \A i \in 1..Proposed : Asked(i)' = Asked(i)
  BY <1>1, SameLengths, AskedSame DEF Proposed, Down
<1>2. ASSUME chosen'["dialer"] = chosen["dialer"], phase["dialer"] \in {"upgrade", "readKey"},
             phase'["dialer"] # "await"
      PROVE  /\ ~Down("dialer") /\ Proposed' = Proposed
             /\ \A i \in 1..Proposed : Asked(i)' = Asked(i)
  <2>1. Proposed = Chosen("dialer") /\ Proposed' = Chosen("dialer")
    BY <1>2, SameLengths DEF Proposed, Bit
  <2>2. Chosen("dialer")' = Chosen("dialer")
    BY <1>2, SameLengths
  <2> QED  BY <1>2, <2>1, <2>2, AskedKept DEF Down
<1>3. CASE DialerPropose
  <2> USE <1>3, ProposeEffect
  <2>1. Proposed = Chosen("dialer") /\ ~Down("dialer")
    BY DEF Proposed, Bit, Down
  <2>2. Proposed' = Proposed + 1 /\ Chosen("dialer")' \in Nat
        /\ Chosen("dialer")' >= Chosen("dialer")
    <3>1. \/ phase'["dialer"] = "upgrade" /\ Chosen("dialer")' = Chosen("dialer") + 1
          \/ phase'["dialer"] = "await" /\ Chosen("dialer")' = Chosen("dialer")
      BY SameLengths
    <3> QED  BY <2>1, <3>1 DEF Proposed, Bit
  <2>3. \A i \in 1..Chosen("dialer") : chosen'["dialer"][i] = chosen["dialer"][i]
    OBVIOUS
  <2> QED  BY <2>1, <2>2, <2>3, AskedKept
<1>4. CASE DialerFlush
  BY <1>1, <1>4, FlushEffect
<1>5. CASE DialerConfirm
  BY <1>1, <1>5, ConfirmEffect DEF Down
<1>6. CASE \/ ListenerReceive \/ ListenerSwallow \/ ListenerAnswer
           \/ SideStep("listener") \/ UNCHANGED vars
  BY <1>1, <1>6, DialerUntouched
<1>7. CASE SideStep("dialer")
  <2>1. CASE SendKey("dialer") \/ ReadKey("dialer") \/ PassReady("dialer") \/ StartMuxer("dialer")
    BY <1>2, <2>1, SendKeyEffect, ReadKeyEffect, PassEffect, StartEffect
  <2>2. CASE MuxWrite("dialer") \/ MuxRead("dialer")
    BY <1>1, <2>2, MuxWriteEffect, MuxReadEffect
  <2>3. CASE Ends("dialer")
    BY <2>3, EndsEffect
  <2> QED  BY <1>7, <2>1, <2>2, <2>3 DEF SideStep
<1>8. CASE ~DialerPropose
  BY <1>4, <1>5, <1>6, <1>7, <1>8, Cases
<1> QED  BY <1>3, <1>8

-----------------------------------------------------------------------------
(* DialerView, part by part: after a refusal. *)

LEMMA RefusedLastKept ==
  ASSUME Basis, RefusedLast, Unconfirmed' = Unconfirmed,
         Proposed \in Nat, Proposed' >= Proposed, Proposed' \in Nat,
         Chosen("dialer")' \in Nat, Chosen("dialer")' >= Chosen("dialer"),
         Chosen("listener")' \in Nat, Chosen("listener")' >= Chosen("listener"),
         \A i \in 1..Chosen("listener") : chosen'["listener"][i] = chosen["listener"][i],
         \A i \in 1..Proposed : Asked(i)' = Asked(i),
         OnWire("listener")' \in Nat, OnWire("listener")' >= OnWire("listener"),
         \A i \in 1..OnWire("listener") : wire'["listener"][i] = wire["listener"][i]
  PROVE  RefusedLast'
<1>1. PICK b \in (Unconfirmed + 1)..Chosen("dialer") :
        /\ EchoesTo(b - 1) /\ b - Unconfirmed <= OnWire("listener")
        /\ wire["listener"][b - Unconfirmed] = NA
  BY DEF RefusedLast
<1>2. PICK e \in Nat : e = b - 1
  BY <1>1, ViewNumbers
<1>3. EchoesTo(e)'
  <2>1. EchoesTo(e) /\ e <= Proposed
    BY <1>1, <1>2 DEF EchoesTo
  <2>2. e <= Proposed' /\ \A i \in 1..e : Asked(i)' = Asked(i)
    BY <2>1
  <2> QED  BY <2>1, <2>2, EchoesKept
<1>4. b \in (Unconfirmed' + 1)..Chosen("dialer")'
  BY <1>1, ViewNumbers
<1>5. b - Unconfirmed' <= OnWire("listener")' /\ wire'["listener"][b - Unconfirmed'] = NA
  <2>1. b - Unconfirmed \in 1..OnWire("listener")
    BY <1>1, ViewNumbers
  <2> QED  BY <1>1, <2>1, ViewNumbers
<1> QED  BY <1>2, <1>3, <1>4, <1>5 DEF RefusedLast, EchoesTo

LEMMA RefusedLastRead ==
  ASSUME Basis, RefusedLast, Unconfirmed' = Unconfirmed + 1, wire["listener"][1] # NA,
         Proposed' = Proposed, chosen' = chosen, Popped("listener"),
         \A i \in 1..Proposed : Asked(i)' = Asked(i)
  PROVE  RefusedLast'
<1>0. /\ Unconfirmed \in Nat /\ OnWire("listener") \in Nat /\ Proposed \in Nat
      /\ OnWire("listener")' = OnWire("listener") - 1
      /\ Chosen("dialer")' = Chosen("dialer") /\ Chosen("dialer") \in Nat
  BY ViewNumbers, SameLengths DEF Popped
<1>1. PICK b \in (Unconfirmed + 1)..Chosen("dialer") :
        /\ EchoesTo(b - 1) /\ b - Unconfirmed <= OnWire("listener")
        /\ wire["listener"][b - Unconfirmed] = NA
  BY DEF RefusedLast
<1>2. b # Unconfirmed + 1
  BY <1>0, <1>1
<1>3. PICK e \in Nat : e = b - 1
  BY <1>0, <1>1
<1>4. EchoesTo(e)'
  <2>1. EchoesTo(e) /\ e <= Proposed /\ Unconfirmed < e
    BY <1>0, <1>1, <1>2, <1>3 DEF EchoesTo
  <2>2. \A i \in 1..e : Asked(i)' = Asked(i)
    BY <1>0, <2>1
  <2> QED  BY <2>1, <2>2, EchoesRead
<1>5. b \in (Unconfirmed' + 1)..Chosen("dialer")'
  BY <1>0, <1>1, <1>2
<1>6. b - Unconfirmed' <= OnWire("listener")' /\ wire'["listener"][b - Unconfirmed'] = NA
  <2>1. /\ b - (Unconfirmed + 1) \in 1..(OnWire("listener") - 1)
        /\ (b - (Unconfirmed + 1)) + 1 = b - Unconfirmed
    BY <1>0, <1>1, <1>2
  <2>2. wire'["listener"][b - (Unconfirmed + 1)] = wire["listener"][b - Unconfirmed]
    BY <2>1 DEF Popped
  <2> QED  BY <1>0, <1>1, <2>1, <2>2
<1> QED  BY <1>3, <1>4, <1>5, <1>6 DEF RefusedLast, EchoesTo

\* What a step does to the listener's wire and choices.
LEMMA ListenerGoesOn ==
  ASSUME IInv, TypeOK', [Next]_vars, ~DialerAwait, ~DialerConfirm,
         ~ReadKey("dialer"), ~MuxRead("dialer")
  PROVE  /\ Chosen("listener")' \in Nat /\ Chosen("listener")' >= Chosen("listener")
         /\ \A i \in 1..Chosen("listener") : chosen'["listener"][i] = chosen["listener"][i]
         /\ OnWire("listener")' \in Nat /\ OnWire("listener")' >= OnWire("listener")
         /\ \A i \in 1..OnWire("listener") : wire'["listener"][i] = wire["listener"][i]
         /\ muxRead'["dialer"] = muxRead["dialer"]
         /\ Unconfirmed' = Unconfirmed
<1>0. Basis /\ TypeOK /\ "listener" = Peer("dialer") /\ "dialer" = Peer("listener")
  BY Peers DEF IInv, Basis
<1> USE <1>0
<1>1. ASSUME chosen'["listener"] = chosen["listener"]
      PROVE  /\ Chosen("listener")' \in Nat /\ Chosen("listener")' >= Chosen("listener")
             /\ \A i \in 1..Chosen("listener") : chosen'["listener"][i] = chosen["listener"][i]
  BY <1>1, SameLengths, Lengths
<1>2. ASSUME wire'["listener"] = wire["listener"]
      PROVE  /\ OnWire("listener")' \in Nat /\ OnWire("listener")' >= OnWire("listener")
             /\ \A i \in 1..OnWire("listener") : wire'["listener"][i] = wire["listener"][i]
  BY <1>2, SameLengths, Lengths
<1>3. ASSUME chosen'["dialer"] = chosen["dialer"], expecting' = expecting
      PROVE  Unconfirmed' = Unconfirmed
  BY <1>3, SameLengths DEF Unconfirmed
<1>4. CASE DialerPropose
  <2>1. Unconfirmed' = Unconfirmed
    <3>1. Chosen("dialer") \in Nat /\ Expected \in Nat
      BY Lengths
    <3>2. \/ Chosen("dialer")' = Chosen("dialer") /\ Expected' = Expected
          \/ Chosen("dialer")' = Chosen("dialer") + 1 /\ Expected' = Expected + 1
      BY <1>4, ProposeEffect, SameLengths
    <3> QED  BY <3>1, <3>2 DEF Unconfirmed
  <2> QED  BY <1>1, <1>2, <1>4, <2>1, ProposeEffect
<1>5. CASE DialerFlush
  BY <1>1, <1>2, <1>3, <1>5, FlushEffect
<1>6. CASE SideStep("dialer")
  BY <1>1, <1>2, <1>3, <1>6, SendKeyEffect, PassEffect, StartEffect, MuxWriteEffect, EndsEffect
     DEF SideStep
<1>7. CASE ListenerReceive \/ ListenerSwallow
  BY <1>1, <1>2, <1>3, <1>7, ReceiveEffect, SwallowEffect
<1>8. CASE ListenerAnswer
  <2> USE <1>8, AnswerEffect
  <2>1. /\ OnWire("listener") \in Nat /\ Chosen("listener") \in Nat
        /\ OnWire("listener")' = OnWire("listener") + 1
    BY Lengths
  <2>2. CASE chosen' = chosen
    BY <1>1, <1>3, <2>1, <2>2
  <2>3. CASE Chosen("listener")' = Chosen("listener") + 1
    BY <1>3, <2>1, <2>3
  <2> QED  BY <2>2, <2>3
<1>9. CASE SideStep("listener")
  <2>1. CASE SendKey("listener")
    <3>1. /\ OnWire("listener") \in Nat /\ OnWire("listener")' = OnWire("listener") + 1
      BY <2>1, SendKeyEffect, Lengths
    <3> QED  BY <1>1, <1>3, <2>1, <3>1, SendKeyEffect
  <2>2. CASE MuxWrite("listener")
    <3>1. /\ OnWire("listener") \in Nat /\ OnWire("listener")' = OnWire("listener") + 1
      BY <2>2, MuxWriteEffect, Lengths
    <3> QED  BY <1>1, <1>3, <2>2, <3>1, MuxWriteEffect
  <2>3. CASE \/ ReadKey("listener") \/ PassReady("listener") \/ StartMuxer("listener")
             \/ MuxRead("listener") \/ Ends("listener")
    BY <1>1, <1>2, <1>3, <2>3, ReadKeyEffect, PassEffect, StartEffect, MuxReadEffect, EndsEffect
  <2> QED  BY <1>9, <2>1, <2>2, <2>3 DEF SideStep
<1>10. CASE UNCHANGED vars
  BY <1>1, <1>2, <1>3, <1>10 DEF vars
<1> QED  BY <1>4, <1>5, <1>6, <1>7, <1>8, <1>9, <1>10, Cases

LEMMA Numbers ==
    TypeOK => Proposed \in Nat /\ Chosen("dialer") \in Nat /\ Chosen("listener") \in Nat
BY Counts, Lengths

LEMMA NumbersNext ==
    TypeOK' => (Proposed \in Nat /\ Chosen("dialer") \in Nat /\ Chosen("listener") \in Nat)'
BY Numbers, PTL

\* What the dialer has chosen stays.
LEMMA DialerChooses ==
  ASSUME IInv, [Next]_vars
  PROVE  Chosen("dialer")' >= Chosen("dialer")
<1>0. Basis /\ "listener" = Peer("dialer") /\ Chosen("dialer") \in Nat
  BY Peers, Lengths DEF IInv, Basis
<1> USE <1>0
<1>1. CASE DialerPropose
  <2>1. Chosen("dialer")' \in {Chosen("dialer"), Chosen("dialer") + 1}
    BY <1>1, ProposeEffect, SameLengths
  <2> QED  BY <2>1
<1>2. CASE DialerAwait
  <2>1. Chosen("dialer")' \in {Chosen("dialer"), Chosen("dialer") + 1}
    BY <1>2, AwaitEffect, SameLengths
  <2> QED  BY <2>1
<1>3. CASE ~DialerPropose /\ ~DialerAwait
  <2>1. chosen'["dialer"] = chosen["dialer"]
    BY <1>3, Cases, FlushEffect, ConfirmEffect, DialerUntouched, SendKeyEffect, ReadKeyEffect,
       PassEffect, StartEffect, MuxWriteEffect, MuxReadEffect, EndsEffect DEF SideStep, Basis
  <2> QED  BY <2>1, SameLengths
<1> QED  BY <1>1, <1>2, <1>3

LEMMA RefusedLastStep ==
  ASSUME IInv, TypeOK', [Next]_vars, ~Down("dialer")', RefusedLast
  PROVE  RefusedLast'
<1>0. Basis /\ TypeOK /\ "listener" = Peer("dialer") /\ Expected > 0
  <2>1. Basis /\ TypeOK
    BY DEF IInv, Basis
  <2>2. PICK b \in (Unconfirmed + 1)..Chosen("dialer") : TRUE
    BY DEF RefusedLast
  <2>3. Unconfirmed \in Nat /\ Chosen("dialer") \in Nat /\ Expected \in Nat
    BY <2>1, ViewNumbers
  <2>4. Unconfirmed < Chosen("dialer")
    BY <2>2, <2>3
  <2> QED  BY <2>1, <2>3, <2>4, Peers DEF Unconfirmed
<1>1. ~DialerAwait /\ ~ReadKey("dialer") /\ ~MuxRead("dialer")
  <2>1. expecting # <<>>
    BY <1>0, Lengths
  <2> QED  BY <2>1 DEF DialerAwait, ReadKey, MuxRead, Readable
<1>2. CASE DialerConfirm
  <2> USE <1>0, <1>2, ConfirmEffect
  <2>1. CASE wire["listener"][1] # Proposal(expecting[1])
    BY <2>1 DEF Down
  <2>2. CASE wire["listener"][1] = Proposal(expecting[1]) /\ Expected' = Expected - 1
    <3>1. wire["listener"][1] # NA
      BY <2>2, Distinct
    <3>2. Unconfirmed' = Unconfirmed + 1
      BY <2>2, SameLengths, Lengths DEF Unconfirmed
    <3>3. Proposed' = Proposed /\ \A i \in 1..Proposed : Asked(i)' = Asked(i)
      <4>1. ~DialerPropose
        BY DEF DialerConfirm, DialerPropose
      <4> QED  BY <1>1, <4>1, AskedSoFar
    <3> QED  BY <3>1, <3>2, <3>3, RefusedLastRead DEF Popped
  <2> QED  BY <2>1, <2>2
<1>3. CASE ~DialerConfirm
  <2>1. Proposed' >= Proposed /\ \A i \in 1..Proposed : Asked(i)' = Asked(i)
    BY <1>1, AskedSoFar
  <2>2. Proposed' \in Nat /\ Chosen("dialer")' \in Nat
    BY NumbersNext
  <2>3. Chosen("dialer")' >= Chosen("dialer")
    BY <1>0, <1>1, DialerChooses
  <2> QED  BY <1>0, <1>1, <1>3, <2>1, <2>2, <2>3, ListenerGoesOn, RefusedLastKept, ViewNumbers
<1> QED  BY <1>2, <1>3

\* The dialer reads the echo of an earlier proposal.
LEMMA RefusedAwaitedRead ==
  ASSUME IInv, RefusedAwaited, DialerConfirm, Unconfirmed' = Unconfirmed + 1,
         Proposed' = Proposed, phase' = phase, \A i : Asked(i)' = Asked(i)
  PROVE  RefusedAwaited'
<1> USE ConfirmEffect
<1>0. /\ Basis /\ TypeOK /\ Unconfirmed \in Nat /\ OnWire("listener") \in Nat
      /\ Chosen("dialer") \in Nat /\ Expected \in Nat /\ Unconfirmed < Chosen("dialer")
  <2>1. Basis
    BY DEF IInv
  <2> QED  BY <2>1, ViewNumbers DEF Unconfirmed
<1>1. /\ Chosen("dialer")' = Chosen("dialer") /\ Chosen("listener")' = Chosen("listener")
      /\ OnWire("listener")' = OnWire("listener") - 1 /\ Popped("listener")
      /\ Stage("dialer")' = Stage("dialer") /\ Down("listener")' = Down("listener")
  BY <1>0, SameLengths DEF Popped, Stage, Down
<1>2. PICK e \in Nat : e = Chosen("dialer")
  BY <1>0
<1>3. EchoesTo(e)'
  <2>1. EchoesTo(e) /\ e <= Proposed /\ Unconfirmed < e
    BY <1>0, <1>2 DEF RefusedAwaited, EchoesTo
  <2> QED  BY <1>0, <1>1, <2>1, EchoesRead
<1>4. EchoesTo(Chosen("dialer"))'
  BY <1>1, <1>2, <1>3 DEF EchoesTo
<1>5. OnWire("listener")' = Chosen("dialer")' - Unconfirmed' + 1
      /\ wire'["listener"][OnWire("listener")'] = NA
  <2>1. OnWire("listener") = Chosen("dialer") - Unconfirmed + 1
    BY DEF RefusedAwaited
  <2>2. OnWire("listener") - 1 \in 1..(OnWire("listener") - 1)
        /\ (OnWire("listener") - 1) + 1 = OnWire("listener")
    BY <1>0, <2>1
  <2>3. wire'["listener"][OnWire("listener") - 1] = wire["listener"][OnWire("listener")]
    BY <1>1, <2>2 DEF Popped
  <2> QED  BY <1>0, <1>1, <2>1, <2>3 DEF RefusedAwaited
<1>6. Asked(Proposed)' = Asked(Proposed)
  OBVIOUS
<1> QED  BY <1>0, <1>1, <1>4, <1>5, <1>6 DEF RefusedAwaited

LEMMA RefusedAwaitedKept ==
  ASSUME IInv, RefusedAwaited,
         UNCHANGED <<pipeline, stage, tried, chosen, expecting, held, garbled, wire>>,
         phase'["dialer"] = phase["dialer"],
         phase'["listener"] = phase["listener"] \/ Down("listener")'
  PROVE  RefusedAwaited'
<1>1. /\ Chosen("dialer")' = Chosen("dialer") /\ Chosen("listener")' = Chosen("listener")
      /\ OnWire("listener")' = OnWire("listener") /\ Unconfirmed' = Unconfirmed
      /\ Stage("dialer")' = Stage("dialer") /\ Proposed' = Proposed
  BY SameLengths DEF Stage, Unconfirmed, Proposed
<1>2. \A i : Asked(i)' = Asked(i)
  BY AskedSame
<1>3. EchoesTo(Chosen("dialer"))'
  BY <1>1, <1>2 DEF RefusedAwaited, EchoesTo
<1>4. Asked(Proposed)' = Asked(Proposed)
  BY <1>1 DEF Asked, Stage
<1>5. ~Down("listener")' =>
        phase'["listener"] = "select" /\ ~garbled' /\ wire'["dialer"] = <<>>
  BY DEF RefusedAwaited, Down
<1> QED  BY <1>1, <1>3, <1>4, <1>5 DEF RefusedAwaited

\* It reads the refusal, and both sides are in step again.
LEMMA RefusedAwaitedEnds ==
  ASSUME IInv, TypeOK', ListenerView', RefusedAwaited, DialerAwait, ~Down("dialer")'
  PROVE  InStep'
<1>a. Basis
  BY DEF IInv
<1>0. /\ Basis /\ TypeOK /\ Chosen("dialer") \in Nat
      /\ Unconfirmed = Chosen("dialer") /\ Proposed = Chosen("dialer") + 1
      /\ Chosen("dialer") < Stages /\ Chosen("dialer") = stage["dialer"] - 1
      /\ stage["dialer"] \in Nat /\ stage["listener"] \in Nat
  BY <1>a, Awaiting, AwaitEffect, Types DEF Basis
<1>1. wire["listener"][1] = NA /\ OnWire("listener") = 1
  BY AwaitRefused
<1>b. UNCHANGED <<pipeline, stage, tried, expecting, held, garbled, muxRead, muxSent>>
      /\ wire'["dialer"] = wire["dialer"] /\ phase'["listener"] = phase["listener"]
      /\ phase["dialer"] = "await" /\ OnWire("listener")' = OnWire("listener") - 1
  BY <1>a, AwaitEffect
<1>2. phase'["dialer"] = "select" /\ UNCHANGED chosen
  <2>1. Stage("dialer").offers[tried] \in Name
    BY <1>a, AwaitEffect
  <2>2. wire["listener"][1] # Proposal(Stage("dialer").offers[tried])
    BY <1>1, Distinct
  <2>3. phase'["dialer"] \in {"select", "failed"} /\ UNCHANGED chosen
    BY <1>a, <2>2, AwaitEffect
  <2> QED  BY <2>3 DEF Down
<1>3. /\ Chosen("dialer")' = Chosen("dialer") /\ Chosen("listener")' = Chosen("dialer")
      /\ OnWire("listener")' = 0 /\ Unconfirmed' = Chosen("dialer")
      /\ Proposed' = Chosen("dialer")
      /\ Down("listener")' = Down("listener") /\ SentKey("listener")' = SentKey("listener")
      /\ HasRead("dialer")' = HasRead("dialer")
  <2>1. Chosen("dialer")' = Chosen("dialer") /\ Chosen("listener")' = Chosen("listener")
        /\ Expected' = Expected /\ HasRead("dialer")' = HasRead("dialer")
    BY <1>b, <1>2, SameLengths
  <2>2. OnWire("listener")' = 0
    BY <1>1, <1>b
  <2>3. Proposed' = Chosen("dialer")
    BY <1>0, <1>2, <2>1 DEF Proposed, Bit
  <2> QED  BY <1>0, <1>b, <2>1, <2>2, <2>3 DEF RefusedAwaited, Unconfirmed, Down, SentKey
<1>4. muxSent["listener"] = 0 /\ HasRead("dialer") = 0
  <2>1. phase["listener"] \notin {"connected", "broken"}
    <3>1. Chosen("listener") # Stages
      BY <1>0 DEF RefusedAwaited
    <3> QED  BY <1>0, <3>1, Connected
  <2>2. muxSent["listener"] = 0
    BY <1>0, <2>1, Connected, Types
  <2>3. muxRead["dialer"] = <<>>
    BY <1>0, <1>b DEF Basis, Local, Frames, MuxIdle
  <2> QED  BY <1>0, <2>2, <2>3, Lengths
<1>5. EchoesTo(Chosen("listener"))'
  <2>1. \A i \in 1..Chosen("dialer") : Asked(i)' = Asked(i)
    BY <1>0, <1>2, <1>b, AskedSame
  <2>2. \A i \in 1..Chosen("dialer") : chosen'["listener"][i] = Asked(i)'
    BY <1>2, <2>1 DEF RefusedAwaited, EchoesTo
  <2>3. \A i \in (Chosen("dialer") + 1)..Chosen("dialer") : FALSE
    BY <1>0
  <2> QED  BY <1>0, <1>3, <2>2, <2>3 DEF EchoesTo
<1>6. ~Down("listener") => stage["listener"] = stage["dialer"] /\ ~(stage["dialer"] = 1 /\ SentKey("listener"))
  <2> SUFFICES ASSUME ~Down("listener")
               PROVE  stage["listener"] = stage["dialer"] /\ ~(stage["dialer"] = 1 /\ SentKey("listener"))
    OBVIOUS
  <2>1. phase["listener"] = "select" /\ Chosen("listener") = Chosen("dialer")
    BY DEF RefusedAwaited
  <2>2. Chosen("listener") = stage["listener"] - 1
    BY <1>0, <2>1 DEF Basis, Local, Progress
  <2> QED  BY <1>0, <2>1, <2>2 DEF SentKey
<1>7. Written(0)'
  <2>1. /\ Chosen("listener")' = Unconfirmed' /\ Unconfirmed' \in Nat
        /\ OnWire("listener")' = 0 /\ HasRead("dialer")' = 0 /\ muxSent'["listener"] = 0
    BY <1>0, <1>3, <1>4, <1>b
  <2>2. ~Down("listener")' => ~(stage'["dialer"] = 1 /\ SentKey("listener")')
    BY <1>3, <1>6, <1>b
  <2> QED  BY <2>1, <2>2 DEF Written
<1>8. ASSUME ~Down("listener")'
      PROVE  ~garbled' /\ Answering' /\ \E k \in {0, 1} : OnTheWay(k)'
  <2>1. /\ phase["listener"] = "select" /\ ~garbled /\ wire["dialer"] = <<>>
        /\ phase'["listener"] = "select" /\ ~garbled'
    BY <1>3, <1>8, <1>b DEF RefusedAwaited
  <2>2. PICK k \in {0, 1} : Unread(k)'
    BY <1>8, <2>1 DEF ListenerView
  <2>3. OnWire("dialer")' = 0 /\ muxSent'["dialer"] = 0 /\ Held' = 0
    <3>1. OnWire("dialer")' = OnWire("dialer") /\ Held' = Held /\ held = <<>>
      BY <1>b, SameLengths DEF RefusedAwaited
    <3>2. muxSent["dialer"] = 0 /\ muxSent' = muxSent
      BY <1>0, <1>b DEF Basis, Local, Frames, MuxIdle
    <3> QED  BY <1>0, <2>1, <3>1, <3>2, Lengths
  <2>4. k = 0 /\ Ahead(k)' = 0
    <3>1. /\ HasRead("listener")' <= muxSent'["dialer"] /\ Ahead(k)' >= 0
          /\ Ahead(k)' = OnWire("dialer")' - k - (muxSent'["dialer"] - HasRead("listener")')
      BY <2>2 DEF Unread, Ahead
    <3>2. HasRead("listener")' = HasRead("listener") /\ HasRead("listener") \in Nat
      BY <1>0, <1>b, SameLengths, Lengths
    <3> QED  BY <2>3, <3>1, <3>2
  <2>5. Answered' = Chosen("dialer")
    BY <1>0, <1>3, <2>1 DEF Answered, Bit
  <2>6. /\ Answered' + Ahead(k)' + Held' = Proposed'
        /\ \A i \in (Answered' + 1)..(Answered' + Ahead(k)') : FALSE
        /\ \A i \in 1..Held' : FALSE
    BY <1>0, <1>3, <2>3, <2>4, <2>5
  <2>7. OnTheWay(k)'
    BY <2>2, <2>6 DEF OnTheWay
  <2>8. Answering'
    BY <2>1 DEF Answering
  <2> QED  BY <2>1, <2>7, <2>8
<1> QED  BY <1>5, <1>7, <1>8 DEF InStep, EchoesInStep, ProposalsInStep

LEMMA RefusedAwaitedStep ==
  ASSUME IInv, TypeOK', ListenerView', [Next]_vars, ~Down("dialer")', RefusedAwaited
  PROVE  InStep' \/ RefusedAwaited'
<1>0. Basis /\ TypeOK /\ "listener" = Peer("dialer") /\ "dialer" = Peer("listener")
  BY Peers DEF IInv, Basis
<1> USE <1>0
<1>1. phase["dialer"] = "await" /\ held = <<>>
  BY DEF RefusedAwaited
<1>2. ~Down("listener") => phase["listener"] = "select" /\ OnWire("dialer") = 0
  BY Lengths DEF RefusedAwaited
<1>3. CASE DialerPropose \/ DialerFlush \/ SideStep("dialer")
  <2>1. ~DialerPropose /\ ~DialerFlush
    BY <1>1 DEF DialerPropose, DialerFlush
  <2>2. SideStep("dialer") => Ends("dialer")
    BY <1>1 DEF SideStep, SendKey, ReadKey, PassReady, StartMuxer, MuxWrite, MuxRead
  <2> QED  BY <1>3, <2>1, <2>2, EndsEffect
<1>4. CASE DialerConfirm
  <2>1. phase' = phase /\ Expected' = Expected - 1
    BY <1>1, <1>4, ConfirmEffect DEF Down
  <2>2. Unconfirmed' = Unconfirmed + 1 /\ Proposed' = Proposed
    <3>1. Chosen("dialer")' = Chosen("dialer") /\ Chosen("dialer") \in Nat /\ Expected \in Nat
      BY <1>4, ConfirmEffect, SameLengths, Lengths
    <3> QED  BY <2>1, <3>1 DEF Unconfirmed, Proposed
  <2>3. \A i : Asked(i)' = Asked(i)
    BY <1>4, ConfirmEffect, AskedSame
  <2> QED  BY <1>4, <2>1, <2>2, <2>3, RefusedAwaitedRead
<1>5. CASE DialerAwait
  BY <1>5, RefusedAwaitedEnds
<1>6. CASE ListenerReceive \/ ListenerSwallow \/ ListenerAnswer
  BY <1>2, <1>6, ReceiveEffect, SwallowEffect, AnswerEffect DEF Down
<1>7. CASE SideStep("listener")
  <2>1. ~(phase["listener"] \in {"upgrade", "readKey", "connected"})
    BY <1>2 DEF Down
  <2>2. Ends("listener")
    BY <1>7, <2>1 DEF SideStep, SendKey, ReadKey, PassReady, StartMuxer, MuxWrite, MuxRead
  <2> QED  BY <2>2, EndsEffect, RefusedAwaitedKept
<1>8. CASE UNCHANGED vars
  BY <1>8, RefusedAwaitedKept DEF vars
<1> QED  BY <1>3, <1>4, <1>5, <1>6, <1>7, <1>8, Cases

-----------------------------------------------------------------------------
(* DialerView, part by part: in step. *)

\* The listener's wire and what it counts stay as they are.
LEMMA WrittenKept ==
  ASSUME NEW k \in {0, 1}, Written(k), Unconfirmed' = Unconfirmed, Kept("listener"),
         chosen'["listener"] = chosen["listener"], muxRead'["dialer"] = muxRead["dialer"],
         muxSent'["listener"] = muxSent["listener"],
         stage'["dialer"] = 1 <=> stage["dialer"] = 1,
         ~Down("listener")' => ~Down("listener") /\ (SentKey("listener")' <=> SentKey("listener"))
  PROVE  Written(k)'
<1>1. /\ Chosen("listener")' = Chosen("listener") /\ HasRead("dialer")' = HasRead("dialer")
      /\ OnWire("listener")' = OnWire("listener") /\ wire'["listener"] = wire["listener"]
  BY SameLengths DEF Kept
<1> HIDE DEF Kept
<1>2. ~Down("listener")' => (k = 1 <=> stage'["dialer"] = 1 /\ SentKey("listener")')
  BY DEF Written
<1> QED  BY <1>1, <1>2 DEF Written

LEMMA EchoesInStepKept ==
  ASSUME Basis, EchoesInStep, Unconfirmed' = Unconfirmed, Kept("listener"),
         chosen'["listener"] = chosen["listener"], muxRead'["dialer"] = muxRead["dialer"],
         muxSent'["listener"] = muxSent["listener"],
         Proposed' \in Nat, Proposed' >= Proposed, \A i \in 1..Proposed : Asked(i)' = Asked(i),
         stage'["dialer"] = 1 <=> stage["dialer"] = 1,
         ~Down("listener")' => ~Down("listener") /\ (SentKey("listener")' <=> SentKey("listener"))
  PROVE  EchoesInStep'
<1>1. PICK k \in {0, 1} : Written(k)
  BY DEF EchoesInStep
<1>2. Written(k)'
  BY <1>1, WrittenKept
<1>3. PICK e \in Nat : e = Chosen("listener")
  BY ViewNumbers
<1>4. /\ Chosen("listener")' = Chosen("listener") /\ OnWire("listener")' = OnWire("listener")
      /\ wire'["listener"] = wire["listener"]
  BY SameLengths DEF Kept
<1>5. EchoesTo(e) /\ e <= Proposed /\ OnWire("listener") \in Nat /\ Proposed \in Nat
  BY <1>3, ViewNumbers DEF EchoesInStep, EchoesTo
<1>6. e <= Proposed' /\ \A i \in 1..e : Asked(i)' = Asked(i)
  BY <1>5
<1>7. EchoesTo(e)'
  BY <1>3, <1>4, <1>5, <1>6, EchoesKept
<1> QED  BY <1>2, <1>3, <1>4, <1>7 DEF EchoesInStep, EchoesTo

\* The dialer reads an echo.
LEMMA EchoesInStepRead ==
  ASSUME Basis, EchoesInStep, Unconfirmed < Chosen("listener"), Unconfirmed' = Unconfirmed + 1,
         Popped("listener"), UNCHANGED <<stage, muxRead, muxSent>>,
         chosen'["listener"] = chosen["listener"], phase'["listener"] = phase["listener"],
         Proposed' = Proposed, \A i \in 1..Proposed : Asked(i)' = Asked(i)
  PROVE  EchoesInStep'
<1>1. PICK k \in {0, 1} : Written(k)
  BY DEF EchoesInStep
<1>2. /\ Chosen("listener")' = Chosen("listener") /\ OnWire("listener")' = OnWire("listener") - 1
      /\ HasRead("dialer")' = HasRead("dialer") /\ SentKey("listener")' = SentKey("listener")
      /\ Down("listener")' = Down("listener")
  BY SameLengths DEF Popped, SentKey, Down
<1>3. PICK e \in Nat : e = Chosen("listener")
  BY ViewNumbers
<1>4. /\ EchoesTo(e) /\ e <= Proposed /\ OnWire("listener") \in Nat /\ Proposed \in Nat
      /\ Unconfirmed \in Nat /\ HasRead("dialer") \in Nat /\ muxSent["listener"] \in Nat
      /\ e - Unconfirmed <= OnWire("listener")
  BY <1>3, ViewNumbers DEF EchoesInStep, EchoesTo
<1>5. EchoesTo(e)'
  BY <1>3, <1>4, EchoesRead
<1>6. Written(k)'
  <2>1. OnWire("listener") + HasRead("dialer") = e - Unconfirmed + k + muxSent["listener"]
        /\ HasRead("dialer") <= muxSent["listener"]
    BY <1>1, <1>3 DEF Written
  <2>2. OnWire("listener")' + HasRead("dialer")' = e - Unconfirmed' + k + muxSent'["listener"]
        /\ HasRead("dialer")' <= muxSent'["listener"]
    BY <1>2, <1>4, <2>1
  <2>3. k = 1 => wire'["listener"][e - Unconfirmed' + 1] = Key("listener")
    <3> SUFFICES ASSUME k = 1 PROVE wire'["listener"][e - Unconfirmed' + 1] = Key("listener")
      OBVIOUS
    <3>1. /\ e - Unconfirmed \in 1..(OnWire("listener") - 1)
          /\ e - Unconfirmed' + 1 = e - Unconfirmed
      BY <1>3, <1>4, <2>1
    <3>2. wire["listener"][e - Unconfirmed + 1] = Key("listener")
      BY <1>1, <1>3 DEF Written
    <3> QED  BY <3>1, <3>2 DEF Popped
  <2>4. /\ k = 1 => stage'["dialer"] = 1 /\ e = 1
        /\ ~Down("listener")' => (k = 1 <=> stage'["dialer"] = 1 /\ SentKey("listener")')
    BY <1>1, <1>2, <1>3 DEF Written
  <2> QED  BY <1>2, <1>3, <2>2, <2>3, <2>4 DEF Written
<1> QED  BY <1>2, <1>3, <1>5, <1>6 DEF EchoesInStep, EchoesTo

LEMMA AnsweringNext ==
  ASSUME NEW q, Asked(Chosen("listener") + 1)' = q, Chosen("listener")' < Proposed',
         answer' = IF Accepts(q)' THEN Proposal(q) ELSE NA
  PROVE  Answering'
BY DEF Answering, Accepts

\* The listener answers the same proposal.
LEMMA AnsweringKept ==
  ASSUME Basis, Answering, UNCHANGED <<pipeline, answer>>, Proposed' \in Nat,
         phase'["listener"] = "answer" => /\ phase["listener"] = "answer"
                                          /\ stage'["listener"] = stage["listener"],
         chosen'["listener"] = chosen["listener"], Proposed' >= Proposed,
         \A i \in 1..Proposed : Asked(i)' = Asked(i)
  PROVE  Answering'
<1> SUFFICES ASSUME phase'["listener"] = "answer" PROVE Answering'
  BY DEF Answering
<1>1. PICK p : p = Asked(Chosen("listener") + 1)
  OBVIOUS
<1>2. /\ Chosen("listener") < Proposed /\ answer = IF Accepts(p) THEN Proposal(p) ELSE NA
      /\ Chosen("listener") \in Nat /\ Proposed \in Nat /\ Chosen("listener")' = Chosen("listener")
  BY <1>1, ViewNumbers, SameLengths DEF Answering
<1>3. Chosen("listener") + 1 \in 1..Proposed /\ Chosen("listener") < Proposed'
  BY <1>2
<1>4. Asked(Chosen("listener") + 1)' = p
  BY <1>1, <1>2, <1>3 DEF Asked
<1>5. Accepts(p)' = Accepts(p)
  BY DEF Accepts, Stage
<1> QED  BY <1>2, <1>3, <1>4, <1>5 DEF Answering, Accepts, Stage

LEMMA OnTheWayNumbers ==
  ASSUME Basis, TypeOK', NEW k \in {0, 1}, OnTheWay(k)
  PROVE  /\ Ahead(k) \in Nat /\ OnWire("dialer") \in Nat /\ Answered \in Nat /\ Held \in Nat
         /\ Proposed \in Nat /\ Chosen("listener") \in Nat /\ k + Ahead(k) <= OnWire("dialer")
         /\ Answered + Ahead(k) + Held = Proposed /\ Unread(k)
<1>0. TypeOK /\ Unread(k) /\ Answered + Ahead(k) + Held = Proposed
  BY DEF Basis, OnTheWay
<1>1. /\ Ahead(k) \in Nat /\ HasRead("listener") <= muxSent["dialer"]
      /\ OnWire("dialer") = k + Ahead(k) + (muxSent["dialer"] - HasRead("listener"))
  BY <1>0, UnreadCounts
<1>2. /\ OnWire("dialer") \in Nat /\ Answered \in Nat /\ Held \in Nat
      /\ Proposed \in Nat /\ Chosen("listener") \in Nat /\ HasRead("listener") \in Nat
      /\ muxSent["dialer"] \in Nat
  BY <1>0, UnreadNumbers
<1> QED  BY <1>0, <1>1, <1>2

\* With the numbers it will have.
LEMMA OnTheWayNext ==
  ASSUME NEW k \in {0, 1}, NEW n \in Nat, NEW a \in Nat, NEW h \in Nat, Unread(k)',
         Answered' = n, Ahead(k)' = a, Held' = h, Proposed' = n + a + h,
         \A i \in (n + 1)..(n + a) :
            wire'["dialer"][i - n + IF i > 1 THEN k ELSE 0] = Proposal(Asked(i)'),
         \A i \in 1..h : \A j \in Nat : j = n + a + i => held'[i] = Proposal(Asked(j)')
  PROVE  OnTheWay(k)'
<1>1. \A i \in 1..h : held'[i] = Proposal(Asked(Proposed - Held + i)')
  <2> SUFFICES ASSUME NEW i \in 1..h
               PROVE  held'[i] = Proposal(Asked(Proposed - Held + i)')
    OBVIOUS
  <2>1. PICK j \in Nat : j = n + a + i
    OBVIOUS
  <2>2. held'[i] = Proposal(Asked(j)') /\ (Proposed - Held + i)' = j
    BY <2>1
  <2> QED  BY <2>2 DEF Asked
<1> QED  BY <1>1 DEF OnTheWay, Asked

\* What is on its way to the listener stays as it is.
LEMMA ProposalsKept ==
  ASSUME Basis, TypeOK', ProposalsInStep, UNCHANGED <<pipeline, held, garbled, answer>>,
         ~Down("listener")' => /\ ~Down("listener")
                               /\ phase'["listener"] = "answer" <=> phase["listener"] = "answer",
         phase'["listener"] = "answer" => stage'["listener"] = stage["listener"],
         chosen'["listener"] = chosen["listener"], Proposed' = Proposed,
         \A i \in 1..Proposed : Asked(i)' = Asked(i),
         \A i \in 1..OnWire("dialer") : wire'["dialer"][i] = wire["dialer"][i],
         ~Down("listener") /\ ~garbled =>
            \A k \in {0, 1} : Unread(k) => Unread(k)' /\ Ahead(k)' = Ahead(k)
  PROVE  ProposalsInStep'
<1> SUFFICES ASSUME ~Down("listener")'
             PROVE  ~garbled' /\ Answering' /\ \E k \in {0, 1} : OnTheWay(k)'
  BY DEF ProposalsInStep
<1>1. ~Down("listener") /\ ~garbled /\ Answering /\ ~garbled'
  BY DEF ProposalsInStep
<1>2. PICK k \in {0, 1} : OnTheWay(k)
  BY <1>1 DEF ProposalsInStep
<1>3. Unread(k)' /\ Ahead(k)' = Ahead(k)
  BY <1>1, <1>2 DEF OnTheWay
<1>4. Held' = Held /\ Answered' = Answered
  BY <1>1, SameLengths DEF Answered
<1>5. /\ Ahead(k) \in Nat /\ OnWire("dialer") \in Nat /\ Answered \in Nat /\ Held \in Nat
      /\ Proposed \in Nat /\ k + Ahead(k) <= OnWire("dialer") /\ Chosen("listener") \in Nat
      /\ Answered + Ahead(k) + Held = Proposed
  BY <1>2, OnTheWayNumbers
<1>6. Answering'
  BY <1>1, <1>5, AnsweringKept
<1>7. PICK n \in Nat, a \in Nat, h \in Nat : n = Answered /\ a = Ahead(k) /\ h = Held
  BY <1>5
<1>8. \A i \in (n + 1)..(n + a) :
        wire'["dialer"][i - n + IF i > 1 THEN k ELSE 0] = Proposal(Asked(i)')
  <2> SUFFICES ASSUME NEW i \in (n + 1)..(n + a)
               PROVE  wire'["dialer"][i - n + IF i > 1 THEN k ELSE 0] = Proposal(Asked(i)')
    OBVIOUS
  <2>1. i \in 1..Proposed /\ (i - n + IF i > 1 THEN k ELSE 0) \in 1..OnWire("dialer")
    BY <1>5, <1>7
  <2>2. wire["dialer"][i - n + IF i > 1 THEN k ELSE 0] = Proposal(Asked(i))
    BY <1>2, <1>7 DEF OnTheWay
  <2> QED  BY <2>1, <2>2
<1>9. \A i \in 1..h : \A j \in Nat : j = n + a + i => held'[i] = Proposal(Asked(j)')
  <2> SUFFICES ASSUME NEW i \in 1..h, NEW j \in Nat, j = n + a + i
               PROVE  held'[i] = Proposal(Asked(j)')
    OBVIOUS
  <2>1. j = Proposed - Held + i /\ j \in 1..Proposed
    BY <1>5, <1>7
  <2>2. held[i] = Proposal(Asked(j))
    BY <1>2, <1>7, <2>1 DEF OnTheWay
  <2> QED  BY <2>1, <2>2
<1>10. OnTheWay(k)'
  <2>1. Answered' = n /\ Ahead(k)' = a /\ Held' = h /\ Proposed' = n + a + h
    BY <1>3, <1>4, <1>5, <1>7
  <2>2. Unread(k)'
    BY <1>3
  <2> QED  BY ONLY <2>1, <2>2, <1>8, <1>9, OnTheWayNext, k \in {0, 1}, n \in Nat, a \in Nat, h \in Nat
<1> QED  BY <1>1, <1>6, <1>10

LEMMA AheadKept ==
  ASSUME wire'["dialer"] = wire["dialer"], muxSent'["dialer"] = muxSent["dialer"],
         muxRead'["listener"] = muxRead["listener"]
  PROVE  \A k : Ahead(k)' = Ahead(k)
<1>1. OnWire("dialer")' = OnWire("dialer") /\ HasRead("listener")' = HasRead("listener")
  BY SameLengths
<1> QED  BY <1>1 DEF Ahead

\* Steps of the dialer that write no proposal.
LEMMA DialerProposals ==
  ASSUME IInv, TypeOK', InStep, Proposed' = Proposed, \A i \in 1..Proposed : Asked(i)' = Asked(i),
         \/ DialerAwait \/ DialerConfirm \/ ReadKey("dialer") \/ PassReady("dialer")
         \/ StartMuxer("dialer") \/ MuxRead("dialer") \/ MuxWrite("dialer")
  PROVE  ProposalsInStep'
<1>0. Basis /\ TypeOK /\ "listener" = Peer("dialer") /\ ProposalsInStep
  BY Peers DEF IInv, Basis, InStep
<1> USE <1>0
<1>1. /\ UNCHANGED <<pipeline, answer, garbled>>
      /\ phase'["listener"] = phase["listener"] /\ stage'["listener"] = stage["listener"]
      /\ chosen'["listener"] = chosen["listener"] /\ muxRead'["listener"] = muxRead["listener"]
  BY ListenerUntouched DEF SideStep
<1>2. CASE MuxWrite("dialer")
  <2>1. held' = held /\ \A i \in 1..OnWire("dialer") : wire'["dialer"][i] = wire["dialer"][i]
    BY <1>2, MuxWriteEffect
  <2>2. \A k \in {0, 1} : Unread(k) => Unread(k)' /\ Ahead(k)' = Ahead(k)
    BY <1>2, MuxWriteUnread
  <2> QED  BY <1>1, <2>1, <2>2, ProposalsKept DEF Down
<1>3. CASE \/ DialerAwait \/ DialerConfirm \/ ReadKey("dialer") \/ PassReady("dialer")
           \/ StartMuxer("dialer") \/ MuxRead("dialer")
  <2>1. held' = held /\ wire'["dialer"] = wire["dialer"] /\ muxSent'["dialer"] = muxSent["dialer"]
    BY <1>3, AwaitEffect, ConfirmEffect, ReadKeyEffect, PassEffect, StartEffect, MuxReadEffect
  <2>2. \A k \in {0, 1} : Ahead(k)' = Ahead(k)
    BY <1>1, <2>1, AheadKept
  <2>3. ~Down("listener") /\ ~garbled => \A k \in {0, 1} : Unread(k) => Unread(k)'
    BY <1>3, AwaitUnread, DialerUnread
  <2> QED  BY <1>1, <2>1, <2>2, <2>3, ProposalsKept DEF Down
<1> QED  BY <1>2, <1>3

\* Steps of the dialer that read nothing.
LEMMA DialerEchoes ==
  ASSUME IInv, TypeOK', InStep, Proposed' >= Proposed, \A i \in 1..Proposed : Asked(i)' = Asked(i),
         \/ DialerPropose \/ DialerFlush \/ SendKey("dialer") \/ PassReady("dialer")
         \/ StartMuxer("dialer") \/ MuxWrite("dialer")
  PROVE  EchoesInStep'
<1>0. Basis /\ TypeOK /\ "listener" = Peer("dialer") /\ EchoesInStep
  BY Peers DEF IInv, Basis, InStep
<1> USE <1>0
<1>1. /\ phase'["listener"] = phase["listener"] /\ stage'["listener"] = stage["listener"]
      /\ chosen'["listener"] = chosen["listener"] /\ muxSent'["listener"] = muxSent["listener"]
  BY ListenerUntouched DEF SideStep
<1>2. /\ SentKey("listener")' = SentKey("listener") /\ Down("listener")' = Down("listener")
      /\ Proposed' \in Nat
  BY <1>1, NumbersNext DEF SentKey, Down
<1>3. Kept("listener") /\ muxRead'["dialer"] = muxRead["dialer"]
  <2>1. CASE DialerPropose \/ DialerFlush
    BY <2>1, ProposeEffect, FlushEffect DEF Kept
  <2>2. CASE SendKey("dialer") \/ PassReady("dialer") \/ StartMuxer("dialer") \/ MuxWrite("dialer")
    BY <2>2, SendKeyEffect, PassEffect, StartEffect, MuxWriteEffect DEF Kept
  <2> QED  BY <2>1, <2>2
<1>4. stage'["dialer"] = 1 <=> stage["dialer"] = 1
  <2>1. stage["dialer"] \in Nat
    BY Types
  <2>2. \/ stage' = stage
        \/ stage["dialer"] > 1 /\ stage'["dialer"] = stage["dialer"] + 1
    <3>1. CASE PassReady("dialer")
      BY <3>1, PassEffect
    <3>2. CASE \/ DialerPropose \/ DialerFlush
               \/ SendKey("dialer") \/ StartMuxer("dialer") \/ MuxWrite("dialer")
      BY <3>2, ProposeEffect, FlushEffect, SendKeyEffect, StartEffect, MuxWriteEffect
    <3> QED  BY <3>1, <3>2
  <2> QED  BY <2>1, <2>2
<1>5. Unconfirmed' = Unconfirmed
  <2>1. CASE DialerPropose
    <3>1. Chosen("dialer") \in Nat /\ Expected \in Nat
      BY Lengths
    <3>2. \/ Chosen("dialer")' = Chosen("dialer") /\ Expected' = Expected
          \/ Chosen("dialer")' = Chosen("dialer") + 1 /\ Expected' = Expected + 1
      BY <2>1, ProposeEffect, SameLengths
    <3> QED  BY <3>1, <3>2 DEF Unconfirmed
  <2>2. CASE \/ DialerFlush \/ SendKey("dialer") \/ PassReady("dialer")
             \/ StartMuxer("dialer") \/ MuxWrite("dialer")
    <3>1. chosen'["dialer"] = chosen["dialer"] /\ expecting' = expecting
      BY <2>2, FlushEffect, SendKeyEffect, PassEffect, StartEffect, MuxWriteEffect
    <3> QED  BY <3>1, SameLengths DEF Unconfirmed
  <2> QED  BY <2>1, <2>2
<1> QED  BY <1>1, <1>2, <1>3, <1>4, <1>5, EchoesInStepKept

\* The dialer reads the listener's key, after the echo of the first stage.
LEMMA KeyReadEchoes ==
  ASSUME IInv, TypeOK', InStep, ReadKey("dialer"), Proposed' = Proposed,
         \A i \in 1..Proposed : Asked(i)' = Asked(i)
  PROVE  EchoesInStep'
<1>0. Basis /\ TypeOK /\ "listener" = Peer("dialer") /\ EchoesInStep
      /\ Chosen("listener") = 1 /\ Unconfirmed = 1
  BY Peers, DialerReadsKey DEF IInv, Basis, InStep
<1>1. /\ phase["dialer"] = "readKey" /\ stage["dialer"] = 1 /\ stage'["dialer"] = 2
      /\ phase'["listener"] = phase["listener"] /\ stage'["listener"] = stage["listener"]
      /\ UNCHANGED <<chosen, expecting, muxRead, muxSent>> /\ Popped("listener")
      /\ wire["listener"][1] = Key("listener")
  BY <1>0, ReadKeyEffect DEF Popped
<1>2. /\ Chosen("listener")' = 1 /\ Unconfirmed' = 1 /\ HasRead("dialer")' = HasRead("dialer")
      /\ OnWire("listener")' = OnWire("listener") - 1 /\ OnWire("listener") > 0
  BY <1>0, <1>1, SameLengths DEF Unconfirmed, Popped
<1>3. PICK k \in {0, 1} : Written(k)
  BY <1>0 DEF EchoesInStep
<1>4. /\ OnWire("listener") \in Nat /\ HasRead("dialer") \in Nat
      /\ muxSent["listener"] \in Nat /\ Proposed \in Nat
  BY <1>0, ViewNumbers
<1>5. k = 1
  <2> SUFFICES ASSUME k = 0 PROVE FALSE
    OBVIOUS
  <2>1. /\ OnWire("listener") + HasRead("dialer") = muxSent["listener"]
        /\ ~Down("listener") => ~SentKey("listener")
    BY <1>0, <1>1, <1>3, <1>4 DEF Written
  <2>2. Down("listener")
    BY <2>1, DialerReadsKey
  <2>3. OnWire("listener") - 1 < muxSent["listener"]
    BY <1>2, <1>4, <2>1
  <2>4. wire["listener"][1].kind = "mux"
    <3>1. MuxLast("listener")
      BY <1>0 DEF Basis, Local, Frames
    <3>2. wire["listener"][1] = MuxFrame("listener", muxSent["listener"] - (OnWire("listener") - 1))
      BY <1>2, <1>4, <2>3, <3>1 DEF MuxLast
    <3> QED  BY <3>2, TokenKinds
  <2> QED  BY <1>1, <2>4, TokenKinds
<1>6. Written(0)'
  <2>1. /\ OnWire("listener") + HasRead("dialer") = 1 + muxSent["listener"]
        /\ HasRead("dialer") <= muxSent["listener"]
    BY <1>0, <1>3, <1>4, <1>5 DEF Written
  <2>2. OnWire("listener")' + HasRead("dialer")' = muxSent'["listener"]
    BY <1>1, <1>2, <1>4, <2>1
  <2>3. Chosen("listener")' - Unconfirmed' + 0 + muxSent'["listener"] = muxSent'["listener"]
    BY <1>1, <1>2, <1>4
  <2> QED  BY <1>1, <1>2, <2>1, <2>2, <2>3 DEF Written
<1>7. EchoesTo(Chosen("listener"))'
  <2>1. /\ chosen["listener"][1] = Asked(1) /\ 1 <= Proposed
    BY <1>0 DEF EchoesInStep, EchoesTo
  <2>2. Asked(1)' = Asked(1)
    BY <1>4, <2>1
  <2>3. \A i \in 1..1 : chosen'["listener"][i] = Asked(i)'
    BY <1>1, <2>1, <2>2
  <2>4. 1 - Unconfirmed' <= OnWire("listener")' /\ \A i \in (Unconfirmed' + 1)..1 : FALSE
    BY <1>2, <1>4
  <2> QED  BY <1>2, <2>1, <2>3, <2>4 DEF EchoesTo
<1> QED  BY <1>6, <1>7 DEF EchoesInStep

\* Its muxer reads once every echo has been read.
LEMMA MuxReadEchoes ==
  ASSUME IInv, TypeOK', InStep, MuxRead("dialer"), Proposed' = Proposed,
         \A i \in 1..Proposed : Asked(i)' = Asked(i)
  PROVE  EchoesInStep'
<1>0. Basis /\ TypeOK /\ "listener" = Peer("dialer") /\ EchoesInStep
  BY Peers DEF IInv, Basis, InStep
<1>1. /\ phase["dialer"] = "connected" /\ expecting = <<>>
      /\ UNCHANGED <<stage, phase, chosen, expecting, muxSent>>
      /\ OnWire("listener") > 0 /\ OnWire("listener")' = OnWire("listener") - 1
      /\ wire["listener"][1] = MuxFrame("listener", HasRead("dialer") + 1)
      /\ HasRead("dialer")' = HasRead("dialer") + 1
  BY <1>0, MuxReadEffect
<1>2. /\ Chosen("listener")' = Chosen("listener") /\ Unconfirmed' = Unconfirmed
      /\ SentKey("listener")' = SentKey("listener") /\ Down("listener")' = Down("listener")
  BY <1>1, SameLengths DEF Unconfirmed, SentKey, Down
<1>3. PICK k \in {0, 1} : Written(k)
  BY <1>0 DEF EchoesInStep
<1>4. /\ OnWire("listener") \in Nat /\ HasRead("dialer") \in Nat /\ muxSent["listener"] \in Nat
      /\ Proposed \in Nat /\ Unconfirmed \in Nat /\ Chosen("listener") \in Nat
      /\ Chosen("dialer") \in Nat /\ Expected = 0 /\ stage["dialer"] > 1
  <2>1. expecting = <<>> => Expected = 0
    BY <1>0, Lengths
  <2>2. stage["dialer"] > 1
    BY <1>0, <1>1, Connected
  <2> QED  BY <1>0, <1>1, <2>1, <2>2, ViewNumbers
<1>5. Unconfirmed = Chosen("dialer") /\ Proposed = Chosen("dialer")
  BY <1>1, <1>4 DEF Unconfirmed, Proposed, Bit
<1>6. Chosen("listener") = Unconfirmed
  BY <1>0, <1>4, <1>5 DEF EchoesInStep, EchoesTo
<1>7. k = 0 /\ OnWire("listener") + HasRead("dialer") = muxSent["listener"]
  BY <1>3, <1>4, <1>6 DEF Written
<1>8. Written(k)'
  <2>1. /\ OnWire("listener")' + HasRead("dialer")' = muxSent'["listener"]
        /\ HasRead("dialer")' <= muxSent'["listener"]
    BY <1>1, <1>4, <1>7
  <2>2. ~Down("listener")' => ~(stage'["dialer"] = 1 /\ SentKey("listener")')
    BY <1>1, <1>4
  <2>3. Chosen("listener")' - Unconfirmed' + k + muxSent'["listener"] = muxSent'["listener"]
    BY <1>1, <1>2, <1>4, <1>6, <1>7
  <2> QED  BY <1>7, <2>1, <2>2, <2>3 DEF Written
<1>9. PICK e \in Nat : e = Chosen("listener")
  BY <1>4
<1>10. EchoesTo(e)'
  <2>1. \A i \in 1..e : chosen["listener"][i] = Asked(i) /\ i <= Proposed
    BY <1>0, <1>4, <1>9 DEF EchoesInStep, EchoesTo
  <2>2. \A i \in 1..e : chosen'["listener"][i] = Asked(i)'
    BY <1>1, <1>4, <2>1
  <2>3. /\ Unconfirmed' <= e /\ e <= Chosen("listener")' /\ e <= Proposed'
        /\ e - Unconfirmed' <= OnWire("listener")'
        /\ \A i \in (Unconfirmed' + 1)..e : FALSE
    BY <1>1, <1>2, <1>4, <1>5, <1>6, <1>9
  <2> QED  BY <2>2, <2>3 DEF EchoesTo
<1> QED  BY <1>2, <1>8, <1>9, <1>10 DEF EchoesInStep, EchoesTo

\* The proposal that is made is the one asked for last.
LEMMA NewestAsked ==
  ASSUME Basis, DialerPropose, NEW j, j = Proposed + 1
  PROVE  Asked(j)' = Stage("dialer").offers[tried + 1]
<1>1. /\ phase["dialer"] = "select" /\ tried' = tried + 1
      /\ Stage("dialer")' = Stage("dialer")
      /\ \/ /\ Chosen("dialer")' = Chosen("dialer") + 1
            /\ chosen'["dialer"][Chosen("dialer") + 1] = Stage("dialer").offers[tried + 1]
         \/ UNCHANGED chosen
  BY ProposeEffect DEF Stage
<1>2. Proposed = Chosen("dialer") /\ Chosen("dialer") \in Nat
  BY <1>1, ViewNumbers DEF Proposed, Bit
<1>3. CASE Chosen("dialer")' = Chosen("dialer") + 1
           /\ chosen'["dialer"][Chosen("dialer") + 1] = Stage("dialer").offers[tried + 1]
  BY <1>2, <1>3 DEF Asked
<1>4. CASE UNCHANGED chosen
  <2>1. Chosen("dialer")' = Chosen("dialer")
    BY <1>4, SameLengths
  <2>2. ~(j <= Chosen("dialer")')
    BY <1>2, <2>1
  <2> QED  BY <1>1, <2>2 DEF Asked
<1> QED  BY <1>1, <1>3, <1>4

LEMMA ProposeInStep ==
  ASSUME IInv, TypeOK', ProposalsInStep, DialerPropose, Proposed' = Proposed + 1,
         \A i \in 1..Proposed : Asked(i)' = Asked(i)
  PROVE  ProposalsInStep'
<1> SUFFICES ASSUME ~Down("listener")'
             PROVE  ~garbled' /\ Answering' /\ \E k \in {0, 1} : OnTheWay(k)'
  BY DEF ProposalsInStep
<1>0. Basis /\ TypeOK
  BY DEF IInv, Basis
<1>1. PICK p : p = Stage("dialer").offers[tried + 1]
  OBVIOUS
<1>2. /\ UNCHANGED <<pipeline, stage, answer, garbled, wire, muxRead, muxSent>>
      /\ phase'["listener"] = phase["listener"] /\ chosen'["listener"] = chosen["listener"]
      /\ Held' = Held + 1 /\ held'[Held + 1] = Proposal(p)
      /\ \A i \in 1..Held : held'[i] = held[i]
  BY <1>0, <1>1, ProposeEffect
<1>3. ~Down("listener") /\ ~garbled /\ Answering /\ ~garbled' /\ Answered' = Answered
  BY <1>2, SameLengths DEF ProposalsInStep, Down, Answered
<1>4. PICK k \in {0, 1} : OnTheWay(k)
  BY <1>3 DEF ProposalsInStep
<1>5. /\ Ahead(k) \in Nat /\ OnWire("dialer") \in Nat /\ Answered \in Nat /\ Held \in Nat
      /\ Proposed \in Nat /\ k + Ahead(k) <= OnWire("dialer") /\ Chosen("listener") \in Nat
      /\ Answered + Ahead(k) + Held = Proposed /\ Unread(k)
  BY <1>0, <1>4, OnTheWayNumbers
<1>6. Answering'
  <2>1. Proposed' \in Nat /\ Proposed' >= Proposed
    BY <1>5
  <2> QED  BY <1>0, <1>2, <1>3, <2>1, AnsweringKept
<1>7. PICK n \in Nat, a \in Nat, h \in Nat : n = Answered /\ a = Ahead(k) /\ h = Held + 1
  BY <1>5
<1>8. Unread(k)'
  BY <1>5, ProposeUnread
<1>9. Ahead(k)' = Ahead(k)
  BY <1>2, AheadKept
<1>10. \A i \in (n + 1)..(n + a) :
        wire'["dialer"][i - n + IF i > 1 THEN k ELSE 0] = Proposal(Asked(i)')
  <2> SUFFICES ASSUME NEW i \in (n + 1)..(n + a)
               PROVE  wire'["dialer"][i - n + IF i > 1 THEN k ELSE 0] = Proposal(Asked(i)')
    OBVIOUS
  <2>1. i \in 1..Proposed
    BY <1>5, <1>7
  <2>2. wire["dialer"][i - n + IF i > 1 THEN k ELSE 0] = Proposal(Asked(i))
    BY <1>4, <1>7 DEF OnTheWay
  <2> QED  BY <1>2, <2>1, <2>2
<1>11. \A i \in 1..h : \A j \in Nat : j = n + a + i => held'[i] = Proposal(Asked(j)')
  <2> SUFFICES ASSUME NEW i \in 1..h, NEW j \in Nat, j = n + a + i
               PROVE  held'[i] = Proposal(Asked(j)')
    OBVIOUS
  <2>1. CASE i \in 1..Held
    <3>1. j = Proposed - Held + i /\ j \in 1..Proposed
      BY <1>5, <1>7, <2>1
    <3>2. held[i] = Proposal(Asked(j))
      BY <1>4, <2>1, <3>1 DEF OnTheWay
    <3> QED  BY <1>2, <2>1, <3>1, <3>2
  <2>2. CASE i = Held + 1
    <3>1. j = Proposed + 1
      BY <1>5, <1>7, <2>2
    <3>2. Asked(j)' = p
      BY <1>0, <1>1, <3>1, NewestAsked
    <3> QED  BY <1>2, <2>2, <3>2
  <2> QED  BY <1>5, <1>7, <2>1, <2>2
<1>12. OnTheWay(k)'
  <2>1. Answered' = n /\ Ahead(k)' = a /\ Held' = h /\ Proposed' = n + a + h
    BY <1>2, <1>3, <1>5, <1>7, <1>9
  <2> QED  BY ONLY <2>1, <1>8, <1>10, <1>11, OnTheWayNext, k \in {0, 1}, n \in Nat, a \in Nat, h \in Nat
<1> QED  BY <1>3, <1>6, <1>12

LEMMA FlushInStep ==
  ASSUME IInv, TypeOK', ProposalsInStep, DialerFlush, Proposed' = Proposed,
         \A i \in 1..Proposed : Asked(i)' = Asked(i)
  PROVE  ProposalsInStep'
<1> SUFFICES ASSUME ~Down("listener")'
             PROVE  ~garbled' /\ Answering' /\ \E k \in {0, 1} : OnTheWay(k)'
  BY DEF ProposalsInStep
<1>0. Basis /\ TypeOK /\ Holding
  BY DEF IInv, Basis, DialerLocal
<1>1. /\ Held > 0 /\ Held' = Held - 1 /\ \A i \in 1..(Held - 1) : held'[i] = held[i + 1]
      /\ OnWire("dialer")' = OnWire("dialer") + 1
      /\ wire'["dialer"][OnWire("dialer") + 1] = held[1]
      /\ \A i \in 1..OnWire("dialer") : wire'["dialer"][i] = wire["dialer"][i]
      /\ UNCHANGED <<pipeline, stage, phase, chosen, answer, garbled, muxRead, muxSent>>
  BY <1>0, FlushEffect
<1>2. /\ ~Down("listener") /\ ~garbled /\ Answering /\ ~garbled' /\ Answered' = Answered
      /\ HasRead("listener")' = HasRead("listener")
  BY <1>1, SameLengths DEF ProposalsInStep, Down, Answered
<1>3. PICK k \in {0, 1} : OnTheWay(k)
  BY <1>2 DEF ProposalsInStep
<1>4. /\ Ahead(k) \in Nat /\ OnWire("dialer") \in Nat /\ Answered \in Nat /\ Held \in Nat
      /\ Proposed \in Nat /\ Chosen("listener") \in Nat
      /\ Answered + Ahead(k) + Held = Proposed /\ Unread(k)
  BY <1>0, <1>3, OnTheWayNumbers
<1>5. OnWire("dialer") = k + Ahead(k) /\ Ahead(k)' = Ahead(k) + 1
  <2>1. muxSent["dialer"] = 0
    BY <1>0, <1>1, Lengths DEF Holding
  <2>2. /\ OnWire("dialer") = k + Ahead(k) + (muxSent["dialer"] - HasRead("listener"))
        /\ HasRead("listener") <= muxSent["dialer"] /\ HasRead("listener") \in Nat
    BY <1>0, <1>4, UnreadCounts, Lengths
  <2>3. HasRead("listener") = 0
    BY <2>1, <2>2
  <2>4. Ahead(k)' = OnWire("dialer")' - k - (muxSent'["dialer"] - HasRead("listener")')
    BY DEF Ahead
  <2> QED  BY <1>1, <1>2, <1>4, <2>1, <2>2, <2>3, <2>4
<1>6. k = 1 => Answered # 0
  <2> SUFFICES ASSUME k = 1, Answered = 0 PROVE FALSE
    OBVIOUS
  <2>1. Chosen("listener") = 0
    BY <1>4 DEF Answered, Bit
  <2>2. stage["dialer"] = 1
    BY <2>1, FirstStage
  <2>3. Down("dialer") \/ SentKey("dialer")
    BY <1>4 DEF Unread
  <2>4. phase["dialer"] = "readKey" \/ Down("dialer")
    BY <2>2, <2>3 DEF SentKey
  <2> QED  BY <1>0, <1>1, <2>2, <2>4, Lengths DEF DialerFlush, Down, Holding
<1>7. Answering'
  BY <1>0, <1>1, <1>2, <1>4, AnsweringKept
<1>8. PICK n \in Nat, a \in Nat, h \in Nat : n = Answered /\ a = Ahead(k) + 1 /\ h = Held - 1
  BY <1>1, <1>4
<1>9. Unread(k)'
  BY <1>4, FlushUnread
<1>10. \A i \in (n + 1)..(n + a) :
        wire'["dialer"][i - n + IF i > 1 THEN k ELSE 0] = Proposal(Asked(i)')
  <2> SUFFICES ASSUME NEW i \in (n + 1)..(n + a)
               PROVE  wire'["dialer"][i - n + IF i > 1 THEN k ELSE 0] = Proposal(Asked(i)')
    OBVIOUS
  <2>0. i \in 1..Proposed
    BY <1>1, <1>4, <1>8
  <2>1. CASE i # n + a
    <3>1. (i - n + IF i > 1 THEN k ELSE 0) \in 1..OnWire("dialer")
          /\ i \in (Answered + 1)..(Answered + Ahead(k))
      BY <1>4, <1>5, <1>8, <2>1
    <3>2. wire["dialer"][i - n + IF i > 1 THEN k ELSE 0] = Proposal(Asked(i))
      BY <1>3, <1>8, <3>1 DEF OnTheWay
    <3> QED  BY <1>1, <2>0, <3>1, <3>2
  <2>2. CASE i = n + a
    <3>1. (i - n + IF i > 1 THEN k ELSE 0) = OnWire("dialer") + 1
      BY <1>4, <1>5, <1>6, <1>8, <2>2
    <3>2. held[1] = Proposal(Asked(i))
      <4>1. Proposed - Held + 1 = i /\ 1 \in 1..Held
        BY <1>1, <1>4, <1>8, <2>2
      <4> QED  BY <1>3, <4>1 DEF OnTheWay
    <3> QED  BY <1>1, <2>0, <3>1, <3>2
  <2> QED  BY <2>1, <2>2
<1>11. \A i \in 1..h : \A j \in Nat : j = n + a + i => held'[i] = Proposal(Asked(j)')
  <2> SUFFICES ASSUME NEW i \in 1..h, NEW j \in Nat, j = n + a + i
               PROVE  held'[i] = Proposal(Asked(j)')
    OBVIOUS
  <2>1. /\ j = Proposed - Held + (i + 1) /\ j \in 1..Proposed
        /\ i + 1 \in 1..Held /\ i \in 1..(Held - 1)
    BY <1>1, <1>4, <1>8
  <2>2. held[i + 1] = Proposal(Asked(j))
    BY <1>3, <2>1 DEF OnTheWay
  <2> QED  BY <1>1, <2>1, <2>2
<1>12. OnTheWay(k)'
  <2>1. Answered' = n /\ Ahead(k)' = a /\ Held' = h /\ Proposed' = n + a + h
    BY <1>1, <1>2, <1>4, <1>5, <1>8
  <2> QED  BY ONLY <2>1, <1>9, <1>10, <1>11, OnTheWayNext, k \in {0, 1}, n \in Nat, a \in Nat, h \in Nat
<1> QED  BY <1>2, <1>7, <1>12

\* The key goes behind the echo of the first stage.
LEMMA SendKeyInStep ==
  ASSUME IInv, TypeOK', ProposalsInStep, SendKey("dialer"), Proposed' = Proposed,
         \A i \in 1..Proposed : Asked(i)' = Asked(i)
  PROVE  ProposalsInStep'
<1> SUFFICES ASSUME ~Down("listener")'
             PROVE  ~garbled' /\ Answering' /\ \E k \in {0, 1} : OnTheWay(k)'
  BY DEF ProposalsInStep
<1>0. Basis /\ TypeOK /\ "listener" = Peer("dialer")
  BY Peers DEF IInv, Basis
<1>1. /\ phase["dialer"] = "upgrade" /\ stage["dialer"] = 1 /\ Chosen("dialer") = 1
      /\ held = <<>> /\ phase'["listener"] = phase["listener"]
      /\ OnWire("dialer")' = OnWire("dialer") + 1
      /\ \A i \in 1..OnWire("dialer") : wire'["dialer"][i] = wire["dialer"][i]
      /\ UNCHANGED <<pipeline, stage, chosen, held, answer, garbled, muxRead, muxSent>>
  BY <1>0, SendKeyEffect
<1>2. /\ ~Down("listener") /\ ~garbled /\ Answering /\ ~garbled' /\ Answered' = Answered
      /\ HasRead("listener")' = HasRead("listener") /\ Proposed = 1
      /\ Held = 0 /\ Held' = 0
  BY <1>0, <1>1, SameLengths, Lengths DEF ProposalsInStep, Down, Answered, Proposed, Bit
<1>3. PICK k \in {0, 1} : OnTheWay(k)
  BY <1>2 DEF ProposalsInStep
<1>4. /\ Ahead(k) \in Nat /\ OnWire("dialer") \in Nat /\ Answered \in Nat
      /\ Chosen("listener") \in Nat /\ k + Ahead(k) <= OnWire("dialer")
      /\ Answered + Ahead(k) = 1 /\ Unread(k)
  BY <1>0, <1>2, <1>3, OnTheWayNumbers
<1>5. k = 0 /\ Unread(1)'
  BY <1>4, SendKeyUnread
<1>6. Ahead(1)' = Ahead(k)
  <2>1. /\ Ahead(k) = OnWire("dialer") - k - (muxSent["dialer"] - HasRead("listener"))
        /\ muxSent["dialer"] \in Nat /\ HasRead("listener") \in Nat
    BY <1>0, UnreadNumbers
  <2>2. Ahead(1)' = OnWire("dialer")' - 1 - (muxSent'["dialer"] - HasRead("listener")')
    BY DEF Ahead
  <2> QED  BY <1>1, <1>2, <1>4, <1>5, <2>1, <2>2
<1>7. Answering'
  <2>1. Proposed' \in Nat /\ Proposed' >= Proposed
    BY <1>2
  <2> QED  BY <1>0, <1>1, <1>2, <2>1, AnsweringKept
<1>8. PICK n \in Nat, a \in Nat : n = Answered /\ a = Ahead(k)
  BY <1>4
<1>9. \A i \in (n + 1)..(n + a) :
        wire'["dialer"][i - n + IF i > 1 THEN 1 ELSE 0] = Proposal(Asked(i)')
  <2> SUFFICES ASSUME NEW i \in (n + 1)..(n + a)
               PROVE  wire'["dialer"][i - n + IF i > 1 THEN 1 ELSE 0] = Proposal(Asked(i)')
    OBVIOUS
  <2>1. i = 1 /\ n = 0 /\ 1 \in 1..OnWire("dialer") /\ 1 \in 1..Proposed
    BY <1>2, <1>4, <1>5, <1>8
  <2>2. wire["dialer"][1] = Proposal(Asked(1))
    <3>1. 1 \in (Answered + 1)..(Answered + Ahead(k)) /\ 1 - Answered + 0 = 1
      BY <1>4, <1>8, <2>1
    <3> QED  BY <1>3, <1>5, <3>1 DEF OnTheWay
  <2>3. wire'["dialer"][1] = Proposal(Asked(1)')
    BY <1>1, <2>1, <2>2
  <2>4. (i - n + IF i > 1 THEN 1 ELSE 0) = 1
    BY <2>1
  <2> QED  BY <2>1, <2>3, <2>4 DEF Asked
<1>10. OnTheWay(1)'
  <2>1. /\ Answered' = n /\ Ahead(1)' = a /\ Held' = 0 /\ Proposed' = n + a + 0
        /\ 1 \in {0, 1} /\ 0 \in Nat
    BY <1>2, <1>4, <1>6, <1>8
  <2>2. \A i \in 1..0 : \A j \in Nat : j = n + a + i => held'[i] = Proposal(Asked(j)')
    OBVIOUS
  <2>3. Unread(1)'
    BY <1>5
  <2> QED  BY ONLY <2>1, <2>2, <2>3, <1>9, OnTheWayNext, n \in Nat, a \in Nat
<1> QED  BY <1>2, <1>7, <1>10

\* The listener reads the proposal it has to answer next.
LEMMA ReceiveInStep ==
  ASSUME IInv, TypeOK', ProposalsInStep, ListenerReceive, ~Down("dialer"), Proposed' = Proposed,
         \A i \in 1..Proposed : Asked(i)' = Asked(i)
  PROVE  ProposalsInStep'
<1>0. Basis /\ TypeOK /\ Holding
  BY DEF IInv, Basis, DialerLocal
<1>1. /\ phase["listener"] = "select" /\ ~garbled /\ Chosen("listener") = stage["listener"] - 1
      /\ OnWire("dialer") > 0 /\ OnWire("dialer")' = OnWire("dialer") - 1
      /\ \A i \in 1..(OnWire("dialer") - 1) : wire'["dialer"][i] = wire["dialer"][i + 1]
      /\ UNCHANGED <<pipeline, stage, chosen, held, muxRead, muxSent>>
  BY <1>0, ReceiveEffect
<1>2. /\ ~Down("listener") /\ Answered = Chosen("listener") /\ stage["listener"] \in 1..Stages
      /\ stage["listener"] \in Nat /\ Stages \in Nat
  <2>1. Answered = Chosen("listener")
    BY <1>0, <1>1, ViewNumbers DEF Answered, Bit
  <2> QED  BY <1>0, <1>1, <2>1, Types, Chain DEF Down
<1>3. PICK k \in {0, 1} : OnTheWay(k)
  BY <1>2 DEF ProposalsInStep
<1>4. /\ Ahead(k) \in Nat /\ OnWire("dialer") \in Nat /\ Answered \in Nat /\ Held \in Nat
      /\ Proposed \in Nat /\ k + Ahead(k) <= OnWire("dialer") /\ Chosen("listener") \in Nat
      /\ Answered + Ahead(k) + Held = Proposed /\ Unread(k)
  BY <1>0, <1>3, OnTheWayNumbers
<1>5. k = 1 => stage["listener"] = 1 /\ SentKey("dialer") /\ Answered = 0
  BY <1>1, <1>2, <1>4 DEF Unread
<1>6. Ahead(k) > 0
  <2> SUFFICES ASSUME Ahead(k) = 0 PROVE FALSE
    BY <1>4
  <2>1. CASE k = 1
    <3>1. stage["dialer"] = 1
      BY <1>2, <1>5, <2>1, FirstStage
    <3>2. phase["dialer"] = "readKey" /\ held = <<>>
      BY <1>0, <1>5, <2>1, <3>1 DEF SentKey, Holding
    <3>3. Chosen("dialer") = 1
      BY <1>0, <3>1, <3>2 DEF Basis, Local, Progress
    <3>4. Proposed = 1 /\ Held = 0
      BY <1>0, <3>2, <3>3, Lengths DEF Proposed, Bit
    <3> QED  BY <1>4, <1>5, <2>1, <3>4
  <2>2. CASE k = 0
    <3>1. /\ OnWire("dialer") = k + Ahead(k) + (muxSent["dialer"] - HasRead("listener"))
          /\ HasRead("listener") \in Nat /\ muxSent["dialer"] \in Nat
      BY <1>0, <1>4, UnreadCounts, Lengths, Types
    <3>2. muxSent["dialer"] > 0
      BY <1>1, <2>2, <3>1
    <3>3. phase["dialer"] \in {"connected", "broken"} /\ Chosen("dialer") = Stages
      BY <1>0, <3>2, Connected
    <3>4. Held = 0 /\ Proposed = Stages
      BY <1>0, <1>2, <3>2, <3>3, Lengths DEF Holding, Proposed, Bit
    <3> QED  BY <1>1, <1>2, <1>4, <3>4
  <2> QED  BY <2>1, <2>2
<1>7. PICK q : q = Asked(Chosen("listener") + 1)
  OBVIOUS
<1>8. wire["dialer"][1] = Proposal(q)
  <2>1. Answered + 1 \in (Answered + 1)..(Answered + Ahead(k))
    BY <1>4, <1>6
  <2>2. (Answered + 1) - Answered + (IF Answered + 1 > 1 THEN k ELSE 0) = 1
    BY <1>4, <1>5
  <2> QED  BY <1>2, <1>3, <1>7, <2>1, <2>2 DEF OnTheWay
<1>9. /\ phase'["listener"] = "answer" /\ garbled' = garbled
      /\ answer' = IF Accepts(q) THEN Proposal(q) ELSE NA
  <2>1. wire["dialer"][1].kind = "protocol"
    BY <1>8, TokenKinds
  <2>2. /\ phase'["listener"] = "answer" /\ garbled' = garbled
        /\ \E p \in Name : /\ wire["dialer"][1] = Proposal(p)
                           /\ answer' = IF Accepts(p) THEN Proposal(p) ELSE NA
    BY <1>0, <2>1, ReceiveEffect
  <2> QED  BY <1>8, <2>2, Distinct
<1>10. Unread(k)' /\ Answered' = Answered + 1 /\ Ahead(k)' = Ahead(k) - 1
  BY <1>4, <1>9, ReceiveUnread
<1>11. Held' = Held /\ Chosen("listener")' = Chosen("listener")
  BY <1>1, SameLengths
<1>12. Answering'
  <2>1. Chosen("listener") < Proposed /\ Chosen("listener") + 1 \in 1..Proposed
    BY <1>2, <1>4, <1>6
  <2>2. Asked(Chosen("listener") + 1)' = q
    BY <1>7, <1>11, <2>1 DEF Asked
  <2>3. answer' = IF Accepts(q)' THEN Proposal(q) ELSE NA
    BY <1>1, <1>9 DEF Accepts, Stage
  <2>4. Chosen("listener")' < Proposed'
    BY <1>11, <2>1
  <2> QED  BY <2>2, <2>3, <2>4, AnsweringNext
<1>13. PICK n \in Nat, a \in Nat, h \in Nat : n = Answered + 1 /\ a = Ahead(k) - 1 /\ h = Held
  BY ONLY <1>4, <1>6
<1>14. \A i \in (n + 1)..(n + a) :
        wire'["dialer"][i - n + IF i > 1 THEN k ELSE 0] = Proposal(Asked(i)')
  <2> SUFFICES ASSUME NEW i \in (n + 1)..(n + a)
               PROVE  wire'["dialer"][i - n + IF i > 1 THEN k ELSE 0] = Proposal(Asked(i)')
    OBVIOUS
  <2>1. /\ i \in 1..Proposed /\ i > 1 /\ i \in (Answered + 1)..(Answered + Ahead(k))
        /\ i - n + k \in 1..(OnWire("dialer") - 1) /\ (i - n + k) + 1 = i - Answered + k
    BY <1>4, <1>6, <1>13
  <2>2. wire["dialer"][i - Answered + k] = Proposal(Asked(i))
    BY <1>3, <2>1 DEF OnTheWay
  <2>3. wire'["dialer"][i - n + k] = wire["dialer"][i - Answered + k]
    BY <1>1, <2>1
  <2> QED  BY <2>1, <2>2, <2>3
<1>15. \A i \in 1..h : \A j \in Nat : j = n + a + i => held'[i] = Proposal(Asked(j)')
  <2> SUFFICES ASSUME NEW i \in 1..h, NEW j \in Nat, j = n + a + i
               PROVE  held'[i] = Proposal(Asked(j)')
    OBVIOUS
  <2>1. j = Proposed - Held + i /\ j \in 1..Proposed
    BY <1>4, <1>13
  <2>2. held[i] = Proposal(Asked(j))
    BY <1>3, <1>13, <2>1 DEF OnTheWay
  <2> QED  BY <1>1, <2>1, <2>2
<1>16. OnTheWay(k)'
  <2>1. Answered' = n /\ Ahead(k)' = a /\ Held' = h /\ Proposed' = n + a + h
    BY <1>4, <1>10, <1>11, <1>13
  <2>2. Unread(k)'
    BY <1>10
  <2> QED  BY ONLY <2>1, <2>2, <1>14, <1>15, OnTheWayNext, k \in {0, 1}, n \in Nat, a \in Nat, h \in Nat
<1> QED  BY <1>1, <1>9, <1>12, <1>16 DEF ProposalsInStep

\* What is on its way stays so when only the count of what was answered may
\* change its form.
LEMMA OnTheWayKept ==
  ASSUME Basis, TypeOK', NEW k \in {0, 1}, OnTheWay(k), Unread(k)', Kept("dialer"), held' = held,
         Answered' = Answered, Ahead(k)' = Ahead(k), Proposed' = Proposed,
         \A i \in 1..Proposed : Asked(i)' = Asked(i)
  PROVE  OnTheWay(k)'
<1>1. /\ Ahead(k) \in Nat /\ Answered \in Nat /\ Held \in Nat /\ Proposed \in Nat
      /\ Answered + Ahead(k) + Held = Proposed
  BY OnTheWayNumbers
<1>2. PICK n \in Nat, a \in Nat, h \in Nat : n = Answered /\ a = Ahead(k) /\ h = Held
  BY <1>1
<1>3. \A i \in (n + 1)..(n + a) :
        wire'["dialer"][i - n + IF i > 1 THEN k ELSE 0] = Proposal(Asked(i)')
  <2> SUFFICES ASSUME NEW i \in (n + 1)..(n + a)
               PROVE  wire'["dialer"][i - n + IF i > 1 THEN k ELSE 0] = Proposal(Asked(i)')
    OBVIOUS
  <2>1. i \in 1..Proposed
    BY <1>1, <1>2
  <2>2. wire["dialer"][i - n + IF i > 1 THEN k ELSE 0] = Proposal(Asked(i))
    BY <1>2 DEF OnTheWay
  <2> QED  BY <2>1, <2>2 DEF Kept
<1>4. \A i \in 1..h : \A j \in Nat : j = n + a + i => held'[i] = Proposal(Asked(j)')
  <2> SUFFICES ASSUME NEW i \in 1..h, NEW j \in Nat, j = n + a + i
               PROVE  held'[i] = Proposal(Asked(j)')
    OBVIOUS
  <2>1. j = Proposed - Held + i /\ j \in 1..Proposed
    BY ONLY <1>1, <1>2, i \in 1..h, j \in Nat, j = n + a + i
  <2>2. held[i] = Proposal(Asked(j))
    BY <1>2, <2>1 DEF OnTheWay
  <2> QED  BY <2>1, <2>2
<1>5. Answered' = n /\ Ahead(k)' = a /\ Held' = h /\ Proposed' = n + a + h
  BY <1>1, <1>2, SameLengths
<1>6. OnTheWay(k)'
  <2>1. Answered' = n /\ Ahead(k)' = a /\ Held' = h /\ Proposed' = n + a + h
    BY ONLY <1>5
  <2>2. Unread(k)'
    OBVIOUS
  <2> QED  BY ONLY <2>1, <2>2, <1>3, <1>4, OnTheWayNext, k \in {0, 1}, n \in Nat, a \in Nat, h \in Nat
<1> QED  BY <1>6

\* The listener reads the dialer's key: the same proposals are on their way
\* without it.
LEMMA KeyReadInStep ==
  ASSUME IInv, TypeOK', ProposalsInStep, ReadKey("listener"), Proposed' = Proposed,
         \A i \in 1..Proposed : Asked(i)' = Asked(i)
  PROVE  ProposalsInStep'
<1>0. Basis /\ TypeOK /\ "dialer" = Peer("listener")
  BY Peers DEF IInv, Basis
<1>1. /\ phase["listener"] = "readKey" /\ phase'["listener"] = "select"
      /\ OnWire("dialer") > 0 /\ OnWire("dialer")' = OnWire("dialer") - 1
      /\ \A i \in 1..(OnWire("dialer") - 1) : wire'["dialer"][i] = wire["dialer"][i + 1]
      /\ UNCHANGED <<held, garbled>>
  BY <1>0, ReadKeyEffect
<1>2. ~garbled /\ \E k \in {0, 1} : OnTheWay(k)
  BY <1>1 DEF ProposalsInStep, Down
<1>3. OnTheWay(1)
  <2>1. PICK k \in {0, 1} : OnTheWay(k)
    BY <1>2
  <2>2. k = 1
    BY <2>1, ListenerReadsKey DEF OnTheWay
  <2> QED  BY <2>1, <2>2
<1>4. /\ Ahead(1) \in Nat /\ OnWire("dialer") \in Nat /\ Answered \in Nat /\ Held \in Nat
      /\ Proposed \in Nat /\ 1 + Ahead(1) <= OnWire("dialer")
      /\ Answered + Ahead(1) + Held = Proposed
  <2>1. 1 \in {0, 1}
    OBVIOUS
  <2> QED  BY <1>0, <1>3, <2>1, OnTheWayNumbers
<1>5. Unread(0)' /\ Answered' = Answered /\ Ahead(0)' = Ahead(1) /\ Answered = 1
  BY ReadKeyUnread
<1>6. Answering'
  BY <1>1 DEF Answering
<1>7. PICK n \in Nat, a \in Nat, h \in Nat : n = Answered /\ a = Ahead(1) /\ h = Held
  BY <1>4
<1>8. \A i \in (n + 1)..(n + a) :
        wire'["dialer"][i - n + IF i > 1 THEN 0 ELSE 0] = Proposal(Asked(i)')
  <2> SUFFICES ASSUME NEW i \in (n + 1)..(n + a)
               PROVE  wire'["dialer"][i - n + IF i > 1 THEN 0 ELSE 0] = Proposal(Asked(i)')
    OBVIOUS
  <2>1. /\ i \in 1..Proposed /\ i > 1 /\ i \in (Answered + 1)..(Answered + Ahead(1))
        /\ i - n \in 1..(OnWire("dialer") - 1) /\ (i - n) + 1 = i - Answered + 1
        /\ i - n + 0 = i - n
    BY <1>4, <1>5, <1>7
  <2>2. wire["dialer"][i - Answered + 1] = Proposal(Asked(i))
    BY <1>3, <2>1 DEF OnTheWay
  <2>3. wire'["dialer"][i - n] = wire["dialer"][i - Answered + 1]
    BY <1>1, <2>1
  <2> QED  BY <2>1, <2>2, <2>3
<1>9. \A i \in 1..h : \A j \in Nat : j = n + a + i => held'[i] = Proposal(Asked(j)')
  <2> SUFFICES ASSUME NEW i \in 1..h, NEW j \in Nat, j = n + a + i
               PROVE  held'[i] = Proposal(Asked(j)')
    OBVIOUS
  <2>1. j = Proposed - Held + i /\ j \in 1..Proposed
    BY ONLY <1>4, <1>7, i \in 1..h, j \in Nat, j = n + a + i
  <2>2. held[i] = Proposal(Asked(j))
    BY <1>3, <1>7, <2>1 DEF OnTheWay
  <2> QED  BY <1>1, <2>1, <2>2
<1>10. OnTheWay(0)'
  <2>1. Answered' = n /\ Ahead(0)' = a /\ Held' = h /\ Proposed' = n + a + h
    BY <1>1, <1>4, <1>5, <1>7, SameLengths
  <2>2. Unread(0)' /\ 0 \in {0, 1}
    BY <1>5
  <2> QED  BY ONLY <2>1, <2>2, <1>8, <1>9, OnTheWayNext, n \in Nat, a \in Nat, h \in Nat
<1> QED  BY <1>1, <1>2, <1>6, <1>10 DEF ProposalsInStep

\* Its muxer reads frames once every proposal has been answered.
LEMMA MuxReadInStep ==
  ASSUME IInv, TypeOK', ProposalsInStep, MuxRead("listener"), Proposed' = Proposed,
         \A i \in 1..Proposed : Asked(i)' = Asked(i)
  PROVE  ProposalsInStep'
<1>0. Basis /\ TypeOK /\ "dialer" = Peer("listener")
  BY Peers DEF IInv, Basis
<1>1. phase["listener"] = "connected" /\ phase' = phase /\ UNCHANGED <<held, garbled>>
  BY <1>0, MuxReadEffect
<1>2. ~garbled /\ \E k \in {0, 1} : OnTheWay(k)
  BY <1>1 DEF ProposalsInStep, Down
<1>3. PICK k \in {0, 1} : OnTheWay(k)
  BY <1>2
<1>4. /\ Answered \in Nat /\ Held \in Nat /\ Proposed \in Nat
      /\ Answered + Ahead(k) + Held = Proposed /\ Unread(k)
  BY <1>0, <1>3, OnTheWayNumbers
<1>5. Unread(k)' /\ Ahead(k)' = 0 /\ Ahead(k) = 0 /\ Answered' = Answered
  BY <1>4, MuxReadUnread
<1>6. Answering'
  BY <1>1 DEF Answering
<1>7. PICK n \in Nat, a \in Nat, h \in Nat : n = Answered /\ a = 0 /\ h = Held
  BY <1>4
<1>8. \A i \in (n + 1)..(n + a) :
        wire'["dialer"][i - n + IF i > 1 THEN k ELSE 0] = Proposal(Asked(i)')
  <2>1. \A i \in (n + 1)..(n + a) : FALSE
    BY <1>7
  <2> QED  BY ONLY <2>1
<1>9. \A i \in 1..h : \A j \in Nat : j = n + a + i => held'[i] = Proposal(Asked(j)')
  <2> SUFFICES ASSUME NEW i \in 1..h, NEW j \in Nat, j = n + a + i
               PROVE  held'[i] = Proposal(Asked(j)')
    OBVIOUS
  <2>1. j = Proposed - Held + i /\ j \in 1..Proposed
    BY <1>4, <1>5, <1>7
  <2>2. held[i] = Proposal(Asked(j))
    BY <1>3, <1>7, <2>1 DEF OnTheWay
  <2> QED  BY <1>1, <2>1, <2>2
<1>10. OnTheWay(k)'
  <2>1. Answered' = n /\ Ahead(k)' = a /\ Held' = h /\ Proposed' = n + a + h
    BY <1>1, <1>4, <1>5, <1>7, SameLengths
  <2>2. Unread(k)'
    BY <1>5
  <2> QED  BY ONLY <2>1, <2>2, <1>8, <1>9, OnTheWayNext, k \in {0, 1}, n \in Nat, a \in Nat, h \in Nat
<1> QED  BY <1>1, <1>2, <1>6, <1>10 DEF ProposalsInStep

\* Steps of the listener's chain that write nothing.
LEMMA ListenerEchoes ==
  ASSUME IInv, TypeOK', EchoesInStep, Proposed' = Proposed,
         \A i \in 1..Proposed : Asked(i)' = Asked(i),
         \/ ListenerReceive \/ ReadKey("listener") \/ PassReady("listener")
         \/ StartMuxer("listener") \/ MuxRead("listener") \/ Ends("listener") \/ UNCHANGED vars
  PROVE  EchoesInStep'
<1>0. Basis /\ TypeOK /\ "dialer" = Peer("listener") /\ Proposed \in Nat
  BY Peers, ViewNumbers DEF IInv, Basis
<1>1. /\ chosen'["dialer"] = chosen["dialer"] /\ expecting' = expecting
      /\ stage'["dialer"] = stage["dialer"]
  BY DialerUntouched DEF SideStep
<1>2. Unconfirmed' = Unconfirmed
  BY <1>1, SameLengths DEF Unconfirmed
<1>3. /\ Kept("listener") /\ muxRead'["dialer"] = muxRead["dialer"]
      /\ chosen'["listener"] = chosen["listener"] /\ muxSent'["listener"] = muxSent["listener"]
  <2>1. CASE ListenerReceive \/ UNCHANGED vars
    BY <1>0, <2>1, ReceiveEffect DEF vars, muxing, Kept
  <2>2. CASE ReadKey("listener") \/ MuxRead("listener")
    BY <1>0, <2>2, ReadKeyEffect, MuxReadEffect DEF Kept
  <2>3. CASE PassReady("listener") \/ StartMuxer("listener") \/ Ends("listener")
    BY <1>0, <2>3, PassEffect, StartEffect, EndsEffect DEF Kept
  <2> QED  BY <2>1, <2>2, <2>3
<1>4. ~Down("listener")' => ~Down("listener") /\ (SentKey("listener")' <=> SentKey("listener"))
  <2>1. CASE ListenerReceive
    BY <1>0, <2>1, ReceiveEffect DEF Down, SentKey
  <2>2. CASE ReadKey("listener")
    <3>1. SentKey("listener") /\ SentKey("listener")' /\ ~Down("listener")
      BY <1>0, <2>2, ReadKeyEffect DEF Down, SentKey
    <3> QED  BY <3>1
  <2>3. CASE PassReady("listener")
    <3>1. stage["listener"] \in Nat
      BY <1>0, Types
    <3>2. SentKey("listener") /\ SentKey("listener")' /\ ~Down("listener")
      BY <1>0, <2>3, <3>1, PassEffect DEF Down, SentKey
    <3> QED  BY <3>2
  <2>4. CASE StartMuxer("listener") \/ MuxRead("listener") \/ UNCHANGED vars
    BY <1>0, <2>4, StartEffect, MuxReadEffect DEF vars, Down, SentKey
  <2>5. CASE Ends("listener")
    BY <1>0, <2>5, EndsEffect
  <2> QED  BY <2>1, <2>2, <2>3, <2>4, <2>5
<1> QED  BY <1>0, <1>1, <1>2, <1>3, <1>4, EchoesInStepKept

\* Steps of the listener's chain that read nothing.
LEMMA ListenerProposals ==
  ASSUME IInv, TypeOK', ProposalsInStep, Proposed' = Proposed,
         \A i \in 1..Proposed : Asked(i)' = Asked(i),
         \/ SendKey("listener") \/ PassReady("listener") \/ StartMuxer("listener")
         \/ MuxWrite("listener") \/ Ends("listener") \/ UNCHANGED vars
  PROVE  ProposalsInStep'
<1>0. Basis /\ TypeOK /\ "dialer" = Peer("listener")
  BY Peers DEF IInv, Basis
<1>1. CASE Ends("listener")
  BY <1>0, <1>1, EndsEffect DEF ProposalsInStep
<1>2. CASE \/ SendKey("listener") \/ PassReady("listener") \/ StartMuxer("listener")
           \/ MuxWrite("listener") \/ UNCHANGED vars
  <2>1. /\ UNCHANGED <<pipeline, held, garbled, answer>> /\ chosen' = chosen
        /\ wire'["dialer"] = wire["dialer"] /\ muxSent'["dialer"] = muxSent["dialer"]
        /\ muxRead'["listener"] = muxRead["listener"]
    BY <1>0, <1>2, SendKeyEffect, PassEffect, StartEffect, MuxWriteEffect DEF vars, muxing, listening, dialing
  <2>2. /\ ~Down("listener")' => ~Down("listener")
        /\ phase'["listener"] = "answer" <=> phase["listener"] = "answer"
        /\ phase'["listener"] = "answer" => stage'["listener"] = stage["listener"]
    <3>1. CASE SendKey("listener") \/ PassReady("listener") \/ StartMuxer("listener")
      BY <1>0, <3>1, SendKeyEffect, PassEffect, StartEffect DEF Down
    <3>2. CASE MuxWrite("listener") \/ UNCHANGED vars
      BY <1>0, <3>2, MuxWriteEffect DEF Down, vars
    <3> QED  BY <1>2, <3>1, <3>2
  <2>3. \A k \in {0, 1} : Ahead(k)' = Ahead(k)
    BY <2>1, AheadKept
  <2>4. \A k \in {0, 1} : Unread(k) => Unread(k)'
    BY <1>2, ListenerUnread
  <2> QED  BY <1>0, <2>1, <2>2, <2>3, <2>4, ProposalsKept
<1> QED  BY <1>1, <1>2

\* The listener's key goes behind its echo of the first stage.
LEMMA SendKeyEchoes ==
  ASSUME IInv, TypeOK', EchoesInStep, Proposed' = Proposed,
         \A i \in 1..Proposed : Asked(i)' = Asked(i), SendKey("listener")
  PROVE  EchoesInStep'
<1>0. Basis /\ TypeOK /\ "dialer" = Peer("listener") /\ KeyOrder
  BY Peers DEF IInv, Basis, Apart
<1>1. /\ phase["listener"] = "upgrade" /\ stage["listener"] = 1 /\ Chosen("listener") = 1
      /\ phase'["listener"] = "readKey"
      /\ OnWire("listener")' = OnWire("listener") + 1
      /\ wire'["listener"][OnWire("listener") + 1] = Key("listener")
      /\ \A i \in 1..OnWire("listener") : wire'["listener"][i] = wire["listener"][i]
      /\ UNCHANGED <<stage, chosen, expecting, muxRead, muxSent>>
  BY <1>0, SendKeyEffect
<1>2. /\ Unconfirmed' = Unconfirmed /\ HasRead("dialer")' = HasRead("dialer")
      /\ Chosen("listener")' = 1
  BY <1>1, SameLengths DEF Unconfirmed
<1>3. /\ OnWire("listener") \in Nat /\ HasRead("dialer") \in Nat /\ muxSent["listener"] \in Nat
      /\ Unconfirmed \in Nat /\ Proposed \in Nat /\ stage["dialer"] \in 1..Stages
      /\ stage["dialer"] \in Nat /\ Stages \in Nat
  BY <1>0, ViewNumbers, Types, Chain
<1>4. stage["dialer"] = 1 /\ ~SentKey("listener") /\ ~Down("listener")
  <2>1. ~SentKey("listener") /\ ~Down("listener")
    BY <1>1 DEF SentKey, Down
  <2> QED  BY <1>0, <1>3, <2>1 DEF KeyOrder
<1>5. PICK k \in {0, 1} : Written(k)
  BY DEF EchoesInStep
<1>6. muxSent["listener"] = 0
  BY <1>0, <1>1, <1>3, Connected
<1>7. HasRead("dialer") = 0 /\ OnWire("listener") = 1 - Unconfirmed
  <2>1. k = 0
    BY <1>4, <1>5 DEF Written
  <2> QED  BY <1>1, <1>3, <1>5, <1>6, <2>1 DEF Written
<1>8. Written(1)'
  <2>1. OnWire("listener")' + HasRead("dialer")' = 1 - Unconfirmed' + 1 + muxSent'["listener"]
        /\ HasRead("dialer")' <= muxSent'["listener"]
    BY <1>1, <1>2, <1>3, <1>6, <1>7
  <2>2. wire'["listener"][1 - Unconfirmed' + 1] = Key("listener")
    BY <1>1, <1>2, <1>3, <1>7
  <2>3. stage'["dialer"] = 1 /\ SentKey("listener")'
    BY <1>1, <1>4 DEF SentKey
  <2> QED  BY <1>2, <2>1, <2>2, <2>3 DEF Written
<1>9. PICK e \in Nat : e = 1
  OBVIOUS
<1>10. EchoesTo(e)'
  <2>1. EchoesTo(e) /\ e <= Proposed
    BY <1>1, <1>9 DEF EchoesInStep, EchoesTo
  <2>2. \A i \in 1..e : Asked(i)' = Asked(i)
    BY <1>3, <2>1
  <2>3. /\ Chosen("listener")' \in Nat /\ Chosen("listener")' >= Chosen("listener")
        /\ OnWire("listener")' \in Nat /\ OnWire("listener")' >= OnWire("listener")
        /\ e <= Proposed'
    BY <1>1, <1>2, <1>3, <2>1
  <2> QED  BY <1>0, <1>1, <1>2, <2>1, <2>2, <2>3, EchoesKept
<1> QED  BY <1>2, <1>8, <1>9, <1>10 DEF EchoesInStep, EchoesTo

LEMMA MuxWriteEchoes ==
  ASSUME IInv, TypeOK', EchoesInStep, Proposed' = Proposed,
         \A i \in 1..Proposed : Asked(i)' = Asked(i), MuxWrite("listener")
  PROVE  EchoesInStep'
<1>0. Basis /\ TypeOK /\ "dialer" = Peer("listener")
  BY Peers DEF IInv, Basis
<1>1. /\ OnWire("listener")' = OnWire("listener") + 1
      /\ \A i \in 1..OnWire("listener") : wire'["listener"][i] = wire["listener"][i]
      /\ muxSent'["listener"] = muxSent["listener"] + 1
      /\ UNCHANGED <<stage, phase, chosen, expecting, muxRead>>
  BY <1>0, MuxWriteEffect
<1>2. /\ Unconfirmed' = Unconfirmed /\ HasRead("dialer")' = HasRead("dialer")
      /\ Chosen("listener")' = Chosen("listener")
      /\ SentKey("listener")' = SentKey("listener") /\ Down("listener")' = Down("listener")
  BY <1>1, SameLengths DEF Unconfirmed, SentKey, Down
<1>3. /\ OnWire("listener") \in Nat /\ HasRead("dialer") \in Nat /\ muxSent["listener"] \in Nat
      /\ Unconfirmed \in Nat /\ Proposed \in Nat /\ Chosen("listener") \in Nat
  BY <1>0, ViewNumbers
<1>4. PICK k \in {0, 1} : Written(k)
  BY DEF EchoesInStep
<1>5. PICK e \in Nat : e = Chosen("listener")
  BY <1>3
<1>6. EchoesTo(e) /\ e <= Proposed /\ e - Unconfirmed <= OnWire("listener") /\ Unconfirmed <= e
  BY <1>5 DEF EchoesInStep, EchoesTo
<1>7. Written(k)'
  <2>1. /\ OnWire("listener") + HasRead("dialer") = e - Unconfirmed + k + muxSent["listener"]
        /\ HasRead("dialer") <= muxSent["listener"]
        /\ k = 1 => stage["dialer"] = 1 /\ e = 1
                    /\ wire["listener"][e - Unconfirmed + 1] = Key("listener")
        /\ ~Down("listener") => (k = 1 <=> stage["dialer"] = 1 /\ SentKey("listener"))
    BY <1>4, <1>5 DEF Written
  <2>2. /\ OnWire("listener")' + HasRead("dialer")' = e - Unconfirmed' + k + muxSent'["listener"]
        /\ HasRead("dialer")' <= muxSent'["listener"]
    BY <1>1, <1>2, <1>3, <2>1
  <2>3. k = 1 => wire'["listener"][e - Unconfirmed + 1] = Key("listener")
    <3> SUFFICES ASSUME k = 1 PROVE wire'["listener"][e - Unconfirmed + 1] = Key("listener")
      OBVIOUS
    <3>1. e - Unconfirmed + 1 \in 1..OnWire("listener")
      BY <1>3, <1>6, <2>1
    <3> QED  BY <1>1, <2>1, <3>1
  <2> QED  BY <1>1, <1>2, <1>5, <2>1, <2>2, <2>3 DEF Written
<1>8. EchoesTo(e)'
  <2>1. \A i \in 1..e : Asked(i)' = Asked(i)
    BY <1>3, <1>6
  <2>2. /\ Chosen("listener")' \in Nat /\ Chosen("listener")' >= Chosen("listener")
        /\ OnWire("listener")' \in Nat /\ OnWire("listener")' >= OnWire("listener")
        /\ e <= Proposed'
    BY <1>1, <1>2, <1>3, <1>6
  <2> QED  BY <1>0, <1>1, <1>2, <1>6, <2>1, <2>2, EchoesKept
<1> QED  BY <1>2, <1>5, <1>7, <1>8 DEF EchoesInStep, EchoesTo

\* What an answer finds: the listener has written only echoes.
LEMMA AnswerFinds ==
  ASSUME IInv, InStep, ListenerAnswer, ~Down("dialer")
  PROVE  LET e == Chosen("listener") IN
         /\ Answering /\ ~garbled /\ e < Proposed /\ Answered = e + 1 /\ stage["listener"] = e + 1
         /\ muxSent["listener"] = 0 /\ HasRead("dialer") = 0 /\ Unconfirmed <= e
         /\ OnWire("listener") = e - Unconfirmed /\ EchoesTo(e)
<1>0. Basis /\ TypeOK /\ EchoesInStep /\ ProposalsInStep
  BY DEF IInv, Basis, InStep
<1>1. phase["listener"] = "answer" /\ Chosen("listener") = stage["listener"] - 1
  BY <1>0, AnswerEffect
<1>2. Answering /\ ~garbled
  BY <1>0, <1>1 DEF ProposalsInStep, Down
<1>3. /\ OnWire("listener") \in Nat /\ HasRead("dialer") \in Nat /\ muxSent["listener"] \in Nat
      /\ Unconfirmed \in Nat /\ Proposed \in Nat /\ Chosen("listener") \in Nat
      /\ stage["listener"] \in Nat /\ stage["dialer"] \in Nat
  BY <1>0, ViewNumbers
<1>4. Chosen("listener") < Proposed
  BY <1>1, <1>2 DEF Answering
<1>5. Answered = Chosen("listener") + 1
  BY <1>1 DEF Answered, Bit
<1>6. muxSent["listener"] = 0
  BY <1>0, <1>1, <1>3, Connected
<1>7. PICK k \in {0, 1} : Written(k)
  BY <1>0 DEF EchoesInStep
<1>8. k = 0
  <2> SUFFICES ASSUME k = 1 PROVE FALSE
    OBVIOUS
  <2>1. stage["dialer"] = 1 /\ Chosen("listener") = 1
    BY <1>7 DEF Written
  <2>2. Proposed <= stage["dialer"]
    BY <1>0, ProposedBound
  <2> QED  BY <1>3, <1>4, <2>1, <2>2
<1>9. /\ OnWire("listener") + HasRead("dialer") = Chosen("listener") - Unconfirmed
      /\ HasRead("dialer") <= muxSent["listener"]
  BY <1>3, <1>6, <1>7, <1>8 DEF Written
<1>10. EchoesTo(Chosen("listener")) /\ Unconfirmed <= Chosen("listener")
  BY <1>0 DEF EchoesInStep, EchoesTo
<1> QED  BY <1>1, <1>2, <1>3, <1>4, <1>5, <1>6, <1>9, <1>10

\* It accepts: one more echo.
LEMMA AcceptInStep ==
  ASSUME IInv, TypeOK', InStep, ListenerAnswer, ~Down("dialer"), answer # NA,
         Proposed' = Proposed, \A i \in 1..Proposed : Asked(i)' = Asked(i)
  PROVE  InStep'
<1>0. Basis /\ TypeOK /\ ProposalsInStep
  BY DEF IInv, Basis, InStep
<1>1. PICK e \in Nat : e = Chosen("listener")
  BY <1>0, ViewNumbers
<1>q. PICK q : q = Asked(e + 1)
  OBVIOUS
<1>2. /\ Answering /\ ~garbled /\ e < Proposed /\ Answered = e + 1 /\ stage["listener"] = e + 1
      /\ muxSent["listener"] = 0 /\ HasRead("dialer") = 0 /\ Unconfirmed <= e
      /\ OnWire("listener") = e - Unconfirmed /\ EchoesTo(e)
  BY <1>1, AnswerFinds
<1>3. /\ phase["listener"] = "answer" /\ phase'["listener"] = "upgrade"
      /\ OnWire("listener")' = OnWire("listener") + 1
      /\ wire'["listener"][OnWire("listener") + 1] = answer
      /\ \A i \in 1..OnWire("listener") : wire'["listener"][i] = wire["listener"][i]
      /\ wire'["dialer"] = wire["dialer"]
      /\ UNCHANGED <<pipeline, stage, tried, expecting, held, garbled, muxRead, muxSent>>
      /\ phase'["dialer"] = phase["dialer"] /\ chosen'["dialer"] = chosen["dialer"]
      /\ Chosen("listener")' = e + 1
      /\ \A i \in 1..e : chosen'["listener"][i] = chosen["listener"][i]
      /\ \E p \in Name : answer = Proposal(p) /\ chosen'["listener"][e + 1] = p
  BY <1>0, <1>1, AnswerEffect
<1>4. answer = Proposal(q) /\ chosen'["listener"][e + 1] = q
  <2>1. answer = Proposal(q)
    BY <1>1, <1>2, <1>3, <1>q DEF Answering
  <2> QED  BY <1>3, <2>1, Distinct
<1>5. /\ Unconfirmed \in Nat /\ Proposed \in Nat /\ OnWire("listener") \in Nat
      /\ stage["dialer"] \in Nat /\ Unconfirmed' = Unconfirmed
      /\ HasRead("dialer")' = HasRead("dialer")
  BY <1>0, <1>3, ViewNumbers, SameLengths DEF Unconfirmed
<1>6. PICK f \in Nat : f = e + 1
  OBVIOUS
<1>7. EchoesTo(f)'
  <2>1. /\ Unconfirmed' <= f /\ f <= Chosen("listener")' /\ f <= Proposed'
        /\ f - Unconfirmed' <= OnWire("listener")'
    BY <1>2, <1>3, <1>5, <1>6
  <2>2. \A i \in 1..f : chosen'["listener"][i] = Asked(i)'
    <3> SUFFICES ASSUME NEW i \in 1..f PROVE chosen'["listener"][i] = Asked(i)'
      OBVIOUS
    <3>1. i \in 1..Proposed /\ (i \in 1..e \/ i = e + 1)
      BY <1>2, <1>5, <1>6
    <3>2. i \in 1..e => chosen["listener"][i] = Asked(i)
      BY <1>2 DEF EchoesTo
    <3> QED  BY <1>3, <1>4, <1>q, <3>1, <3>2
  <2>3. ASSUME NEW i \in (Unconfirmed + 1)..f
        PROVE  wire'["listener"][i - Unconfirmed] = Proposal(Asked(i)')
    <3>1. i \in 1..Proposed /\ (i \in (Unconfirmed + 1)..e \/ i = e + 1)
      BY <1>2, <1>5, <1>6
    <3>2. CASE i \in (Unconfirmed + 1)..e
      <4>1. i - Unconfirmed \in 1..OnWire("listener")
        BY <1>2, <1>5, <3>2
      <4>2. wire["listener"][i - Unconfirmed] = Proposal(Asked(i))
        BY <1>2, <3>2 DEF EchoesTo
      <4> QED  BY <1>3, <3>1, <4>1, <4>2
    <3>3. CASE i = e + 1
      <4>1. i - Unconfirmed = OnWire("listener") + 1
        BY <1>2, <1>5, <3>3
      <4> QED  BY <1>3, <1>4, <1>q, <3>1, <3>3, <4>1
    <3> QED  BY <3>1, <3>2, <3>3
  <2> QED  BY <1>5, <2>1, <2>2, <2>3 DEF EchoesTo
<1>8. Written(0)'
  <2>1. /\ OnWire("listener")' + HasRead("dialer")' = f - Unconfirmed' + 0 + muxSent'["listener"]
        /\ HasRead("dialer")' <= muxSent'["listener"]
    BY <1>2, <1>3, <1>5, <1>6
  <2>2. ~(stage'["dialer"] = 1 /\ SentKey("listener")')
    <3> SUFFICES ASSUME stage["dialer"] = 1, SentKey("listener")' PROVE FALSE
      BY <1>3
    <3>1. e + 1 > 1
      BY <1>2, <1>3 DEF SentKey
    <3>2. Proposed <= stage["dialer"]
      BY <1>0, ProposedBound
    <3> QED  BY <1>2, <1>5, <3>1, <3>2
  <2> QED  BY <1>3, <1>6, <2>1, <2>2 DEF Written
<1>9. ProposalsInStep'
  <2>1. PICK k \in {0, 1} : OnTheWay(k)
    BY <1>0, <1>3 DEF ProposalsInStep, Down
  <2>2. Unread(k)' /\ Ahead(k)' = Ahead(k) /\ Answered' = Answered
    BY <2>1, AnswerUnread DEF OnTheWay
  <2>3. OnTheWay(k)'
    BY <1>0, <1>3, <2>1, <2>2, OnTheWayKept DEF Kept
  <2>4. Answering' /\ ~garbled'
    BY <1>2, <1>3 DEF Answering
  <2> QED  BY <2>3, <2>4 DEF ProposalsInStep
<1> QED  BY <1>3, <1>6, <1>7, <1>8, <1>9 DEF InStep, EchoesInStep, EchoesTo

\* It refuses: what follows depends on whether the dialer awaits the answer.
LEMMA RefuseInStep ==
  ASSUME IInv, TypeOK', InStep, ListenerAnswer, ~Down("dialer"), answer = NA,
         Proposed' = Proposed, \A i \in 1..Proposed : Asked(i)' = Asked(i)
  PROVE  RefusedAwaited' \/ RefusedLast'
<1>0. Basis /\ TypeOK /\ ProposalsInStep
  BY DEF IInv, Basis, InStep
<1>1. PICK e \in Nat : e = Chosen("listener")
  BY <1>0, ViewNumbers
<1>q. PICK q : q = Asked(e + 1)
  OBVIOUS
<1>2. /\ Answering /\ ~garbled /\ e < Proposed /\ Answered = e + 1 /\ stage["listener"] = e + 1
      /\ muxSent["listener"] = 0 /\ HasRead("dialer") = 0 /\ Unconfirmed <= e
      /\ OnWire("listener") = e - Unconfirmed /\ EchoesTo(e)
  BY <1>1, AnswerFinds
<1>3. /\ phase["listener"] = "answer" /\ phase'["listener"] = "select"
      /\ OnWire("listener")' = OnWire("listener") + 1
      /\ wire'["listener"][OnWire("listener") + 1] = NA
      /\ \A i \in 1..OnWire("listener") : wire'["listener"][i] = wire["listener"][i]
      /\ wire'["dialer"] = wire["dialer"]
      /\ UNCHANGED <<pipeline, stage, tried, expecting, held, garbled, muxRead, muxSent>>
      /\ phase'["dialer"] = phase["dialer"] /\ chosen' = chosen
  BY <1>0, AnswerEffect, Distinct
<1>4. /\ Unconfirmed \in Nat /\ Proposed \in Nat /\ OnWire("listener") \in Nat
      /\ Chosen("dialer") \in Nat /\ stage["dialer"] \in Nat
      /\ Unconfirmed' = Unconfirmed /\ Chosen("listener")' = e
      /\ Chosen("dialer")' = Chosen("dialer")
  BY <1>0, <1>1, <1>3, ViewNumbers, SameLengths DEF Unconfirmed
<1>5. EchoesTo(e)'
  <2>1. \A i \in 1..e : Asked(i)' = Asked(i)
    BY <1>2, <1>4
  <2>2. /\ Chosen("listener")' \in Nat /\ Chosen("listener")' >= Chosen("listener")
        /\ OnWire("listener")' \in Nat /\ OnWire("listener")' >= OnWire("listener")
        /\ e <= Proposed'
    BY <1>1, <1>2, <1>3, <1>4
  <2> QED  BY <1>0, <1>2, <1>3, <1>4, <2>1, <2>2, EchoesKept
<1>6. CASE phase["dialer"] = "await" /\ e + 1 = Proposed
  <2>1. e = Chosen("dialer") /\ stage["dialer"] = e + 1
    <3>1. Proposed = Chosen("dialer") + 1
      BY <1>6 DEF Proposed, Bit
    <3>2. Chosen("dialer") = stage["dialer"] - 1
      BY <1>0, <1>6 DEF Basis, Local, Progress
    <3> QED  BY <1>4, <1>6, <3>1, <3>2
  <2>2. PICK k \in {0, 1} : OnTheWay(k)
    BY <1>0, <1>3 DEF ProposalsInStep, Down
  <2>3. /\ Ahead(k) = 0 /\ Held = 0 /\ Unread(k)
    <3>1. /\ Ahead(k) \in Nat /\ Held \in Nat /\ Answered + Ahead(k) + Held = Proposed
          /\ Unread(k) /\ Answered \in Nat
      BY <1>0, <2>2, OnTheWayNumbers
    <3> QED  BY <1>2, <1>6, <3>1
  <2>4. k = 0
    <3> SUFFICES ASSUME k = 1 PROVE FALSE
      OBVIOUS
    <3>1. stage["listener"] = 1 /\ SentKey("dialer")
      BY <2>3 DEF Unread
    <3> QED  BY <1>2, <1>4, <1>6, <2>1, <3>1 DEF SentKey
  <2>5. held' = <<>> /\ wire'["dialer"] = <<>>
    <3>1. muxSent["dialer"] = 0
      BY <1>0, <1>6 DEF Basis, Local, Frames, MuxIdle
    <3>2. /\ OnWire("dialer") = k + Ahead(k) + (muxSent["dialer"] - HasRead("listener"))
          /\ HasRead("listener") <= muxSent["dialer"] /\ HasRead("listener") \in Nat
      BY <1>0, <2>3, UnreadCounts, Lengths
    <3>3. OnWire("dialer") = 0
      BY <2>3, <2>4, <3>1, <3>2
    <3> QED  BY <1>0, <1>3, <2>3, <3>3, Lengths
  <2>6. Asked(Proposed)' \notin Stage("dialer")'.supports
    <3>1. q \notin Stage("listener").supports
      BY <1>1, <1>2, <1>3, <1>q, Distinct DEF Answering, Accepts
    <3>2. Asked(Proposed)' = q
      <4>1. Asked(e + 1)' = q /\ Proposed' = e + 1
        BY <1>2, <1>4, <1>6, <1>q
      <4> QED  BY <4>1 DEF Asked
    <3>3. Stage("dialer")' = Stage("listener")
      BY <1>2, <1>3, <2>1 DEF Stage
    <3> QED  BY <3>1, <3>2, <3>3
  <2>7. /\ OnWire("listener")' = Chosen("dialer")' - Unconfirmed' + 1
        /\ wire'["listener"][OnWire("listener")'] = NA
    BY <1>2, <1>3, <1>4, <2>1
  <2>8. EchoesTo(Chosen("dialer"))' /\ Chosen("listener")' = Chosen("dialer")'
    BY <1>4, <1>5, <2>1 DEF EchoesTo
  <2> QED  BY <1>2, <1>3, <1>6, <2>5, <2>6, <2>7, <2>8 DEF RefusedAwaited
<1>7. CASE ~(phase["dialer"] = "await" /\ e + 1 = Proposed)
  <2>1. PICK b \in Nat : b = e + 1
    OBVIOUS
  <2>2. b <= Chosen("dialer")
    <3>1. CASE phase["dialer"] = "await"
      <4>1. Proposed = Chosen("dialer") + 1
        BY <3>1 DEF Proposed, Bit
      <4> QED  BY <1>2, <1>4, <1>7, <2>1, <3>1, <4>1
    <3>2. CASE phase["dialer"] # "await"
      <4>1. Proposed = Chosen("dialer")
        BY <1>4, <3>2 DEF Proposed, Bit
      <4> QED  BY <1>2, <1>4, <2>1, <4>1
    <3> QED  BY <3>1, <3>2
  <2>3. /\ b \in (Unconfirmed' + 1)..Chosen("dialer")'
        /\ b - Unconfirmed' = OnWire("listener") + 1 /\ b - Unconfirmed' <= OnWire("listener")'
    BY <1>2, <1>3, <1>4, <2>1, <2>2
  <2>4. EchoesTo(b - 1)'
    BY <1>5, <2>1 DEF EchoesTo
  <2> QED  BY <1>3, <2>3, <2>4 DEF RefusedLast
<1> QED  BY <1>6, <1>7

\* In step, the dialer reads the echo of the proposal it awaits or of the first
\* that is expected.
LEMMA AnswerReadInStep ==
  ASSUME IInv, TypeOK', InStep, DialerAwait \/ DialerConfirm, ~Down("dialer")'
  PROVE  InStep' \/ RefusedLast'
<1>0. Basis /\ TypeOK /\ EchoesInStep /\ "listener" = Peer("dialer") /\ Proposed \in Nat
  BY Peers, ViewNumbers DEF IInv, Basis, InStep
<1>1. CASE DialerAwait
  <2>1. /\ Unconfirmed = Chosen("dialer") /\ Proposed = Chosen("dialer") + 1
        /\ Asked(Proposed) = Stage("dialer").offers[tried] /\ Chosen("dialer") \in Nat
    BY <1>1, Awaiting
  <2>2. /\ wire["listener"][1] = Proposal(Stage("dialer").offers[tried])
        /\ Chosen("listener") = Proposed
    BY <1>1, AwaitInStep
  <2>3. /\ phase'["dialer"] = "upgrade" /\ Chosen("dialer")' = Chosen("dialer") + 1
        /\ chosen'["dialer"][Chosen("dialer") + 1] = Stage("dialer").offers[tried]
        /\ \A i \in 1..Chosen("dialer") : chosen'["dialer"][i] = chosen["dialer"][i]
        /\ UNCHANGED <<stage, expecting, muxRead, muxSent>> /\ expecting = <<>>
        /\ phase'["listener"] = phase["listener"] /\ chosen'["listener"] = chosen["listener"]
        /\ Popped("listener")
    BY <1>0, <1>1, <2>2, AwaitEffect DEF Popped
  <2>4. Proposed' = Proposed /\ Unconfirmed' = Unconfirmed + 1 /\ Unconfirmed < Chosen("listener")
    <3>1. Expected = 0 /\ Expected' = 0
      BY <1>0, <2>3, SameLengths, Lengths
    <3>2. Proposed' = Chosen("dialer")'
      BY <2>1, <2>3 DEF Proposed, Bit
    <3> QED  BY <2>1, <2>2, <2>3, <3>1, <3>2 DEF Unconfirmed
  <2>5. \A i \in 1..Proposed : Asked(i)' = Asked(i)
    <3> SUFFICES ASSUME NEW i \in 1..Proposed PROVE Asked(i)' = Asked(i)
      OBVIOUS
    <3>1. CASE i \in 1..Chosen("dialer")
      BY <2>1, <2>3, <3>1 DEF Asked
    <3>2. CASE i = Proposed
      <4>1. Asked(i) = Stage("dialer").offers[tried]
        BY <2>1, <3>2
      <4>2. Asked(i)' = chosen'["dialer"][i]
        BY <2>1, <2>3, <3>2 DEF Asked
      <4> QED  BY <2>1, <2>3, <3>2, <4>1, <4>2
    <3> QED  BY <2>1, <3>1, <3>2
  <2>6. EchoesInStep'
    BY <1>0, <2>3, <2>4, <2>5, EchoesInStepRead
  <2>7. ProposalsInStep'
    BY <1>1, <2>4, <2>5, DialerProposals
  <2> QED  BY <2>6, <2>7 DEF InStep
<1>2. CASE DialerConfirm
  <2>1. /\ Expected > 0 /\ OnWire("listener") > 0 /\ Popped("listener")
        /\ UNCHANGED <<pipeline, stage, tried, chosen, muxRead, muxSent>>
        /\ phase'["listener"] = phase["listener"]
        /\ \/ phase' = phase /\ Expected' = Expected - 1
              /\ wire["listener"][1] = Proposal(expecting[1])
           \/ phase'["dialer"] \in {"broken", "failed"}
    BY <1>0, <1>2, ConfirmEffect DEF Popped
  <2>2. /\ phase' = phase /\ Expected' = Expected - 1
        /\ wire["listener"][1] = Proposal(expecting[1])
    BY <2>1 DEF Down
  <2>3. ~Down("dialer")
    BY <2>2 DEF Down
  <2>4. wire["listener"][1] # NA
    BY <2>2, Distinct
  <2>5. Unconfirmed < Chosen("listener")
    BY <2>1, <2>3, <2>4, NextAnswer
  <2>6. Proposed' = Proposed /\ \A i : Asked(i)' = Asked(i)
    BY <2>1, <2>2, AskedSame, SameLengths DEF Proposed
  <2>7. Unconfirmed' = Unconfirmed + 1
    <3>1. Chosen("dialer")' = Chosen("dialer") /\ Chosen("dialer") \in Nat /\ Expected \in Nat
      BY <1>0, <2>1, SameLengths, Lengths
    <3> QED  BY <2>2, <3>1 DEF Unconfirmed
  <2>8. EchoesInStep'
    BY <1>0, <2>1, <2>5, <2>6, <2>7, EchoesInStepRead
  <2>9. ProposalsInStep'
    BY <1>2, <2>6, DialerProposals
  <2> QED  BY <2>8, <2>9 DEF InStep
<1> QED  BY <1>1, <1>2

LEMMA InStepStep ==
  ASSUME IInv, TypeOK', [Next]_vars, ~Down("dialer")', InStep
  PROVE  InStep' \/ RefusedAwaited' \/ RefusedLast'
<1>0. /\ Basis /\ TypeOK /\ EchoesInStep /\ ProposalsInStep
      /\ "listener" = Peer("dialer") /\ "dialer" = Peer("listener") /\ Proposed \in Nat
  BY Peers, ViewNumbers DEF IInv, Basis, InStep
<1>1. CASE DialerAwait \/ DialerConfirm
  BY <1>1, AnswerReadInStep
<1>2. CASE ~DialerAwait /\ ~DialerConfirm
  <2>1. /\ ~Down("dialer") /\ Proposed' >= Proposed
        /\ \A i \in 1..Proposed : Asked(i)' = Asked(i)
        /\ ~DialerPropose => Proposed' = Proposed
    BY <1>2, AskedSoFar
  <2>2. CASE DialerPropose
    <3>1. Proposed' = Proposed + 1
      <4>1. Proposed = Chosen("dialer") /\ Chosen("dialer") \in Nat
        BY <1>0, <2>2, ProposeEffect, ViewNumbers DEF Proposed, Bit
      <4>2. \/ phase'["dialer"] = "upgrade" /\ Chosen("dialer")' = Chosen("dialer") + 1
            \/ phase'["dialer"] = "await" /\ Chosen("dialer")' = Chosen("dialer")
        BY <1>0, <2>2, ProposeEffect, SameLengths
      <4> QED  BY <4>1, <4>2 DEF Proposed, Bit
    <3> QED  BY <1>0, <2>1, <2>2, <3>1, DialerEchoes, ProposeInStep DEF InStep
  <2>3. CASE ~DialerPropose
    <3>0. Proposed' = Proposed
      BY <2>1, <2>3
    <3>1. CASE DialerFlush
      BY <1>0, <2>1, <3>0, <3>1, DialerEchoes, FlushInStep DEF InStep
    <3>2. CASE SideStep("dialer")
      <4>1. CASE SendKey("dialer")
        BY <1>0, <2>1, <3>0, <4>1, DialerEchoes, SendKeyInStep DEF InStep
      <4>2. CASE PassReady("dialer") \/ StartMuxer("dialer") \/ MuxWrite("dialer")
        BY <1>0, <2>1, <3>0, <4>2, DialerEchoes, DialerProposals DEF InStep
      <4>3. CASE ReadKey("dialer")
        BY <2>1, <3>0, <4>3, KeyReadEchoes, DialerProposals DEF InStep
      <4>4. CASE MuxRead("dialer")
        BY <2>1, <3>0, <4>4, MuxReadEchoes, DialerProposals DEF InStep
      <4>5. CASE Ends("dialer")
        BY <1>0, <4>5, EndsEffect
      <4> QED  BY <3>2, <4>1, <4>2, <4>3, <4>4, <4>5 DEF SideStep
    <3>3. CASE ListenerReceive
      BY <1>0, <2>1, <3>0, <3>3, ListenerEchoes, ReceiveInStep DEF InStep
    <3>4. CASE ListenerSwallow
      BY <1>0, <3>4, SwallowEffect DEF ProposalsInStep, Down
    <3>5. CASE ListenerAnswer
      BY <2>1, <3>0, <3>5, AcceptInStep, RefuseInStep
    <3>6. CASE SideStep("listener")
      <4>1. CASE SendKey("listener")
        BY <1>0, <2>1, <3>0, <4>1, SendKeyEchoes, ListenerProposals DEF InStep
      <4>2. CASE PassReady("listener") \/ StartMuxer("listener") \/ Ends("listener")
        BY <1>0, <2>1, <3>0, <4>2, ListenerEchoes, ListenerProposals DEF InStep
      <4>3. CASE ReadKey("listener")
        BY <1>0, <2>1, <3>0, <4>3, ListenerEchoes, KeyReadInStep DEF InStep
      <4>4. CASE MuxWrite("listener")
        BY <1>0, <2>1, <3>0, <4>4, MuxWriteEchoes, ListenerProposals DEF InStep
      <4>5. CASE MuxRead("listener")
        BY <1>0, <2>1, <3>0, <4>5, ListenerEchoes, MuxReadInStep DEF InStep
      <4> QED  BY <3>6, <4>1, <4>2, <4>3, <4>4, <4>5 DEF SideStep
    <3>7. CASE UNCHANGED vars
      BY <1>0, <2>1, <3>0, <3>7, ListenerEchoes, ListenerProposals DEF InStep
    <3> QED  BY <1>0, <1>2, <2>3, <3>1, <3>2, <3>3, <3>4, <3>5, <3>6, <3>7, Cases
  <2> QED  BY <2>2, <2>3
<1> QED  BY <1>1, <1>2

LEMMA DialerViewStep ==
  ASSUME IInv, TypeOK', ListenerView', [Next]_vars
  PROVE  DialerView'
<1> SUFFICES ASSUME ~Down("dialer")' PROVE InStep' \/ RefusedAwaited' \/ RefusedLast'
  BY DEF DialerView
<1>1. ~Down("dialer")
  <2>1. CASE DialerAwait
    BY <2>1 DEF DialerAwait, Down
  <2> QED  BY <2>1, AskedSoFar
<1>2. InStep \/ RefusedAwaited \/ RefusedLast
  BY <1>1 DEF IInv, DialerView
<1> QED  BY <1>2, InStepStep, RefusedAwaitedStep, RefusedLastStep

-----------------------------------------------------------------------------
(* The invariant, and what follows from it. *)

LEMMA InitInvariant == Init => IInv
<1> SUFFICES ASSUME Init PROVE IInv
  OBVIOUS
<1>1. /\ TypeOK
      /\ \A s \in Side : /\ stage[s] = 1 /\ phase[s] = "select" /\ chosen[s] = <<>>
                         /\ wire[s] = <<>> /\ peer[s] = "none" /\ muxRead[s] = <<>>
                         /\ muxSent[s] = 0
      /\ tried = 0 /\ expecting = <<>> /\ held = <<>> /\ answer = NA /\ garbled = FALSE
  BY InitType DEF Init
<1>2. /\ \A s \in Side : Chosen(s) = 0 /\ OnWire(s) = 0 /\ HasRead(s) = 0 /\ ~Down(s)
                         /\ ~SentKey(s)
      /\ Expected = 0 /\ Held = 0 /\ Unconfirmed = 0 /\ Proposed = 0 /\ Answered = 0
      /\ Ahead(0) = 0 /\ Stages \in Nat /\ Stages > 1
  <2>1. \A s \in Side : Chosen(s) = 0 /\ OnWire(s) = 0 /\ HasRead(s) = 0
    BY <1>1 DEF Chosen, OnWire, HasRead
  <2>2. Expected = 0 /\ Held = 0
    BY <1>1 DEF Expected, Held
  <2>3. \A s \in Side : ~Down(s) /\ ~SentKey(s)
    BY <1>1 DEF Down, SentKey
  <2>4. Unconfirmed = 0 /\ Proposed = 0 /\ Answered = 0 /\ Ahead(0) = 0
    BY <1>1, <2>1, <2>2 DEF Unconfirmed, Proposed, Answered, Ahead, Bit
  <2> QED  BY <1>1, <2>1, <2>2, <2>3, <2>4, Chain
<1>3. Local
  <2> SUFFICES ASSUME NEW s \in Side PROVE Progress(s) /\ Frames(s)
    BY DEF Local
  <2>1. Progress(s)
    BY <1>1, <1>2 DEF Progress
  <2>2. MuxIdle(s) /\ MuxLast(s)
    BY <1>1, <1>2 DEF MuxIdle, MuxLast
  <2>3. MuxInOrder(s)
    BY <1>1, <1>2 DEF MuxInOrder
  <2> QED  BY <2>1, <2>2, <2>3 DEF Frames
<1>4. DialerLocal
  <2>1. Offering
    <3>1. Len(Stage("dialer").offers) > 0
      BY <1>1, <1>2, Chain DEF Stage
    <3> QED  BY <1>1, <3>1 DEF Offering
  <2>2. Holding
    BY <1>1, <1>2 DEF Holding, Bit
  <2>3. Expectation
    BY <1>1, <1>2 DEF Expectation
  <2> QED  BY <2>1, <2>2, <2>3 DEF DialerLocal
<1>5. ListenerLocal
  BY <1>1, <1>2 DEF ListenerLocal
<1>6. InOrderOfPreference
  BY <1>1, <1>2 DEF InOrderOfPreference, RefusedBefore
<1>7. Apart
  BY <1>1, <1>2 DEF Apart, KeyOrder
<1>8. Unread(0)
  BY <1>1, <1>2 DEF Unread
<1>9. EchoesInStep
  <2>1. EchoesTo(Chosen("listener"))
    BY <1>1, <1>2 DEF EchoesTo
  <2>2. Written(0)
    BY <1>1, <1>2 DEF Written
  <2> QED  BY <2>1, <2>2 DEF EchoesInStep
<1>10. ProposalsInStep
  <2>1. OnTheWay(0)
    BY <1>1, <1>2, <1>8 DEF OnTheWay
  <2>2. Answering
    BY <1>1 DEF Answering
  <2> QED  BY <1>1, <2>1, <2>2 DEF ProposalsInStep
<1> QED  BY <1>1, <1>3, <1>4, <1>5, <1>6, <1>7, <1>8, <1>9, <1>10
         DEF IInv, Basis, ListenerView, DialerView, InStep

LEMMA InvariantStep == IInv /\ [Next]_vars => IInv'
<1> SUFFICES ASSUME IInv, [Next]_vars PROVE IInv'
  OBVIOUS
<1>1. TypeOK'
  BY TypeStep DEF IInv, Basis
<1>2. Local' /\ DialerLocal' /\ ListenerLocal'
  BY <1>1, LocalStep, DialerLocalStep, ListenerLocalStep
<1>3. InOrderOfPreference' /\ Apart' /\ ListenerView'
  BY <1>1, OrderStep, ApartStep, ListenerViewStep
<1>4. DialerView'
  BY <1>1, <1>3, DialerViewStep
<1> QED  BY <1>1, <1>2, <1>3, <1>4 DEF IInv, Basis

LEMMA Invariant == Spec => []IInv
<1>1. Init => IInv
  BY InitInvariant
<1>2. IInv /\ [Next]_vars => IInv'
  BY InvariantStep
<1> QED  BY <1>1, <1>2, PTL DEF Spec

LEMMA Agreement ==
  ASSUME IInv
  PROVE  StagesAgree
<1>0. /\ Basis /\ TypeOK /\ Apart /\ InOrderOfPreference /\ ListenerLocal /\ Expectation
  BY DEF IInv, Basis, DialerLocal
<1>1. /\ Unconfirmed \in Nat /\ Chosen("dialer") \in Nat /\ Chosen("listener") \in Nat
      /\ Expected \in Nat /\ Unconfirmed <= Chosen("dialer") /\ Unconfirmed <= Chosen("listener")
  <2>1. /\ Unconfirmed \in Nat /\ Chosen("dialer") \in Nat /\ Chosen("listener") \in Nat
        /\ Expected \in Nat
    BY <1>0, ViewNumbers
  <2> QED  BY <1>0, <2>1 DEF Apart, Unconfirmed
<1>2. /\ Len(Confirmed) = Unconfirmed
      /\ \A k \in 1..Unconfirmed : Confirmed[k] = chosen["dialer"][k]
  <2>1. Confirmed = SubSeq(chosen["dialer"], 1, Unconfirmed)
    BY DEF Confirmed, Unconfirmed, Chosen, Expected
  <2>2. chosen["dialer"] \in Seq(Name) /\ Len(chosen["dialer"]) = Chosen("dialer")
    BY <1>0, Types DEF Chosen
  <2> QED  BY <1>1, <2>1, <2>2
<1>3. ASSUME NEW k \in 1..Unconfirmed
      PROVE  Confirmed[k] = chosen["listener"][k] /\ FirstSupported(k)
  <2>1. /\ Confirmed[k] = chosen["dialer"][k] /\ chosen["listener"][k] = chosen["dialer"][k]
        /\ k \in 1..Chosen("dialer") /\ k \in 1..Chosen("listener")
    BY <1>0, <1>1, <1>2 DEF Apart
  <2>2. PICK j \in 1..Len(pipeline[k].offers) :
          chosen["dialer"][k] = pipeline[k].offers[j] /\ RefusedBefore(k, j)
    BY <1>0, <2>1 DEF InOrderOfPreference
  <2>3. chosen["dialer"][k] \in pipeline[k].supports
    BY <1>0, <2>1 DEF ListenerLocal
  <2>4. j \in DOMAIN pipeline[k].offers
    <3>1. k \in 1..Stages
      <4>1. Chosen("dialer") <= Stages /\ Stages \in Nat
        BY <1>0, Connected, Chain
      <4> QED  BY <1>1, <2>1, <4>1
    <3>2. pipeline[k].offers \in Seq(Name)
      BY <1>0, <3>1, Chain
    <3> QED  BY <2>2, <3>2
  <2> QED  BY <2>1, <2>2, <2>3, <2>4 DEF FirstSupported, RefusedBefore
<1> QED  BY <1>1, <1>2, <1>3 DEF StagesAgree, Chosen

LEMMA HandOut ==
  ASSUME IInv
  PROVE  CleanHandOut
<1>0. TypeOK /\ Basis
  BY DEF IInv, Basis
<1> SUFFICES ASSUME NEW s \in Side
             PROVE  /\ phase[s] \in {"connected", "broken"} => peer[s] = Peer(s)
                    /\ muxRead[s] = [i \in 1..Len(muxRead[s]) |-> MuxFrame(Peer(s), i)]
  BY DEF CleanHandOut
<1>1. Progress(s) /\ MuxInOrder(s)
  BY <1>0 DEF Basis, Local, Frames
<1>2. phase[s] \in {"connected", "broken"} => peer[s] = Peer(s)
  BY <1>0, <1>1, Connected DEF Progress
<1> QED  BY <1>1, <1>2 DEF MuxInOrder, HasRead

-----------------------------------------------------------------------------
(* The theorems. *)

\* Every variable keeps its type: the phases of the state machines, the stage
\* within the chain, and no more proposals held back than the Expecting streams
\* and the proposal that is awaited account for.
THEOREM TypeCorrect == Spec => []TypeOK
<1>1. IInv => TypeOK
  BY DEF IInv, Basis
<1> QED  BY <1>1, Invariant, PTL

\* For every chain of upgrades Builder can make, every list of names the dialer
\* offers and every set the listener supports: what the dialer has confirmed at
\* a stage is what the listener has chosen at that stage, and the first offer
\* the listener supports, although the dialer goes on to later stages, and
\* proposes there, before any answer has come.
THEOREM StagesAlwaysAgree == Spec => []StagesAgree
<1>1. IInv => StagesAgree
  BY Agreement
<1> QED  BY <1>1, Invariant, PTL

\* A connection is handed out with the identity of the other end, and its muxer
\* reads exactly what the other muxer has written: no proposal, answer or key
\* of any stage is left on the stream for it.
THEOREM HandsOutClean == Spec => []CleanHandOut
<1>1. IInv => CleanHandOut
  BY HandOut
<1> QED  BY <1>1, Invariant, PTL
=============================================================================
