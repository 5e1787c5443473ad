-------------------------- MODULE StreamSelectProofs --------------------------
(***************************************************************************)
(* Proofs about StreamSelect for every list of protocols, every transport  *)
(* capacity and every number of writes and faults: its types, agreement,   *)
(* the choice of protocol and the refinement of Negotiation, from the      *)
(* invariant Alternation: a proposal and its answer strictly alternate on  *)
(* the stream until the dialer has read the answer to its last proposal,   *)
(* whatever data follows that proposal.                                    *)
(***************************************************************************)
EXTENDS StreamSelect, TLAPS

USE DEF Side

-----------------------------------------------------------------------------
(* Facts about the vocabulary. *)

LEMMA Peers ==
    /\ Peer("dialer") = "listener"
    /\ Peer("listener") = "dialer"
    /\ \A s \in Side : Peer(s) \in Side /\ Peer(s) # s
BY DEF Peer

\* The three kinds of token differ, and a proposal determines its name.
LEMMA Kinds ==
    /\ \A p, q : Proposal(p) = Proposal(q) => p = q
    /\ \A p : Proposal(p) # NA
    /\ \A n : Chunk(n) \notin Message
<1>1. \A p, q : Proposal(p) = Proposal(q) => p = q
  <2>1. \A p : Proposal(p).val = p
    BY DEF Proposal
  <2> QED  BY <2>1
<1>2. \A p : Proposal(p).kind = "protocol" /\ NA.kind = "na"
  BY DEF Proposal, NA
<1>3. \A n : Chunk(n).kind = "data"
  BY DEF Chunk
<1>4. \A m \in Message : m.kind \in {"protocol", "na"}
  BY <1>2 DEF Message
<1> QED  BY <1>1, <1>2, <1>3, <1>4

LEMMA Tokens ==
    /\ Message \subseteq Token
    /\ NA \in Message
    /\ \A p \in Name : Proposal(p) \in Message
    /\ \A p \in Name : Reply(p) \in Message
    /\ Lookalikes \subseteq Token
    /\ \A n \in 1..MaxWrites : Chunk(n) \in Token
BY NamesAssumption DEF Token, Message, Reply

-----------------------------------------------------------------------------
(* Type correctness. *)

\* One successful write keeps both ends of the pipe well typed.
LEMMA WriteOutType ==
  ASSUME TypeOK, NEW s \in Side, WriteOut(s)
  PROVE  /\ wire' \in [Side -> Seq(Token)]
         /\ buf' \in [Side -> Seq(Token)]
         /\ closed' = closed /\ gone' = gone
BY DEF TypeOK, WriteOut

LEMMA ConsumeType ==
  ASSUME TypeOK, NEW s \in Side, Readable(s), Consume(s)
  PROVE  wire' \in [Side -> Seq(Token)] /\ Next1(s) \in Token
BY Peers DEF TypeOK, Readable, Consume, Next1

LEMMA DropType ==
  ASSUME TypeOK, NEW s \in Side, Drop(s)
  PROVE  /\ buf' \in [Side -> Seq(Token)]
         /\ closed' \in [Side -> BOOLEAN]
         /\ gone' \in [Side -> BOOLEAN]
BY DEF TypeOK, Drop

LEMMA GotoType ==
  ASSUME TypeOK, NEW s \in Side, NEW st, Goto(s, st),
         s = "dialer" => st \in DialerStates,
         s = "listener" => st \in ListenerStates
  PROVE  /\ state' \in [Side -> DialerStates \cup ListenerStates]
         /\ state'["dialer"] \in DialerStates
         /\ state'["listener"] \in ListenerStates
BY DEF TypeOK, Goto

LEMMA FailType ==
  ASSUME TypeOK, NEW s \in Side, Fail(s)
  PROVE  /\ state' \in [Side -> DialerStates \cup ListenerStates]
         /\ state'["dialer"] \in DialerStates
         /\ state'["listener"] \in ListenerStates
         /\ buf' \in [Side -> Seq(Token)]
         /\ closed' \in [Side -> BOOLEAN]
         /\ gone' \in [Side -> BOOLEAN]
<1>1. Goto(s, "Done") /\ Drop(s)
  BY DEF Fail
<1>2. "Done" \in DialerStates /\ "Done" \in ListenerStates
  BY DEF DialerStates, ListenerStates
<1> QED  BY <1>1, <1>2, GotoType, DropType

LEMMA FaultType ==
  ASSUME TypeOK, Fault \/ UNCHANGED faults
  PROVE  faults' \in 0..MaxFaults
BY BoundsAssumption DEF TypeOK, Fault

LEMMA TakeNextType ==
  ASSUME TypeOK, TakeNext
  PROVE  /\ taken' \in 0..Len(offered)
         /\ state' \in [Side -> DialerStates \cup ListenerStates]
         /\ state'["dialer"] \in DialerStates
         /\ state'["listener"] \in ListenerStates
         /\ buf' \in [Side -> Seq(Token)]
         /\ closed' \in [Side -> BOOLEAN]
         /\ gone' \in [Side -> BOOLEAN]
<1>1. CASE taken < Len(offered) /\ taken' = taken + 1
           /\ Goto("dialer", "SendProtocol") /\ UNCHANGED <<buf, closed, gone>>
  <2>1. taken' \in 0..Len(offered)
    BY <1>1 DEF TypeOK
  <2>2. "SendProtocol" \in DialerStates
    BY DEF DialerStates
  <2>3. state' \in [Side -> DialerStates \cup ListenerStates]
        /\ state'["dialer"] \in DialerStates /\ state'["listener"] \in ListenerStates
    BY <1>1, <2>2, GotoType
  <2> QED  BY <1>1, <2>1, <2>3 DEF TypeOK
<1>2. CASE Fail("dialer") /\ UNCHANGED taken
  BY <1>2, FailType DEF TypeOK
<1> QED  BY <1>1, <1>2 DEF TakeNext

LEMMA InitType == Init => TypeOK
<1> SUFFICES ASSUME Init PROVE TypeOK
  OBVIOUS
<1> USE DEF Init
<1>1. offered \in Seq(Name) /\ supported \in Seq(Name) /\ taken \in 0..Len(offered)
  BY NamesAssumption
<1>2. answer \in Message /\ misframed \in BOOLEAN
  BY Tokens
<1>3. /\ state \in [Side -> DialerStates \cup ListenerStates]
      /\ state["dialer"] \in DialerStates /\ state["listener"] \in ListenerStates
  BY DEF DialerStates, ListenerStates
<1>4. /\ buf \in [Side -> Seq(Token)] /\ wire \in [Side -> Seq(Token)]
      /\ wrote \in [Side -> Seq(Token)] /\ read \in [Side -> Seq(Token)]
  <2>1. <<>> \in Seq(Token)
    OBVIOUS
  <2> QED  BY <2>1
<1>5. closed \in [Side -> BOOLEAN] /\ gone \in [Side -> BOOLEAN]
  OBVIOUS
<1>6. panic \in {"none", "into_inner", "invalid_state"} /\ faults \in 0..MaxFaults
  BY BoundsAssumption
<1> QED  BY <1>1, <1>2, <1>3, <1>4, <1>5, <1>6 DEF TypeOK

LEMMA IntoInnerType ==
  ASSUME TypeOK, NEW s \in Side, IntoInner(s)
  PROVE  panic' \in {"none", "into_inner", "invalid_state"}
BY DEF IntoInner, TypeOK

LEMMA DialerType ==
  ASSUME TypeOK, DialerStep
  PROVE  TypeOK'
<1>1. CASE DialerInitial
  BY <1>1, TakeNextType DEF DialerInitial, TypeOK, setup, history
<1>2. CASE DialerSend
  <2> USE <1>2 DEF DialerSend, setup, history
  <2>1. CASE Fail("dialer") /\ UNCHANGED wire
    BY <2>1, FailType DEF TypeOK
  <2>2. CASE /\ StartSend("dialer", Proposal(Current))
             /\ Goto("dialer", IF taken < Len(offered) THEN "FlushProtocol"
                                                       ELSE "Expecting")
    <3>1. state["dialer"] = "SendProtocol"
      OBVIOUS
    <3>2. Proposal(Current) \in Token
      <4>1. CASE Current \in ValidName
        BY <4>1, Tokens, NamesAssumption
      <4>2. CASE Current \notin ValidName /\ Fail("dialer")
        BY <4>2, <2>2 DEF Fail, Drop, StartSend, TypeOK, Goto
      <4> QED  BY <4>1, <4>2
    <3>3. buf' \in [Side -> Seq(Token)]
      BY <2>2, <3>2 DEF StartSend, TypeOK
    <3>4. state' \in [Side -> DialerStates \cup ListenerStates]
          /\ state'["dialer"] \in DialerStates /\ state'["listener"] \in ListenerStates
      BY <2>2 DEF Goto, TypeOK, DialerStates
    <3> QED  BY <2>2, <3>3, <3>4 DEF StartSend, TypeOK
  <2> QED  BY <2>1, <2>2
<1>3. CASE DialerFlush
  <2> USE <1>3 DEF DialerFlush, setup, history, transport
  <2>1. CASE WriteOut("dialer") /\ UNCHANGED <<state, faults>>
    BY <2>1, WriteOutType DEF TypeOK
  <2>2. CASE Goto("dialer", "AwaitProtocol") /\ UNCHANGED <<transport, faults>>
    BY <2>2, GotoType DEF TypeOK, DialerStates
  <2>3. CASE WriteFails("dialer") /\ Fail("dialer") /\ UNCHANGED wire
    BY <2>3, FailType, FaultType DEF TypeOK, WriteFails
  <2> QED  BY <2>1, <2>2, <2>3
<1>4. CASE DialerAwaitMessage
  <2> USE <1>4 DEF DialerAwaitMessage, setup, history
  <2>1. wire' \in [Side -> Seq(Token)]
    BY ConsumeType
  <2>2. CASE /\ UNCHANGED <<taken, buf, closed, gone>>
             /\ (Goto("dialer", "Completed") /\ IntoInner("dialer"))
                \/ (Goto("dialer", "Initial") /\ UNCHANGED panic)
    <3>1. panic' \in {"none", "into_inner", "invalid_state"}
      BY <2>2, IntoInnerType DEF TypeOK, Side
    <3> QED  BY <2>1, <2>2, <3>1, GotoType DEF TypeOK, DialerStates
  <2>3. CASE TakeNext /\ UNCHANGED panic
    BY <2>1, <2>3, TakeNextType DEF TypeOK
  <2>4. CASE Fail("dialer") /\ UNCHANGED <<taken, panic>>
    BY <2>1, <2>4, FailType DEF TypeOK
  <2> QED  BY <2>2, <2>3, <2>4
<1>5. CASE DialerAwaitFails
  BY <1>5, FailType, FaultType DEF DialerAwaitFails, TypeOK, setup, history
<1> QED  BY <1>1, <1>2, <1>3, <1>4, <1>5 DEF DialerStep

LEMMA ListenerType ==
  ASSUME TypeOK, ListenerStep
  PROVE  TypeOK'
<1>1. CASE ListenerRecvFrame
  <2> USE <1>1 DEF ListenerRecvFrame, setup, history
  <2>1. wire' \in [Side -> Seq(Token)]
    BY ConsumeType
  <2>2. CASE \E p \in Name : answer' = Reply(p) /\ Goto("listener", "SendMessage")
                             /\ UNCHANGED <<buf, closed, gone>>
    BY <2>1, <2>2, GotoType, Tokens DEF TypeOK, ListenerStates
  <2>3. CASE Fail("listener") /\ UNCHANGED answer
    BY <2>1, <2>3, FailType DEF TypeOK
  <2> QED  BY <2>2, <2>3
<1>2. CASE ListenerRecvData
  <2> USE <1>2 DEF ListenerRecvData, setup, history
  <2>1. wire' \in [Side -> Seq(Token)]
    BY ConsumeType
  <2>2. CASE Fail("listener") /\ UNCHANGED misframed
    BY <2>1, <2>2, FailType DEF TypeOK
  <2>3. CASE misframed' = TRUE /\ UNCHANGED <<state, buf, closed, gone>>
    BY <2>1, <2>3 DEF TypeOK
  <2> QED  BY <2>2, <2>3
<1>3. CASE ListenerRecvFails
  BY <1>3, FailType, FaultType DEF ListenerRecvFails, TypeOK, setup, history
<1>4. CASE ListenerSend
  <2>1. buf' \in [Side -> Seq(Token)]
    BY <1>4, Tokens DEF ListenerSend, StartSend, TypeOK
  <2> QED  BY <1>4, <2>1, GotoType
           DEF ListenerSend, StartSend, TypeOK, ListenerStates, setup, history
<1>5. CASE ListenerFlush
  <2> USE <1>5 DEF ListenerFlush, setup, history, transport
  <2>1. CASE WriteOut("listener") /\ UNCHANGED <<state, faults, panic>>
    BY <2>1, WriteOutType DEF TypeOK
  <2>2. CASE /\ UNCHANGED <<transport, faults>>
             /\ (Goto("listener", "Completed") /\ IntoInner("listener"))
                \/ (Goto("listener", "RecvMessage") /\ UNCHANGED panic)
    <3>1. panic' \in {"none", "into_inner", "invalid_state"}
      BY <2>2, IntoInnerType DEF TypeOK, Side
    <3> QED  BY <2>2, <3>1, GotoType DEF TypeOK, ListenerStates
  <2>3. CASE WriteFails("listener") /\ Fail("listener") /\ UNCHANGED <<wire, panic>>
    BY <2>3, FailType, FaultType DEF TypeOK, WriteFails
  <2> QED  BY <2>1, <2>2, <2>3
<1> QED  BY <1>1, <1>2, <1>3, <1>4, <1>5 DEF ListenerStep

\* The chunk an application writes next is within the bound.
LEMMA NextChunk ==
  ASSUME NEW w \in Seq(Token), Len(w) < MaxWrites
  PROVE  Len(w) + 1 \in 1..MaxWrites
<1>1. Len(w) \in Nat
  OBVIOUS
<1> QED  BY <1>1, BoundsAssumption

LEMMA AppType ==
  ASSUME TypeOK, AppStep
  PROVE  TypeOK'
<1>1. CASE ExpectingFlush
  BY <1>1, WriteOutType DEF ExpectingFlush, TypeOK, setup, history
<1>2. CASE PollNegotiated
  <2> USE <1>2 DEF PollNegotiated, setup, history
  <2>1. faults' \in 0..MaxFaults
    BY FaultType
  <2>2. CASE Readable("dialer") /\ Consume("dialer") /\ Goto("dialer", "Completed")
             /\ IntoInner("dialer") /\ UNCHANGED <<buf, closed, gone>>
    BY <2>1, <2>2, ConsumeType, GotoType, IntoInnerType DEF TypeOK, DialerStates, Side
  <2>3. CASE Readable("dialer") /\ Consume("dialer") /\ Goto("dialer", "Invalid")
             /\ Drop("dialer") /\ UNCHANGED panic
    BY <2>1, <2>3, ConsumeType, GotoType, DropType DEF TypeOK, DialerStates
  <2>4. CASE Goto("dialer", "Invalid") /\ Drop("dialer") /\ UNCHANGED <<wire, panic>>
    BY <2>1, <2>4, GotoType, DropType DEF TypeOK, DialerStates
  <2> QED  BY <2>2, <2>3, <2>4
<1>3. CASE PollNegotiatedFails
  BY <1>3, GotoType, DropType, FaultType
     DEF PollNegotiatedFails, TypeOK, DialerStates, setup, history
<1>4. CASE UseInvalid
  BY <1>4 DEF UseInvalid, TypeOK, setup, transport, history
<1>5. ASSUME NEW s \in Side, AppWrite(s)
      PROVE  TypeOK'
  <2>1. PICK t \in {Chunk(Len(wrote[s]) + 1)} \cup Lookalikes :
          /\ wire' = [wire EXCEPT ![s] = Append(@, t)]
          /\ wrote' = [wrote EXCEPT ![s] = Append(@, t)]
    BY <1>5 DEF AppWrite
  <2>2. Len(wrote[s]) < MaxWrites
    BY <1>5 DEF AppWrite
  <2>3. wrote[s] \in Seq(Token) /\ wire[s] \in Seq(Token)
    BY DEF TypeOK
  <2>4. Len(wrote[s]) + 1 \in 1..MaxWrites
    BY <2>2, <2>3, NextChunk
  <2>5. t \in Token
    BY <2>4, Tokens
  <2>6. wire' \in [Side -> Seq(Token)]
    BY <2>1, <2>3, <2>5 DEF TypeOK
  <2>7. wrote' \in [Side -> Seq(Token)]
    BY <2>1, <2>3, <2>5 DEF TypeOK
  <2> QED  BY <1>5, <2>6, <2>7 DEF AppWrite, TypeOK, setup
<1>6. ASSUME NEW s \in Side, AppRead(s)
      PROVE  TypeOK'
  <2> USE <1>6 DEF AppRead, setup
  <2>1. wire' \in [Side -> Seq(Token)] /\ Next1(s) \in Token
    BY ConsumeType
  <2> QED  BY <2>1 DEF TypeOK
<1>7. ASSUME NEW s \in Side, AppClose(s)
      PROVE  TypeOK'
  BY <1>7 DEF AppClose, TypeOK, setup, history
<1>8. ASSUME NEW s \in Side, AppDrop(s)
      PROVE  TypeOK'
  BY <1>8, DropType DEF AppDrop, TypeOK, setup, history
<1> QED  BY <1>1, <1>2, <1>3, <1>4, <1>5, <1>6, <1>7, <1>8 DEF AppStep

LEMMA StutterType ==
  ASSUME TypeOK, UNCHANGED vars
  PROVE  TypeOK'
BY DEF TypeOK, vars

\* Every variable keeps its type: in particular each side only ever is in a
\* state of its own future or of the stream that future returned.
THEOREM TypeCorrect == Spec => []TypeOK
<1>1. TypeOK /\ [Next]_vars => TypeOK'
  BY DialerType, ListenerType, AppType, StutterType DEF Next, Finished
<1> QED  BY InitType, <1>1, PTL DEF Spec

-----------------------------------------------------------------------------
(* Agreement. *)

LEMMA ReplyKinds ==
    /\ \A p : p \in Listening => Reply(p) = Proposal(p)
    /\ \A p : p \notin Listening => Reply(p) = NA
    /\ \A p : Proposal(p) # NA
BY Kinds DEF Reply

\* A pipe written to keeps the token that is read next.
LEMMA Pipes ==
  ASSUME NEW w \in Seq(Token), NEW t \in Token
  PROVE  /\ Append(w, t) # <<>> /\ Append(w, t) \in Seq(Token)
         /\ w # <<>> => Head(Append(w, t)) = Head(w)
         /\ w = <<>> => Append(w, t) = <<t>>
         /\ Head(<<t>>) = t /\ Tail(<<t>>) = <<>> /\ <<t>> # <<>>
<1>0. Append(w, t) \in Seq(Token)
  OBVIOUS
<1>1. Append(w, t) # <<>>
  <2>1. Len(Append(w, t)) = Len(w) + 1 /\ Len(w) \in Nat
    OBVIOUS
  <2>2. Len(<<>>) = 0
    OBVIOUS
  <2> QED  BY <2>1, <2>2
<1>2. w # <<>> => Head(Append(w, t)) = Head(w)
  OBVIOUS
<1>3. w = <<>> => Append(w, t) = <<t>>
  OBVIOUS
<1>4. Head(<<t>>) = t /\ Tail(<<t>>) = <<>> /\ <<t>> # <<>>
  OBVIOUS
<1> QED  BY <1>0, <1>1, <1>2, <1>3, <1>4

\* Writing to the listener's pipe does not change what the dialer reads next.
LEMMA PushAnswer ==
  ASSUME TypeOK, NEW t \in Token, wire["listener"] # <<>>,
         wire' = [wire EXCEPT !["listener"] = Append(@, t)]
  PROVE  /\ wire'["listener"] # <<>>
         /\ Head(wire'["listener"]) = Head(wire["listener"])
         /\ wire'["dialer"] = wire["dialer"]
<1>1. wire["listener"] \in Seq(Token)
  BY DEF TypeOK
<1>2. wire'["listener"] = Append(wire["listener"], t) /\ wire'["dialer"] = wire["dialer"]
  BY DEF TypeOK
<1> QED  BY <1>1, <1>2, Pipes

LEMMA WrittenToken ==
  ASSUME TypeOK, NEW s \in Side, AppWrite(s)
  PROVE  {Chunk(Len(wrote[s]) + 1)} \cup Lookalikes \subseteq Token
<1>1. wrote[s] \in Seq(Token) /\ Len(wrote[s]) < MaxWrites
  BY DEF TypeOK, AppWrite
<1>2. Len(wrote[s]) + 1 \in 1..MaxWrites
  BY <1>1, NextChunk
<1> QED  BY <1>2, Tokens

\* What the listener's side does, polled or used by its application.
ListenerApp == AppWrite("listener") \/ AppRead("listener")
               \/ AppClose("listener") \/ AppDrop("listener")
ListenerAct == ListenerStep \/ ListenerApp

\* It leaves the dialer alone.
LEMMA ListenerFrame ==
  ASSUME TypeOK, ListenerAct
  PROVE  /\ state'["dialer"] = state["dialer"]
         /\ gone'["dialer"] = gone["dialer"]
         /\ buf'["dialer"] = buf["dialer"]
         /\ taken' = taken /\ offered' = offered /\ supported' = supported
         /\ panic' = panic
<1>1. CASE ListenerRecvFrame
  BY <1>1 DEF ListenerRecvFrame, TypeOK, Goto, Fail, Drop, setup
<1>2. CASE ListenerRecvData
  BY <1>2 DEF ListenerRecvData, TypeOK, Goto, Fail, Drop, setup
<1>3. CASE ListenerRecvFails
  BY <1>3 DEF ListenerRecvFails, TypeOK, Goto, Fail, Drop, setup
<1>4. CASE ListenerSend
  BY <1>4 DEF ListenerSend, TypeOK, Goto, StartSend, setup
<1>5. CASE ListenerFlush
  BY <1>5 DEF ListenerFlush, IntoInner, TypeOK, Goto, Fail, Drop, WriteOut, setup, transport
<1>6. CASE ListenerApp
  BY <1>6 DEF ListenerApp, AppWrite, AppRead, AppClose, AppDrop, Drop, TypeOK, setup
<1> QED  BY <1>1, <1>2, <1>3, <1>4, <1>5, <1>6 DEF ListenerAct, ListenerStep

\* An idle listener stays idle or fails, unless it reads a proposal.
LEMMA IdleStep ==
  ASSUME TypeOK, ListenerIdle, ListenerAct
  PROVE  \/ /\ ListenerIdle' \/ ListenerLost'
            /\ wire'["dialer"] = wire["dialer"]
         \/ /\ wire["dialer"] # <<>>
            /\ wire'["dialer"] = Tail(wire["dialer"])
            /\ \/ ListenerLost'
               \/ /\ Head(wire["dialer"]) \notin Message
                  /\ state' = state /\ answer' = answer
               \/ \E p \in Name :
                    /\ Head(wire["dialer"]) = Proposal(p)
                    /\ Deciding(p)' /\ ~misframed'
<1> USE DEF ListenerIdle, ListenerLost
<1>1. CASE ListenerRecvFrame
  <2> USE <1>1 DEF ListenerRecvFrame
  <2>1. /\ wire["dialer"] # <<>> /\ wire'["dialer"] = Tail(wire["dialer"])
        /\ wire'["listener"] = <<>> /\ Next1("listener") = Head(wire["dialer"])
    BY Peers DEF Readable, Consume, Next1, TypeOK
  <2>2. CASE Fail("listener")
    BY <2>1, <2>2 DEF Fail, Drop, Goto, TypeOK
  <2>3. ASSUME NEW p \in Name, Next1("listener") = Proposal(p), answer' = Reply(p),
               Goto("listener", "SendMessage"), UNCHANGED buf
        PROVE  Head(wire["dialer"]) = Proposal(p) /\ Deciding(p)' /\ ~misframed'
    BY <2>1, <2>3 DEF Goto, TypeOK, Deciding, Reply, Listening, setup
  <2> QED  BY <2>1, <2>2, <2>3
<1>2. CASE ListenerRecvData
  <2> USE <1>2 DEF ListenerRecvData
  <2>1. /\ wire["dialer"] # <<>> /\ wire'["dialer"] = Tail(wire["dialer"])
        /\ wire'["listener"] = <<>> /\ Next1("listener") = Head(wire["dialer"])
    BY Peers DEF Readable, Consume, Next1, TypeOK
  <2> QED  BY <2>1 DEF Fail, Drop, Goto, TypeOK
<1>3. CASE ListenerRecvFails
  BY <1>3 DEF ListenerRecvFails, Fail, Drop, Goto, TypeOK
<1>4. CASE ListenerFlush
  BY <1>4 DEF ListenerFlush, WriteOut, Fail, Drop, Goto, TypeOK, transport
<1>5. ~ListenerSend /\ ~ListenerApp
  BY DEF ListenerSend, ListenerApp, AppWrite, AppRead, AppClose, AppDrop, Usable
<1> QED  BY <1>1, <1>2, <1>3, <1>4, <1>5 DEF ListenerAct, ListenerStep

\* A listener that has failed never answers.
LEMMA LostStep ==
  ASSUME TypeOK, ListenerLost, ListenerAct
  PROVE  FALSE
BY DEF ListenerLost, ListenerAct, ListenerStep, ListenerRecvFrame,
       ListenerRecvData, ListenerRecvFails, ListenerSend, ListenerFlush,
       ListenerApp, AppWrite, AppRead, AppClose, AppDrop, Usable

\* A listener that decides on p answers p, or fails.
LEMMA DecidingStep ==
  ASSUME TypeOK, NEW p \in Name, Deciding(p), ListenerAct
  PROVE  /\ wire'["dialer"] = wire["dialer"] /\ misframed' = misframed
         /\ \/ Deciding(p)'
            \/ ListenerLost'
            \/ Accepted(p)'
            \/ /\ p \notin Listening'
               /\ answer' = NA
               /\ wire'["listener"] = <<NA>> /\ buf'["listener"] = <<>>
               /\ state'["listener"] = "Flush"
<1> USE DEF Deciding
<1>1. CASE ListenerSend
  <2>1. buf'["listener"] = <<answer>>
    BY <1>1, Pipes, Tokens DEF ListenerSend, StartSend, TypeOK
  <2> QED  BY <1>1, <2>1 DEF ListenerSend, StartSend, Goto, TypeOK, setup, Reply, Listening
<1>2. CASE ListenerFlush
  <2> USE <1>2 DEF ListenerFlush
  <2>1. CASE WriteOut("listener") /\ UNCHANGED state
    <3>0. Head(<<answer>>) = answer /\ Tail(<<answer>>) = <<>>
          /\ Append(<<>>, answer) = <<answer>> /\ <<answer>> # <<>>
      BY Pipes, Tokens DEF TypeOK
    <3>1. /\ wire'["listener"] = <<answer>> /\ buf'["listener"] = <<>>
          /\ wire'["dialer"] = wire["dialer"]
      BY <2>1, <3>0 DEF WriteOut, TypeOK
    <3>2. answer' = answer /\ Listening' = Listening /\ misframed' = misframed
      BY DEF Listening, setup
    <3>3. state'["listener"] = "Flush"
      BY <2>1 DEF WriteOut
    <3> QED  BY <3>0, <3>1, <3>2, <3>3, ReplyKinds DEF Accepted
  <2>2. CASE buf["listener"] = <<>>
    BY <2>2
  <2>3. CASE Fail("listener") /\ UNCHANGED wire
    BY <2>3 DEF Fail, Drop, Goto, TypeOK, ListenerLost
  <2> QED  BY <2>1, <2>2, <2>3
<1>3. /\ ~ListenerRecvFrame /\ ~ListenerRecvData /\ ~ListenerRecvFails
      /\ ~ListenerApp
  BY DEF ListenerRecvFrame, ListenerRecvData, ListenerRecvFails, ListenerApp,
         AppWrite, AppRead, AppClose, AppDrop, Usable
<1> QED  BY <1>1, <1>2, <1>3 DEF ListenerAct, ListenerStep

\* Once the acceptance is on the wire it stays the next thing to read.
LEMMA AcceptedStep ==
  ASSUME TypeOK, NEW p \in Name, Accepted(p), ListenerAct
  PROVE  /\ Accepted(p)'
         /\ wire["dialer"] = <<>> => wire'["dialer"] = <<>>
         /\ misframed' = misframed
<1> USE DEF Accepted
<1>0. Listening' = Listening
  BY ListenerFrame DEF Listening
<1>1. CASE ListenerFlush
  <2> USE <1>1 DEF ListenerFlush
  <2>1. CASE WriteOut("listener") /\ UNCHANGED state
    <3>1. PICK t \in Token : wire' = [wire EXCEPT !["listener"] = Append(@, t)]
      <4>1. Head(buf["listener"]) \in Token
        BY <2>1 DEF WriteOut, TypeOK
      <4> QED  BY <4>1, <2>1 DEF WriteOut
    <3> QED  BY <2>1, <1>0, <3>1, PushAnswer
  <2>2. CASE UNCHANGED transport /\
             Goto("listener", IF answer = NA THEN "RecvMessage" ELSE "Completed")
    BY <2>2, <1>0, ReplyKinds DEF transport, TypeOK, Goto
  <2>3. CASE Fail("listener") /\ UNCHANGED wire
    BY <2>3, <1>0 DEF Fail, Drop, Goto, TypeOK
  <2> QED  BY <2>1, <2>2, <2>3
<1>2. CASE AppWrite("listener")
  <2>1. PICK t \in Token : wire' = [wire EXCEPT !["listener"] = Append(@, t)]
    BY <1>2, WrittenToken DEF AppWrite
  <2> QED  BY <1>2, <1>0, <2>1, PushAnswer DEF AppWrite
<1>3. CASE AppRead("listener")
  BY <1>3, <1>0, Peers DEF AppRead, Consume, Readable, TypeOK, setup
<1>4. CASE AppClose("listener") \/ AppDrop("listener")
  BY <1>4, <1>0 DEF AppClose, AppDrop, TypeOK, setup
<1>5. ~ListenerRecvFrame /\ ~ListenerRecvData /\ ~ListenerRecvFails /\ ~ListenerSend
  BY DEF ListenerRecvFrame, ListenerRecvData, ListenerRecvFails, ListenerSend
<1> QED  BY <1>1, <1>2, <1>3, <1>4, <1>5 DEF ListenerAct, ListenerStep, ListenerApp

\* Only the dialer takes from the listener's pipe.
LEMMA HeadStable ==
  ASSUME TypeOK, ListenerAct, wire["listener"] # <<>>
  PROVE  wire'["listener"] # <<>> /\ Head(wire'["listener"]) = Head(wire["listener"])
<1>1. CASE WriteOut("listener")
  <2>1. Head(buf["listener"]) \in Token
    BY <1>1 DEF WriteOut, TypeOK
  <2> QED  BY <1>1, <2>1, PushAnswer DEF WriteOut
<1>2. CASE AppWrite("listener")
  <2>1. PICK t \in Token : wire' = [wire EXCEPT !["listener"] = Append(@, t)]
    BY <1>2, WrittenToken DEF AppWrite
  <2> QED  BY <2>1, PushAnswer
<1>3. CASE Consume("listener")
  BY <1>3, Peers DEF Consume, TypeOK
<1>4. CASE UNCHANGED wire
  BY <1>4
<1> QED
  BY <1>1, <1>2, <1>3, <1>4
  DEF ListenerAct, ListenerStep, ListenerApp, ListenerRecvFrame, ListenerRecvData,
      ListenerRecvFails, ListenerSend, ListenerFlush, StartSend, transport,
      AppRead, AppClose, AppDrop

LEMMA QuietStep ==
  ASSUME TypeOK, Quiet, ListenerAct
  PROVE  Quiet'
<1>1. ListenerIdle /\ wire["dialer"] = <<>> /\ buf["dialer"] = <<>>
  BY LostStep DEF Quiet
<1> QED  BY <1>1, IdleStep, ListenerFrame DEF Quiet

LEMMA LockstepStep ==
  ASSUME TypeOK, NEW p \in Name, Lockstep(p), ListenerAct
  PROVE  Lockstep(p)'
<1> USE DEF Lockstep
<1>0. ~ListenerLost
  BY LostStep
<1>1. CASE ListenerIdle /\ wire["dialer"] = <<>> /\ buf["dialer"] = <<Proposal(p)>>
  BY <1>1, IdleStep, ListenerFrame
<1>2. CASE ListenerIdle /\ wire["dialer"] = <<Proposal(p)>> /\ buf["dialer"] = <<>>
  <2>1. Head(wire["dialer"]) = Proposal(p) /\ Tail(wire["dialer"]) = <<>>
        /\ Proposal(p) \in Message
    BY <1>2, Pipes, Tokens
  <2> QED  BY <1>2, <2>1, IdleStep, ListenerFrame, Kinds
<1>3. CASE wire["dialer"] = <<>> /\ buf["dialer"] = <<>> /\ ~misframed /\ Deciding(p)
  BY <1>3, DecidingStep, ListenerFrame
<1>4. CASE wire["dialer"] = <<>> /\ buf["dialer"] = <<>> /\ ~misframed /\ Accepted(p)
  BY <1>4, AcceptedStep, ListenerFrame
<1>5. CASE /\ wire["dialer"] = <<>> /\ buf["dialer"] = <<>> /\ ~misframed
           /\ p \notin Listening /\ answer = NA
           /\ wire["listener"] = <<NA>> /\ buf["listener"] = <<>>
           /\ state["listener"] \in {"RecvMessage", "Flush", "Done"}
  <2> USE <1>5
  <2>0. Listening' = Listening
    BY ListenerFrame DEF Listening
  <2>1. CASE ListenerRecvFails
    BY <2>0, <2>1, ListenerFrame DEF ListenerRecvFails, Fail, Drop, Goto, TypeOK
  <2>2. CASE ListenerFlush
    BY <2>0, <2>2, ListenerFrame
       DEF ListenerFlush, WriteOut, Fail, Drop, Goto, TypeOK, transport
  <2>3. ~ListenerRecvFrame /\ ~ListenerRecvData /\ ~ListenerSend /\ ~ListenerApp
    BY Peers DEF ListenerRecvFrame, ListenerRecvData, Readable, ListenerSend,
       ListenerApp, AppWrite, AppRead, AppClose, AppDrop, Usable
  <2> QED  BY <2>1, <2>2, <2>3 DEF ListenerAct, ListenerStep
<1> QED  BY <1>0, <1>1, <1>2, <1>3, <1>4, <1>5

LEMMA PipelinedStep ==
  ASSUME TypeOK, NEW p \in Name, Pipelined(p), ListenerAct
  PROVE  Pipelined(p)'
<1> USE DEF Pipelined
<1>0. ~ListenerLost
  BY LostStep
<1>1. CASE ListenerIdle /\ wire["dialer"] = <<>> /\ buf["dialer"] = <<Proposal(p)>>
  BY <1>1, IdleStep, ListenerFrame
<1>2. CASE /\ ListenerIdle /\ buf["dialer"] = <<>>
           /\ wire["dialer"] # <<>> /\ Head(wire["dialer"]) = Proposal(p)
  BY <1>2, IdleStep, ListenerFrame, Kinds, Tokens
<1>3. CASE buf["dialer"] = <<>> /\ Deciding(p)
  <2>1. CASE wire'["listener"] = <<NA>> /\ p \notin Listening'
    BY <1>3, <2>1, ListenerFrame, Pipes, Tokens
  <2> QED  BY <1>3, <2>1, DecidingStep, ListenerFrame
<1>4. CASE buf["dialer"] = <<>> /\ Accepted(p)
  BY <1>4, AcceptedStep, ListenerFrame
<1>5. CASE /\ buf["dialer"] = <<>> /\ p \notin Listening
           /\ wire["listener"] # <<>> /\ Head(wire["listener"]) = NA
  BY <1>5, HeadStable, ListenerFrame DEF Listening
<1> QED  BY <1>0, <1>1, <1>2, <1>3, <1>4, <1>5

\* A listener that has accepted keeps to its answer.
LEMMA CommittedStep ==
  ASSUME TypeOK, ListenerAct, NEW p \in Name, answer = Proposal(p),
         state["listener"] \in {"Flush", "Completed", "Done"}
  PROVE  answer' = answer /\ state'["listener"] \in {"Flush", "Completed", "Done"}
<1>1. CASE ListenerFlush
  BY <1>1, ReplyKinds DEF ListenerFlush, Goto, Fail, TypeOK
<1>2. CASE ListenerApp
  BY <1>2 DEF ListenerApp, AppWrite, AppRead, AppClose, AppDrop
<1>3. ~ListenerRecvFrame /\ ~ListenerRecvData /\ ~ListenerRecvFails /\ ~ListenerSend
  BY DEF ListenerRecvFrame, ListenerRecvData, ListenerRecvFails, ListenerSend
<1> QED  BY <1>1, <1>2, <1>3 DEF ListenerAct, ListenerStep

LEMMA CurrentName ==
  ASSUME TypeOK, taken > 0
  PROVE  Current \in Name
BY DEF TypeOK, Current

LEMMA ListenerAlternation ==
  ASSUME TypeOK, Alternation, ListenerAct
  PROVE  Alternation'
<1>1. /\ state'["dialer"] = state["dialer"] /\ gone'["dialer"] = gone["dialer"]
      /\ taken' = taken /\ Current' = Current /\ panic' = panic
      /\ Listening' = Listening /\ (Refused => Refused')
  BY ListenerFrame DEF Current, Listening, Refused
<1>2. Quiet => Quiet'
  BY QuietStep
<1>3. ASSUME taken > 0, Lockstep(Current)  PROVE  Lockstep(Current)'
  BY <1>1, <1>3, CurrentName, LockstepStep
<1>4. ASSUME taken > 0, Pipelined(Current)  PROVE  Pipelined(Current)'
  BY <1>1, <1>4, CurrentName, PipelinedStep
<1>5. ASSUME taken > 0, answer = Proposal(Current),
             state["listener"] \in {"Flush", "Completed", "Done"}
      PROVE  /\ answer' = Proposal(Current)'
             /\ state'["listener"] \in {"Flush", "Completed", "Done"}
  BY <1>1, <1>5, CurrentName, CommittedStep DEF Proposal
<1> QED  BY <1>1, <1>2, <1>3, <1>4, <1>5 DEF Alternation


-----------------------------------------------------------------------------
(* The dialer's own steps. *)

\* They leave the listener alone.
LEMMA DialerFrame ==
  ASSUME TypeOK,
         \/ DialerStep \/ ExpectingFlush \/ PollNegotiated \/ PollNegotiatedFails
         \/ AppWrite("dialer") \/ AppRead("dialer")
         \/ AppClose("dialer") \/ AppDrop("dialer")
  PROVE  /\ state'["listener"] = state["listener"]
         /\ buf'["listener"] = buf["listener"]
         /\ answer' = answer /\ misframed' = misframed
         /\ offered' = offered /\ supported' = supported
         /\ Listening' = Listening
<1> USE DEF TypeOK, setup, transport, Goto, Fail, Drop, StartSend, WriteOut, TakeNext
<1>1. CASE DialerInitial
  BY <1>1 DEF DialerInitial, Listening
<1>2. CASE DialerSend
  BY <1>2 DEF DialerSend, Listening
<1>3. CASE DialerFlush
  BY <1>3 DEF DialerFlush, Listening
<1>4. CASE DialerAwaitMessage
  BY <1>4 DEF DialerAwaitMessage, Listening
<1>5. CASE DialerAwaitFails
  BY <1>5 DEF DialerAwaitFails, Listening
<1>6. CASE ExpectingFlush \/ PollNegotiatedFails
  BY <1>6 DEF ExpectingFlush, PollNegotiatedFails, Listening
<1>7. CASE PollNegotiated
  BY <1>7 DEF PollNegotiated, Listening
<1>8. CASE AppWrite("dialer")
  BY <1>8 DEF AppWrite, Listening
<1>9. CASE AppRead("dialer")
  BY <1>9 DEF AppRead, Listening
<1>10. CASE AppClose("dialer")
  BY <1>10 DEF AppClose, Listening
<1>11. CASE AppDrop("dialer")
  BY <1>11 DEF AppDrop, Listening
<1> QED
  BY <1>1, <1>2, <1>3, <1>4, <1>5, <1>6, <1>7, <1>8, <1>9, <1>10, <1>11 DEF DialerStep

\* A dialer whose future has failed makes no further claim.
LEMMA EndedAlternation ==
  ASSUME state'["dialer"] \in {"Done", "Invalid"}, panic' # "into_inner"
  PROVE  Alternation'
BY DEF Alternation

LEMMA InitialAlternation ==
  ASSUME TypeOK, Alternation, DialerInitial
  PROVE  Alternation'
<1> USE DEF DialerInitial
<1>1. taken = 0 /\ Quiet /\ panic' # "into_inner"
  BY DEF Alternation
<1>2. CASE Fail("dialer")
  BY <1>1, <1>2, EndedAlternation DEF Fail, Goto, TypeOK
<1>3. CASE /\ taken' = taken + 1 /\ Goto("dialer", "SendProtocol")
           /\ UNCHANGED <<buf, closed, gone>>
  <2>1. state'["dialer"] = "SendProtocol" /\ state'["listener"] = state["listener"]
    BY <1>3 DEF Goto, TypeOK
  <2>2. taken' = 1 /\ Refused'
    BY <1>1, <1>3 DEF Refused
  <2>3. Quiet'
    BY <1>1, <1>3, <2>1 DEF Quiet, ListenerLost, ListenerIdle
  <2> QED  BY <1>1, <2>1, <2>2, <2>3 DEF Alternation
<1> QED  BY <1>2, <1>3 DEF TakeNext

LEMMA SendAlternation ==
  ASSUME TypeOK, Alternation, DialerSend
  PROVE  Alternation'
<1> USE DEF DialerSend
<1>1. taken > 0 /\ Refused /\ Quiet /\ panic' # "into_inner"
  BY DEF Alternation
<1>2. CASE Fail("dialer")
  BY <1>1, <1>2, EndedAlternation DEF Fail, Goto, TypeOK
<1>3. CASE /\ StartSend("dialer", Proposal(Current))
           /\ Goto("dialer", IF taken < Len(offered) THEN "FlushProtocol"
                                                     ELSE "Expecting")
  <2>1. state'["dialer"] \in {"FlushProtocol", "Expecting"}
    BY <1>3 DEF Goto, TypeOK
  <2>2. Current' = Current /\ Refused' /\ taken' = taken
    BY <1>1, DialerFrame DEF Current, Refused, DialerStep, setup
  <2>3. wire' = wire /\ (buf["dialer"] = <<>> => buf'["dialer"] = <<Proposal(Current)>>)
    <3>1. Proposal(Current) \in Token
      BY <1>1, CurrentName, Tokens
    <3>2. buf'["dialer"] = Append(buf["dialer"], Proposal(Current)) /\ buf["dialer"] \in Seq(Token)
      BY <1>3 DEF StartSend, TypeOK
    <3> QED  BY <1>3, <3>1, <3>2, Pipes DEF StartSend
  <2>4. CASE ListenerLost
    <3>1. ListenerLost'
      BY <2>3, <2>4, DialerFrame DEF ListenerLost, DialerStep
    <3> QED  BY <1>1, <2>1, <2>2, <3>1 DEF Alternation, Lockstep, Pipelined
  <2>5. CASE ListenerIdle /\ wire["dialer"] = <<>> /\ buf["dialer"] = <<>>
    <3>1. ListenerIdle'
      BY <2>3, <2>5, DialerFrame DEF ListenerIdle, DialerStep
    <3>2. wire'["dialer"] = <<>> /\ buf'["dialer"] = <<Proposal(Current')>>
      BY <2>2, <2>3, <2>5
    <3>3. Lockstep(Current)' /\ Pipelined(Current)'
      BY <3>1, <3>2 DEF Lockstep, Pipelined, Proposal
    <3> QED  BY <1>1, <2>1, <2>2, <3>3 DEF Alternation
  <2> QED  BY <1>1, <2>4, <2>5 DEF Quiet
<1> QED  BY <1>2, <1>3

\* Moving the proposal from the buffer to the wire.
LEMMA WriteOutProposal ==
  ASSUME TypeOK, WriteOut("dialer"), NEW p \in Name,
         buf["dialer"] = <<Proposal(p)>>, wire["dialer"] = <<>>
  PROVE  /\ wire'["dialer"] = <<Proposal(p)>> /\ buf'["dialer"] = <<>>
         /\ wire'["listener"] = wire["listener"]
<1>1. Proposal(p) \in Token
  BY Tokens
<1>2. /\ Head(<<Proposal(p)>>) = Proposal(p) /\ Tail(<<Proposal(p)>>) = <<>>
      /\ Append(<<>>, Proposal(p)) = <<Proposal(p)>>
  BY <1>1, Pipes
<1> QED  BY <1>2 DEF WriteOut, TypeOK

LEMMA FlushAlternation ==
  ASSUME TypeOK, Alternation, DialerFlush
  PROVE  Alternation'
<1> USE DEF DialerFlush
<1>1. taken > 0 /\ Refused /\ Lockstep(Current) /\ panic' # "into_inner"
  BY DEF Alternation
<1>2. Current' = Current /\ Refused' /\ taken' = taken /\ Current \in Name
  BY <1>1, CurrentName DEF Current, Refused, setup, Listening
<1>3. CASE Fail("dialer")
  BY <1>1, <1>3, EndedAlternation DEF Fail, Goto, TypeOK
<1>4. CASE WriteOut("dialer") /\ UNCHANGED state
  <2>1. buf["dialer"] # <<>>
    BY <1>4 DEF WriteOut
  <2>2. CASE ListenerLost
    <3>1. ListenerLost'
      BY <1>4, <2>2 DEF ListenerLost, WriteOut, TypeOK
    <3> QED  BY <1>1, <1>2, <1>4, <3>1 DEF Alternation, Lockstep
  <2>3. CASE ListenerIdle /\ wire["dialer"] = <<>> /\ buf["dialer"] = <<Proposal(Current)>>
    <3>1. /\ wire'["dialer"] = <<Proposal(Current)>> /\ buf'["dialer"] = <<>>
          /\ wire'["listener"] = wire["listener"]
      BY <1>2, <1>4, <2>3, WriteOutProposal
    <3>2. ListenerIdle'
      BY <1>4, <2>3, <3>1, DialerFrame DEF ListenerIdle, DialerStep
    <3>3. Lockstep(Current)'
      BY <1>2, <3>1, <3>2 DEF Lockstep, Proposal
    <3> QED  BY <1>1, <1>2, <1>4, <3>3 DEF Alternation
  <2> QED  BY <1>1, <2>1, <2>2, <2>3 DEF Lockstep
<1>5. CASE Goto("dialer", "AwaitProtocol") /\ UNCHANGED transport
  <2>1. state'["dialer"] = "AwaitProtocol" /\ state'["listener"] = state["listener"]
    BY <1>5 DEF Goto, TypeOK
  <2>2. Listening' = Listening /\ answer' = answer /\ misframed' = misframed
        /\ wire' = wire /\ buf' = buf
    BY <1>5 DEF Listening, setup, transport
  <2>3. Lockstep(Current)'
    BY <1>1, <1>2, <2>1, <2>2 DEF Lockstep, ListenerLost, ListenerIdle, Deciding,
       Accepted, Reply, Proposal
  <2> QED  BY <1>1, <1>2, <2>1, <2>3 DEF Alternation
<1> QED  BY <1>3, <1>4, <1>5

\* Reading the answer: the acceptance completes, the refusal moves on, and in
\* lockstep there is nothing else to read.
LEMMA AwaitAlternation ==
  ASSUME TypeOK, Alternation, DialerAwaitMessage
  PROVE  Alternation'
<1> USE DEF DialerAwaitMessage
<1>1. taken > 0 /\ Refused /\ Lockstep(Current) /\ panic # "into_inner"
  BY DEF Alternation
<1>2. Current \in Name
  BY <1>1, CurrentName
<1>3. /\ wire["listener"] # <<>> /\ Next1("dialer") = Head(wire["listener"])
      /\ wire'["listener"] = Tail(wire["listener"]) /\ wire'["dialer"] = wire["dialer"]
  BY Peers DEF Readable, Consume, Next1, TypeOK
<1>4. wire["dialer"] = <<>> /\ buf["dialer"] = <<>> /\ ~misframed
  BY <1>1, <1>3 DEF Lockstep, ListenerLost, ListenerIdle, Deciding
<1>5. panic' # "into_inner"
  BY <1>1, <1>4 DEF IntoInner
<1>6. CASE Fail("dialer")
  BY <1>1, <1>5, <1>6, EndedAlternation DEF Fail, Goto, TypeOK
<1>7. CASE Accepted(Current)
  <2>1. Next1("dialer") = Proposal(Current)
    BY <1>3, <1>7 DEF Accepted
  <2>2. Goto("dialer", "Completed") /\ UNCHANGED taken
    BY <2>1, <1>2, Tokens, Kinds
  <2>3. state'["dialer"] = "Completed" /\ state'["listener"] = state["listener"]
    BY <2>2 DEF Goto, TypeOK
  <2>4. Current' = Current /\ Refused' /\ Listening' = Listening /\ answer' = answer
    BY <1>1, <2>2 DEF Current, Refused, setup, Listening
  <2>5. answer' = Proposal(Current)'
    BY <1>7, <2>4 DEF Accepted, Proposal
  <2> QED  BY <1>1, <1>5, <1>7, <2>2, <2>3, <2>4, <2>5 DEF Alternation, Accepted
<1>8. CASE /\ Current \notin Listening /\ answer = NA
           /\ wire["listener"] = <<NA>> /\ buf["listener"] = <<>>
           /\ state["listener"] \in {"RecvMessage", "Flush", "Done"}
  <2>1. Next1("dialer") = NA /\ wire'["listener"] = <<>>
    BY <1>3, <1>8, Pipes, Tokens
  <2>2. TakeNext
    BY <2>1, ReplyKinds, Tokens
  <2>3. CASE Fail("dialer")
    BY <1>6, <2>3
  <2>4. CASE /\ taken' = taken + 1 /\ Goto("dialer", "SendProtocol")
             /\ UNCHANGED <<buf, closed, gone>>
    <3>1. state'["dialer"] = "SendProtocol" /\ state'["listener"] = state["listener"]
      BY <2>4 DEF Goto, TypeOK
    <3>2. Quiet'
      BY <1>3, <1>4, <1>8, <2>1, <2>4, <3>1 DEF Quiet, ListenerIdle, ListenerLost
    <3>3. Refused'
      <4>1. \A i \in 1..taken : offered[i] \notin Listening
        BY <1>1, <1>8 DEF Refused, Current, TypeOK
      <4>2. offered' = offered /\ Listening' = Listening
        BY DEF setup, Listening
      <4>3. 1..(taken' - 1) = 1..taken
        BY <2>4 DEF TypeOK
      <4> QED  BY <4>1, <4>2, <4>3 DEF Refused
    <3>4. taken' > 0
      BY <2>4 DEF TypeOK
    <3> QED  BY <1>5, <3>1, <3>2, <3>3, <3>4 DEF Alternation
  <2> QED  BY <2>2, <2>3, <2>4 DEF TakeNext
<1> QED
  BY <1>1, <1>3, <1>7, <1>8 DEF Lockstep, ListenerLost, ListenerIdle, Deciding

LEMMA AwaitFailsAlternation ==
  ASSUME TypeOK, Alternation, DialerAwaitFails
  PROVE  Alternation'
BY EndedAlternation DEF DialerAwaitFails, Alternation, Fail, Goto, TypeOK

LEMMA PollAlternation ==
  ASSUME TypeOK, Alternation, PollNegotiated
  PROVE  Alternation'
<1> USE DEF PollNegotiated
<1>1. taken > 0 /\ Refused /\ Pipelined(Current) /\ panic # "into_inner"
  BY DEF Alternation
<1>2. CASE Goto("dialer", "Invalid") /\ UNCHANGED panic
  BY <1>1, <1>2, EndedAlternation DEF Goto, TypeOK
<1>3. CASE /\ Readable("dialer") /\ Next1("dialer") = Proposal(Current)
           /\ Goto("dialer", "Completed")
           /\ IntoInner("dialer")
  <2>1. wire["listener"] # <<>> /\ Head(wire["listener"]) = Proposal(Current)
    BY <1>3, Peers DEF Readable, Next1
  <2>2. buf["dialer"] = <<>> /\ Accepted(Current)
    BY <1>1, <2>1, ReplyKinds DEF Pipelined, ListenerLost, ListenerIdle, Deciding
  <2>3. state'["dialer"] = "Completed" /\ state'["listener"] = state["listener"]
    BY <1>3 DEF Goto, TypeOK
  <2>4. Current' = Current /\ Refused' /\ Listening' = Listening /\ answer' = answer
    BY <1>1 DEF Current, Refused, setup, Listening
  <2>5. answer' = Proposal(Current)'
    BY <2>2, <2>4 DEF Accepted, Proposal
  <2>6. panic' # "into_inner"
    BY <1>1, <1>3, <2>2 DEF IntoInner
  <2> QED  BY <1>1, <2>2, <2>3, <2>4, <2>5, <2>6 DEF Alternation, Accepted
<1> QED  BY <1>2, <1>3

LEMMA PollFailsAlternation ==
  ASSUME TypeOK, Alternation, PollNegotiatedFails
  PROVE  Alternation'
BY EndedAlternation DEF PollNegotiatedFails, Alternation, Goto, TypeOK

LEMMA UseInvalidAlternation ==
  ASSUME TypeOK, Alternation, UseInvalid
  PROVE  Alternation'
BY EndedAlternation DEF UseInvalid

LEMMA ExpectingFlushAlternation ==
  ASSUME TypeOK, Alternation, ExpectingFlush
  PROVE  Alternation'
<1> USE DEF ExpectingFlush
<1>1. taken > 0 /\ Refused /\ Pipelined(Current) /\ panic' # "into_inner"
  BY DEF Alternation
<1>2. Current' = Current /\ Refused' /\ taken' = taken /\ Current \in Name
  BY <1>1, CurrentName DEF Current, Refused, setup, Listening
<1>3. buf["dialer"] # <<>>
  BY DEF WriteOut
<1>4. CASE ListenerLost
  <2>1. ListenerLost'
    BY <1>4 DEF ListenerLost, WriteOut, TypeOK
  <2> QED  BY <1>1, <1>2, <2>1 DEF Alternation, Pipelined
<1>5. CASE ListenerIdle /\ wire["dialer"] = <<>> /\ buf["dialer"] = <<Proposal(Current)>>
  <2>1. /\ wire'["dialer"] = <<Proposal(Current)>> /\ buf'["dialer"] = <<>>
        /\ wire'["listener"] = wire["listener"]
    BY <1>2, <1>5, WriteOutProposal
  <2>2. ListenerIdle'
    BY <1>5, <2>1, DialerFrame DEF ListenerIdle
  <2>3. wire'["dialer"] # <<>> /\ Head(wire'["dialer"]) = Proposal(Current)
    BY <1>2, <2>1, Pipes, Tokens
  <2>4. Pipelined(Current)'
    BY <1>2, <2>1, <2>2, <2>3 DEF Pipelined, Proposal
  <2> QED  BY <1>1, <1>2, <2>4 DEF Alternation
<1> QED  BY <1>1, <1>3, <1>4, <1>5 DEF Pipelined

LEMMA DialerAppAlternation ==
  ASSUME TypeOK, Alternation,
         \/ AppWrite("dialer") \/ AppRead("dialer")
         \/ AppClose("dialer") \/ AppDrop("dialer")
  PROVE  Alternation'
<1>1. /\ state["dialer"] \in {"Expecting", "Completed"} /\ ~gone["dialer"]
      /\ state' = state /\ panic' = panic /\ taken' = taken /\ answer' = answer
      /\ Current' = Current /\ Listening' = Listening /\ (Refused => Refused')
      /\ misframed' = misframed /\ buf'["listener"] = buf["listener"]
  <2>1. CASE AppWrite("dialer")
    BY <2>1, DialerFrame DEF AppWrite, Usable, Current, Refused, setup
  <2>2. CASE AppRead("dialer")
    BY <2>2, DialerFrame DEF AppRead, Usable, Current, Refused, setup
  <2>3. CASE AppClose("dialer")
    BY <2>3, DialerFrame DEF AppClose, Usable, Current, Refused, setup
  <2>4. CASE AppDrop("dialer")
    BY <2>4, DialerFrame DEF AppDrop, Usable, Current, Refused, setup
  <2> QED  BY <2>1, <2>2, <2>3, <2>4
<1>2. CASE state["dialer"] = "Completed"
  <2>1. Proposal(Current)' = Proposal(Current)
    BY <1>1 DEF Proposal
  <2> QED  BY <1>1, <1>2, <2>1 DEF Alternation
<1>3. CASE state["dialer"] = "Expecting" /\ AppDrop("dialer")
  <2>1. gone'["dialer"]
    BY <1>3 DEF AppDrop, Drop, TypeOK
  <2> QED  BY <1>1, <1>3, <2>1 DEF Alternation
<1>4. CASE state["dialer"] = "Expecting" /\ ~AppDrop("dialer")
  <2>1. taken > 0 /\ Refused /\ Pipelined(Current) /\ Current \in Name
    BY <1>1, <1>4, CurrentName DEF Alternation
  <2>2. buf["dialer"] = <<>> /\ buf'["dialer"] = <<>> /\ wire'["listener"] = wire["listener"]
    BY <1>4 DEF AppWrite, AppRead, AppClose, TypeOK
  <2>3. wire["dialer"] # <<>> =>
          wire'["dialer"] # <<>> /\ Head(wire'["dialer"]) = Head(wire["dialer"])
    <3>1. CASE AppWrite("dialer")
      <4>1. PICK t \in Token : wire' = [wire EXCEPT !["dialer"] = Append(@, t)]
        BY <3>1, WrittenToken DEF AppWrite
      <4>2. wire'["dialer"] = Append(wire["dialer"], t) /\ wire["dialer"] \in Seq(Token)
        BY <4>1 DEF TypeOK
      <4> QED  BY <4>1, <4>2, Pipes
    <3>2. CASE AppClose("dialer")
      BY <3>2 DEF AppClose
    <3> QED  BY <1>4, <3>1, <3>2 DEF AppRead
  <2>4. Pipelined(Current)'
    <3>1. buf["dialer"] # <<Proposal(Current)>>
      BY <2>1, <2>2, Pipes, Tokens
    <3> QED
      BY <1>1, <2>1, <2>2, <2>3, <3>1
      DEF Pipelined, ListenerLost, ListenerIdle, Deciding, Accepted, Reply, Proposal
  <2> QED  BY <1>1, <1>4, <2>1, <2>4 DEF Alternation
<1> QED  BY <1>1, <1>2, <1>3, <1>4

LEMMA StutterAlternation ==
  ASSUME Alternation, UNCHANGED vars
  PROVE  Alternation'
<1> USE DEF vars
<1>1. Current' = Current /\ Listening' = Listening /\ (Refused => Refused')
  BY DEF Current, Listening, Refused
<1>2. Quiet => Quiet'
  BY DEF Quiet, ListenerLost, ListenerIdle
<1>3. Lockstep(Current) => Lockstep(Current)'
  BY <1>1 DEF Lockstep, ListenerLost, ListenerIdle, Deciding, Accepted, Reply, Proposal
<1>4. Pipelined(Current) => Pipelined(Current)'
  BY <1>1 DEF Pipelined, ListenerLost, ListenerIdle, Deciding, Accepted, Reply, Proposal
<1>5. Proposal(Current)' = Proposal(Current)
  BY <1>1 DEF Proposal
<1> QED  BY <1>1, <1>2, <1>3, <1>4, <1>5 DEF Alternation

LEMMA InitAlternation == Init => Alternation
BY DEF Init, Alternation, Quiet, ListenerIdle

-----------------------------------------------------------------------------
(* The theorems. *)

\* Proposals and answers alternate: whatever the application pipelines behind
\* the last proposal, the first thing a dialer reads after proposing is the
\* listener's answer to that proposal.
THEOREM AlternationHolds == Spec => []Alternation
<1>1. TypeOK /\ Alternation /\ [Next]_vars => Alternation'
  <2> SUFFICES ASSUME TypeOK, Alternation, [Next]_vars PROVE Alternation'
    OBVIOUS
  <2>1. CASE DialerStep
    BY <2>1, InitialAlternation, SendAlternation, FlushAlternation,
       AwaitAlternation, AwaitFailsAlternation DEF DialerStep
  <2>2. CASE ListenerStep
    BY <2>2, ListenerAlternation DEF ListenerAct
  <2>3. CASE AppStep
    <3>1. ASSUME NEW s \in Side, AppWrite(s) \/ AppRead(s) \/ AppClose(s) \/ AppDrop(s)
          PROVE  Alternation'
      BY <3>1, ListenerAlternation, DialerAppAlternation DEF ListenerAct, ListenerApp
    <3> QED  BY <2>3, <3>1, ExpectingFlushAlternation, PollAlternation,
                PollFailsAlternation, UseInvalidAlternation DEF AppStep
  <2>4. CASE UNCHANGED vars
    BY <2>4, StutterAlternation
  <2> QED  BY <2>1, <2>2, <2>3, <2>4 DEF Next, Finished
<1> QED  BY InitAlternation, <1>1, TypeCorrect, PTL DEF Spec

\* A dialer never holds a negotiated stream for a protocol the listener has
\* not itself accepted in answer to that proposal.
THEOREM AgreementHolds == Spec => []Agreement
<1>1. Alternation => Agreement
  BY DEF Alternation, Agreement
<1> QED  BY <1>1, AlternationHolds, PTL

\* The protocol agreed on is the first of the dialer's that the listener
\* supports.
THEOREM FirstCommonProtocolHolds == Spec => []FirstCommonProtocol
<1>1. Alternation => FirstCommonProtocol
  BY DEF Alternation, FirstCommonProtocol, Refused
<1> QED  BY <1>1, AlternationHolds, PTL

\* The assertions in LengthDelimited::into_inner cannot fail, in either future or
\* in poll_negotiated, although that reads on after a failed flush.
THEOREM HandoffAssertsHold == Spec => []HandoffAsserts
<1>1. Alternation => HandoffAsserts
  BY DEF Alternation, HandoffAsserts
<1> QED  BY <1>1, AlternationHolds, PTL

-----------------------------------------------------------------------------
(* StreamSelect implements Negotiation. *)

\* A listener that reads messages has refused every proposal so far.
Unanswered == state["listener"] = "RecvMessage" => answer = NA

LEMMA UnansweredHolds == Spec => []Unanswered
<1>1. Init => Unanswered
  BY DEF Init, Unanswered
<1>2. TypeOK /\ Unanswered /\ [Next]_vars => Unanswered'
  <2> SUFFICES ASSUME TypeOK, Unanswered, [Next]_vars PROVE Unanswered'
    OBVIOUS
  <2> USE DEF Unanswered
  <2>1. CASE DialerStep \/ ExpectingFlush \/ PollNegotiated \/ PollNegotiatedFails
    BY <2>1, DialerFrame
  <2>2. CASE ListenerRecvFrame
    BY <2>2 DEF ListenerRecvFrame, Goto, Fail, TypeOK
  <2>3. CASE ListenerRecvData
    BY <2>3 DEF ListenerRecvData, Goto, Fail, TypeOK
  <2>4. CASE ListenerRecvFails
    BY <2>4 DEF ListenerRecvFails, Goto, Fail, TypeOK
  <2>5. CASE ListenerSend
    BY <2>5 DEF ListenerSend, Goto, TypeOK
  <2>6. CASE ListenerFlush
    BY <2>6 DEF ListenerFlush, Goto, Fail, TypeOK
  <2>7. ASSUME NEW s \in Side, AppWrite(s) \/ AppRead(s) \/ AppClose(s) \/ AppDrop(s)
        PROVE  Unanswered'
    BY <2>7 DEF AppWrite, AppRead, AppClose, AppDrop
  <2>8. CASE UseInvalid \/ UNCHANGED vars
    BY <2>8 DEF UseInvalid, vars
  <2> QED  BY <2>1, <2>2, <2>3, <2>4, <2>5, <2>6, <2>7, <2>8
           DEF Next, ListenerStep, AppStep, Finished
<1> QED  BY <1>1, <1>2, TypeCorrect, PTL DEF Spec

\* The listener's side of the abstract state changes only when it accepts.
LEMMA ListenerCommits ==
  ASSUME TypeOK, Unanswered, ListenerAct
  PROVE  \/ answer' = answer
         \/ \E p \in Listening : answer = NA /\ answer' = Proposal(p)
<1>1. CASE ListenerRecvFrame
  BY <1>1 DEF ListenerRecvFrame, Unanswered, Reply
<1>2. CASE ListenerRecvData \/ ListenerRecvFails \/ ListenerSend \/ ListenerFlush
  BY <1>2 DEF ListenerRecvData, ListenerRecvFails, ListenerSend, ListenerFlush
<1>3. CASE ListenerApp
  BY <1>3 DEF ListenerApp, AppWrite, AppRead, AppClose, AppDrop
<1> QED  BY <1>1, <1>2, <1>3 DEF ListenerAct, ListenerStep

\* A completed dialer stays so, with its protocol.
LEMMA CompletedStays ==
  ASSUME TypeOK, [Next]_vars, state["dialer"] = "Completed"
  PROVE  state'["dialer"] = "Completed" /\ taken' = taken
<1>1. ~DialerStep /\ ~ExpectingFlush /\ ~PollNegotiated /\ ~PollNegotiatedFails
      /\ ~UseInvalid
  BY DEF DialerStep, DialerInitial, DialerSend, DialerFlush, DialerAwaitMessage,
         DialerAwaitFails, ExpectingFlush, PollNegotiated, PollNegotiatedFails,
         UseInvalid
<1>2. CASE ListenerStep
  BY <1>2, ListenerFrame DEF ListenerAct
<1>3. ASSUME NEW s \in Side, AppWrite(s) \/ AppRead(s) \/ AppClose(s) \/ AppDrop(s)
      PROVE  state' = state /\ taken' = taken
  BY <1>3 DEF AppWrite, AppRead, AppClose, AppDrop
<1>4. CASE UNCHANGED vars
  BY <1>4 DEF vars
<1> QED  BY <1>1, <1>2, <1>3, <1>4 DEF Next, AppStep, Finished

LEMMA SetupStays ==
  ASSUME TypeOK, [Next]_vars
  PROVE  offered' = offered /\ Listening' = Listening
<1>1. CASE ListenerAct
  BY <1>1, ListenerFrame DEF Listening
<1>2. CASE \/ DialerStep \/ ExpectingFlush \/ PollNegotiated \/ PollNegotiatedFails
           \/ AppWrite("dialer") \/ AppRead("dialer")
           \/ AppClose("dialer") \/ AppDrop("dialer")
  BY <1>2, DialerFrame
<1>3. CASE UseInvalid \/ UNCHANGED vars
  BY <1>3 DEF UseInvalid, vars, Listening, setup
<1> QED  BY <1>1, <1>2, <1>3
         DEF Next, AppStep, Finished, ListenerAct, ListenerApp

\* A step by which the dialer completes is Agree.
LEMMA CompletionAgrees ==
  ASSUME TypeOK, TypeOK', Alternation', [Next]_vars,
         state["dialer"] # "Completed", state'["dialer"] = "Completed"
  PROVE  Abstract!Next
<1>1. ~ListenerAct /\ answer' = answer
  <2>1. ~ListenerAct
    BY ListenerFrame
  <2>2. \A s \in Side : ~(AppWrite(s) \/ AppRead(s) \/ AppClose(s) \/ AppDrop(s))
    BY DEF AppWrite, AppRead, AppClose, AppDrop
  <2>3. ~UseInvalid /\ ~UNCHANGED vars
    BY DEF UseInvalid, vars
  <2> QED  BY <2>1, <2>2, <2>3, DialerFrame DEF Next, AppStep, Finished, ListenerAct
<1>2. offered' = offered /\ Listening' = Listening
  BY SetupStays
<1>3. taken' > 0 /\ Refused' /\ Current' \in Listening' /\ answer' = Proposal(Current')
  BY DEF Alternation, Proposal
<1>4. PICK p \in Name : p = Current'
  <2>1. Listening \subseteq Name
    BY NamesAssumption DEF Listening
  <2> QED  BY <1>2, <1>3, <2>1
<1>5. Abstract!FirstCommon(p)
  <2>1. taken' \in Nat /\ taken' \in 1..Len(offered) /\ offered \in Seq(Name)
    BY <1>2, <1>3 DEF TypeOK
  <2>2. p = offered[taken'] /\ p \in Listening
    BY <1>2, <1>3, <1>4 DEF Current
  <2>3. \A i \in 1..(taken' - 1) : offered[i] \notin Listening
    BY <1>2, <1>3 DEF Refused
  <2>4. taken' \in DOMAIN offered
    BY <2>1
  <2> QED  BY <2>2, <2>3, <2>4 DEF Abstract!FirstCommon
<1>6. {q \in Name : answer = Proposal(q)} = {p}
  BY <1>1, <1>3, <1>4, Kinds
<1>7. /\ {q \in Name : state["dialer"] = "Completed" /\ q = Current} = {}
      /\ {q \in Name : state'["dialer"] = "Completed" /\ q = Current'} = {p}
  BY <1>4
<1>8. {q \in Name : answer' = Proposal(q)'} = {q \in Name : answer = Proposal(q)}
  BY <1>1 DEF Proposal
<1>9. Abstract!Agree(p)
  BY <1>2, <1>5, <1>6, <1>7, <1>8 DEF Abstract!Agree
<1> QED  BY <1>9 DEF Abstract!Next

\* Every other step is a Commit or leaves the abstract state as it is.
LEMMA OtherStepsCommit ==
  ASSUME TypeOK, Unanswered, [Next]_vars,
         state["dialer"] = "Completed" \/ state'["dialer"] # "Completed"
  PROVE  Abstract!Next \/ UNCHANGED Abstract!vars
<1>1. offered' = offered /\ Listening' = Listening
  BY SetupStays
<1>2. {p \in Name : state'["dialer"] = "Completed" /\ p = Current'}
        = {p \in Name : state["dialer"] = "Completed" /\ p = Current}
  BY <1>1, CompletedStays DEF Current
<1>3. \/ answer' = answer
      \/ \E p \in Listening : answer = NA /\ answer' = Proposal(p)
  <2>1. CASE ListenerAct
    BY <2>1, ListenerCommits
  <2>2. CASE \/ DialerStep \/ ExpectingFlush \/ PollNegotiated \/ PollNegotiatedFails
             \/ AppWrite("dialer") \/ AppRead("dialer")
             \/ AppClose("dialer") \/ AppDrop("dialer")
    BY <2>2, DialerFrame
  <2>3. CASE UseInvalid \/ UNCHANGED vars
    BY <2>3 DEF UseInvalid, vars
  <2> QED  BY <2>1, <2>2, <2>3
           DEF Next, AppStep, Finished, ListenerAct, ListenerApp
<1>4. CASE answer' = answer
  <2>1. {p \in Name : answer' = Proposal(p)'} = {p \in Name : answer = Proposal(p)}
    BY <1>4 DEF Proposal
  <2> QED  BY <1>1, <1>2, <2>1 DEF Abstract!vars
<1>5. ASSUME NEW p \in Listening, answer = NA, answer' = Proposal(p)
      PROVE  Abstract!Next
  <2>1. p \in Name
    BY NamesAssumption DEF Listening
  <2>2. {q \in Name : answer = Proposal(q)} = {}
    BY <1>5, Kinds
  <2>3. {q \in Name : answer' = Proposal(q)'} = {p}
    BY <1>5, <2>1, Kinds DEF Proposal
  <2>4. Abstract!Commit(p)
    BY <1>1, <1>2, <2>2, <2>3 DEF Abstract!Commit
  <2> QED  BY <2>1, <2>4 DEF Abstract!Next
<1> QED  BY <1>3, <1>4, <1>5

\* The exchange of messages implements the two-step commitment of Negotiation:
\* every step is a step of it or changes nothing it speaks of.
THEOREM ImplementsNegotiation == Spec => AbstractSpec
<1>1. Init => Abstract!Init
  <2> SUFFICES ASSUME Init PROVE Abstract!Init
    OBVIOUS
  <2>1. offered \in Seq(Name) /\ Listening \in SUBSET Name
    BY NamesAssumption DEF Init, Listening
  <2>2. {p \in Name : answer = Proposal(p)} = {}
    BY Kinds DEF Init
  <2>3. {p \in Name : state["dialer"] = "Completed" /\ p = Current} = {}
    BY DEF Init
  <2> QED  BY <2>1, <2>2, <2>3 DEF Abstract!Init
<1>2. TypeOK /\ TypeOK' /\ Alternation' /\ Unanswered /\ [Next]_vars
        => [Abstract!Next]_(Abstract!vars)
  BY CompletionAgrees, OtherStepsCommit
<1> QED  BY <1>1, <1>2, TypeCorrect, AlternationHolds, UnansweredHolds, PTL
         DEF Spec, AbstractSpec, Abstract!Spec
=============================================================================
