------------------------ MODULE StreamSelectTransparency ------------------------
(***************************************************************************)
(* Transparency of a negotiated stream: what the applications write        *)
(* passes through, around a proposal or an answer that is still under way, *)
(* with this crate's listener (StreamSelect) and with any other that keeps *)
(* to the framing (ForeignListener).                                       *)
(***************************************************************************)
EXTENDS StreamSelectProofs, ForeignListener, SequenceTheorems

USE DEF Side

-----------------------------------------------------------------------------
(* Sequences: what moves from the front of one to the end of another. *)

LEMMA Uncons ==
  ASSUME NEW S, NEW b \in Seq(S), b # <<>>
  PROVE  <<Head(b)>> \o Tail(b) = b
<1>1. Head(b) \in S /\ Tail(b) \in Seq(S) /\ Len(Tail(b)) = Len(b) - 1
      /\ \A i \in 1..Len(Tail(b)) : Tail(b)[i] = b[i + 1]
  BY HeadTailProperties
<1>2. <<Head(b)>> \in Seq(S) /\ Len(<<Head(b)>>) = 1 /\ <<Head(b)>>[1] = Head(b)
  BY <1>1
<1>3. Len(b) \in Nat \ {0} /\ Head(b) = b[1]
  BY EmptySeq
<1>4. <<Head(b)>> \o Tail(b) \in Seq(S) /\ Len(<<Head(b)>> \o Tail(b)) = Len(b)
  BY <1>1, <1>2, <1>3, ConcatProperties
<1>5. ASSUME NEW i \in 1..Len(b)
      PROVE  (<<Head(b)>> \o Tail(b))[i] = b[i]
  <2>1. (<<Head(b)>> \o Tail(b))[i] = IF i <= 1 THEN <<Head(b)>>[i] ELSE Tail(b)[i - 1]
    BY <1>1, <1>2, <1>3, ConcatProperties
  <2>2. CASE i = 1
    BY <2>1, <2>2, <1>2, <1>3
  <2>3. CASE i # 1
    BY <2>1, <2>3, <1>1, <1>3
  <2> QED  BY <2>2, <2>3
<1> QED  BY <1>4, <1>5, SeqEqual

LEMMA Joins ==
  ASSUME NEW S, NEW a \in Seq(S), NEW b \in Seq(S), NEW t \in S
  PROVE  /\ a \o Append(b, t) = Append(a \o b, t)
         /\ b # <<>> => Append(a, Head(b)) \o Tail(b) = a \o b
<1>1. a \o Append(b, t) = Append(a \o b, t)
  <2>1. <<t>> \in Seq(S) /\ a \o b \in Seq(S)
    BY ConcatProperties
  <2>2. Append(b, t) = b \o <<t>> /\ Append(a \o b, t) = (a \o b) \o <<t>>
    BY <2>1, AppendIsConcat
  <2>3. (a \o b) \o <<t>> = a \o (b \o <<t>>)
    BY <2>1, ConcatAssociative
  <2> QED  BY <2>2, <2>3
<1>2. ASSUME b # <<>>  PROVE  Append(a, Head(b)) \o Tail(b) = a \o b
  <2>1. Head(b) \in S /\ Tail(b) \in Seq(S) /\ <<Head(b)>> \in Seq(S)
    BY <1>2, HeadTailProperties
  <2>2. Append(a, Head(b)) = a \o <<Head(b)>>
    BY <2>1, AppendIsConcat
  <2>3. (a \o <<Head(b)>>) \o Tail(b) = a \o (<<Head(b)>> \o Tail(b))
    BY <2>1, ConcatAssociative
  <2> QED  BY <1>2, <2>2, <2>3, Uncons
<1> QED  BY <1>1, <1>2

LEMMA SuffixOfConcat ==
  ASSUME NEW S, NEW a \in Seq(S), NEW b \in Seq(S)
  PROVE  SubSeq(a \o b, Len(a) + 1, Len(a \o b)) = b
<1> DEFINE c == a \o b
           m == Len(a) + 1
           n == Len(a) + Len(b)
           d == SubSeq(c, m, n)
<1>1. Len(a) \in Nat /\ Len(b) \in Nat
  BY LenProperties
<1>2. /\ c \in Seq(S) /\ Len(c) = n
      /\ \A i \in 1..n : c[i] = IF i <= Len(a) THEN a[i] ELSE b[i - Len(a)]
  BY ConcatProperties
<1>3. m \in Int /\ n \in Int /\ m..n \subseteq 1..n /\ n - m + 1 = Len(b)
      /\ (IF m <= n THEN n - m + 1 ELSE 0) = Len(b)
  BY <1>1
<1> HIDE DEF c
<1>4. \A i \in m..n : c[i] \in S
  BY <1>2, <1>3, ElementOfSeq
<1>5. /\ d \in Seq(S) /\ Len(d) = Len(b)
      /\ \A i \in 1..Len(b) : d[i] = c[m + i - 1]
  <2> HIDE DEF m, n
  <2>1. /\ SubSeq(c, m, n) \in Seq(S)
        /\ Len(SubSeq(c, m, n)) = IF m <= n THEN n - m + 1 ELSE 0
        /\ \A i \in 1 .. n - m + 1 : SubSeq(c, m, n)[i] = c[m + i - 1]
    BY <1>3, <1>4, SubSeqProperties
  <2>2. 1..(n - m + 1) = 1..Len(b)
    BY <1>3
  <2>3. Len(SubSeq(c, m, n)) = Len(b)
    BY <1>3, <2>1
  <2>4. \A i \in 1..Len(b) : SubSeq(c, m, n)[i] = c[m + i - 1]
    BY <2>1, <2>2, Zenon
  <2> QED  BY <2>1, <2>3, <2>4
<1>6. ASSUME NEW i \in 1..Len(b)  PROVE  d[i] = b[i]
  <2> DEFINE j == m + i - 1
  <2>1. j \in 1..n /\ ~(j <= Len(a)) /\ j - Len(a) = i
    BY <1>1
  <2> HIDE DEF d, n
  <2>2. d[i] = c[j]
    BY <1>5
  <2> HIDE DEF j
  <2>3. c[j] = IF j <= Len(a) THEN a[j] ELSE b[j - Len(a)]
    BY <1>2, <2>1
  <2> QED  BY <2>1, <2>2, <2>3
<1>7. d = b
  <2> HIDE DEF d
  <2> QED  BY <1>5, <1>6, SeqEqual
<1> QED  BY <1>2, <1>7 DEF c

LEMMA Behind ==
  ASSUME NEW S, NEW w \in Seq(S), NEW t \in S, w # <<>>
  PROVE  /\ Append(w, t) # <<>> /\ Head(Append(w, t)) = Head(w)
         /\ Tail(Append(w, t)) = Append(Tail(w), t)
BY HeadTailAppend, AppendProperties

-----------------------------------------------------------------------------
(* A listener that is not this crate's: types. *)

ForeignStep == ForeignSend \/ ForeignRead \/ ForeignHangUp

LEMMA ForeignStepType ==
  ASSUME TypeOK, ForeignStep
  PROVE  TypeOK'
<1>1. CASE ForeignSend
  <2>1. PICK t \in Message \cup {Chunk(Len(wrote["listener"]) + 1)} :
          /\ wire' = [wire EXCEPT !["listener"] = Append(@, t)]
          /\ wrote' = [wrote EXCEPT !["listener"] = Append(@, t)]
    BY <1>1 DEF ForeignSend
  <2>2. wrote["listener"] \in Seq(Token) /\ wire["listener"] \in Seq(Token)
        /\ Len(wrote["listener"]) < MaxWrites
    BY <1>1 DEF TypeOK, ForeignSend
  <2>3. t \in Token
    BY <2>2, NextChunk, Tokens
  <2>4. wire' \in [Side -> Seq(Token)]
    BY <2>1, <2>2, <2>3 DEF TypeOK
  <2>5. wrote' \in [Side -> Seq(Token)]
    BY <2>1, <2>2, <2>3 DEF TypeOK
  <2> QED  BY <1>1, <2>4, <2>5 DEF ForeignSend, TypeOK, setup
<1>2. CASE ForeignRead
  <2>1. wire' \in [Side -> Seq(Token)] /\ Next1("listener") \in Token
    BY <1>2, ConsumeType DEF ForeignRead
  <2> QED  BY <1>2, <2>1 DEF ForeignRead, TypeOK, setup
<1>3. CASE ForeignHangUp
  BY <1>3, DropType DEF ForeignHangUp, TypeOK, setup, history
<1> QED  BY <1>1, <1>2, <1>3 DEF ForeignStep

\* The cases of a step.
LEMMA ForeignCases ==
  ASSUME [ForeignNext]_vars
  PROVE  \/ DialerStep
         \/ ExpectingFlush \/ PollNegotiated \/ PollNegotiatedFails
         \/ AppWrite("dialer") \/ AppRead("dialer")
         \/ AppClose("dialer") \/ AppDrop("dialer")
         \/ ForeignStep \/ UNCHANGED vars
BY DEF ForeignNext, DialerApp, ForeignStep, Finished

LEMMA ForeignType ==
  ASSUME TypeOK, [ForeignNext]_vars
  PROVE  TypeOK'
BY ForeignCases, ForeignStepType, DialerType, AppType, StutterType DEF AppStep

-----------------------------------------------------------------------------
(* What a foreign listener sees. *)

\* All that the dialer has put on the stream, read or not.
Stream == read["listener"] \o wire["dialer"] \o buf["dialer"]
Listed == [i \in 1..Proposed |-> Proposal(offered[i])]

Preparing == {"Initial", "SendProtocol", "FlushProtocol", "AwaitProtocol"}

\* No application has the dialer's stream before its last proposal is made.
SentInOrder ==
    /\ state["dialer"] = "SendProtocol" => taken > 0
    /\ state["dialer"] \in Preparing => wrote["dialer"] = <<>>
    /\ ~gone["dialer"] => Stream = Listed \o wrote["dialer"]

LEMMA ListedType ==
  ASSUME TypeOK, SentInOrder
  PROVE  Proposed \in 0..Len(offered) /\ Len(offered) \in Nat /\ Listed \in Seq(Token)
<1>1. Proposed \in 0..Len(offered) /\ Len(offered) \in Nat
  BY DEF TypeOK, SentInOrder, Proposed
<1>2. \A i \in 1..Proposed : Proposal(offered[i]) \in Token
  BY <1>1, Tokens DEF TypeOK
<1> QED  BY <1>1, <1>2 DEF Listed

\* Moving a token on does not change the stream.
LEMMA StreamFlushed ==
  ASSUME TypeOK, WriteOut("dialer"), read' = read
  PROVE  Stream' = Stream
<1> DEFINE r == read["listener"]
           w == wire["dialer"]
           b == buf["dialer"]
<1>1. r \in Seq(Token) /\ w \in Seq(Token) /\ b \in Seq(Token) /\ b # <<>>
  BY DEF TypeOK, WriteOut
<1>2. wire'["dialer"] = Append(w, Head(b)) /\ buf'["dialer"] = Tail(b)
  BY DEF TypeOK, WriteOut
<1>3. Head(b) \in Token /\ r \o w \in Seq(Token)
  BY <1>1, HeadTailProperties, ConcatProperties
<1> HIDE DEF r, w, b
<1>4. r \o Append(w, Head(b)) = Append(r \o w, Head(b))
  BY <1>1, <1>3, Joins
<1>5. Append(r \o w, Head(b)) \o Tail(b) = (r \o w) \o b
  BY <1>1, <1>3, Joins
<1>6. r \o Append(w, Head(b)) \o Tail(b) = r \o w \o b
  BY <1>4, <1>5
<1> USE DEF r, w, b
<1> QED  BY <1>2, <1>6 DEF Stream

LEMMA StreamRead ==
  ASSUME TypeOK, ForeignRead
  PROVE  Stream' = Stream
<1> DEFINE r == read["listener"]
           w == wire["dialer"]
<1>1. r \in Seq(Token) /\ w \in Seq(Token) /\ w # <<>>
  BY Peers DEF TypeOK, ForeignRead, Readable
<1>2. read'["listener"] = Append(r, Head(w)) /\ wire'["dialer"] = Tail(w) /\ buf' = buf
  BY Peers DEF TypeOK, ForeignRead, Consume, Next1
<1>3. Append(r, Head(w)) \o Tail(w) = r \o w
  BY <1>1, Joins, HeadTailProperties
<1> QED  BY <1>2, <1>3 DEF Stream

\* What is written comes last.
LEMMA StreamSent ==
  ASSUME TypeOK, NEW m \in Token, StartSend("dialer", m), read' = read
  PROVE  Stream' = Append(Stream, m)
<1> DEFINE a == read["listener"] \o wire["dialer"]
           b == buf["dialer"]
<1>1. a \in Seq(Token) /\ b \in Seq(Token)
  BY ConcatProperties DEF TypeOK
<1>2. buf'["dialer"] = Append(b, m) /\ wire' = wire
  BY DEF TypeOK, StartSend
<1> HIDE DEF a, b
<1>3. a \o Append(b, m) = Append(a \o b, m)
  BY <1>1, Joins
<1> QED  BY <1>2, <1>3 DEF Stream, a, b

LEMMA StreamWritten ==
  ASSUME TypeOK, NEW t \in Token, buf["dialer"] = <<>>,
         wire'["dialer"] = Append(wire["dialer"], t), buf' = buf, read' = read
  PROVE  Stream' = Append(Stream, t)
<1>1. read["listener"] \in Seq(Token) /\ wire["dialer"] \in Seq(Token)
  BY DEF TypeOK
<1>2. read["listener"] \o wire["dialer"] \in Seq(Token)
  BY <1>1, ConcatProperties
<1>3. read["listener"] \o Append(wire["dialer"], t)
        = Append(read["listener"] \o wire["dialer"], t)
  BY <1>1, Joins
<1>4. Append(read["listener"] \o wire["dialer"], t) \in Seq(Token)
  BY <1>2, AppendProperties
<1>5. /\ (read["listener"] \o wire["dialer"]) \o <<>> = read["listener"] \o wire["dialer"]
      /\ Append(read["listener"] \o wire["dialer"], t) \o <<>>
           = Append(read["listener"] \o wire["dialer"], t)
  BY <1>2, <1>4, ConcatEmptySeq
<1>6. Stream = read["listener"] \o wire["dialer"]
  BY <1>5 DEF Stream
<1>7. Stream' = Append(read["listener"] \o wire["dialer"], t)
  BY <1>3, <1>5 DEF Stream
<1> QED  BY <1>6, <1>7

\* The dialer's state machine.
LEMMA OrderKept ==
  ASSUME SentInOrder, Stream' = Stream, wrote' = wrote, offered' = offered,
         taken' = taken, state' = state, gone' = gone
  PROVE  SentInOrder'
<1>1. Listed' = Listed
  BY DEF Listed, Proposed
<1> QED  BY <1>1 DEF SentInOrder

LEMMA OrderGone ==
  ASSUME SentInOrder, gone'["dialer"], state'["dialer"] \notin Preparing
  PROVE  SentInOrder'
BY DEF SentInOrder, Preparing

LEMMA OrderTakeNext ==
  ASSUME TypeOK, SentInOrder, TakeNext, Stream' = Stream, wrote' = wrote,
         offered' = offered, state["dialer"] \in {"Initial", "AwaitProtocol"}
  PROVE  SentInOrder'
<1>1. CASE Fail("dialer")
  BY <1>1, OrderGone DEF Fail, Drop, Goto, TypeOK, Preparing
<1>2. CASE taken' = taken + 1 /\ Goto("dialer", "SendProtocol")
           /\ UNCHANGED <<buf, closed, gone>>
  <2>1. state'["dialer"] = "SendProtocol"
    BY <1>2 DEF Goto, TypeOK
  <2>2. taken' > 0 /\ Proposed' = Proposed
    BY <1>2, <2>1 DEF Proposed, TypeOK
  <2>3. Listed' = Listed
    BY <2>2 DEF Listed
  <2> QED  BY <1>2, <2>1, <2>2, <2>3 DEF SentInOrder, Preparing
<1> QED  BY <1>1, <1>2 DEF TakeNext

LEMMA OrderInitial ==
  ASSUME TypeOK, SentInOrder, DialerInitial
  PROVE  SentInOrder'
<1> USE DEF DialerInitial, setup, history
<1>1. CASE buf' = buf
  BY <1>1, OrderTakeNext DEF Stream
<1>2. CASE Fail("dialer")
  BY <1>2, OrderGone DEF Fail, Drop, Goto, TypeOK, Preparing
<1> QED  BY <1>1, <1>2 DEF TakeNext

\* The proposal sent is the next of the list.
LEMMA OrderSend ==
  ASSUME TypeOK, SentInOrder, DialerSend
  PROVE  SentInOrder'
<1> USE DEF DialerSend, setup, history
<1>1. CASE Fail("dialer")
  BY <1>1, OrderGone DEF Fail, Drop, Goto, TypeOK, Preparing
<1>2. CASE /\ Current \in ValidName
           /\ StartSend("dialer", Proposal(Current))
           /\ Goto("dialer", IF taken < Len(offered) THEN "FlushProtocol"
                                                     ELSE "Expecting")
  <2>1. Proposal(Current) \in Token
    BY <1>2, Tokens, NamesAssumption
  <2>2. Stream' = Append(Stream, Proposal(Current))
    BY <1>2, <2>1, StreamSent
  <2>3. state'["dialer"] \in {"FlushProtocol", "Expecting"}
    BY <1>2 DEF Goto, TypeOK
  <2>4. Proposed = taken - 1 /\ Proposed' = taken /\ taken \in Nat \ {0}
    BY <2>3 DEF Proposed, SentInOrder, TypeOK
  <2>5. Listed' = Append(Listed, Proposal(Current))
    <3>1. Listed \in Seq(Token) /\ Len(Listed) = Proposed
      BY ListedType DEF Listed
    <3>2. Listed' = [i \in 1..taken |-> Proposal(offered[i])]
      BY <2>4 DEF Listed, Proposal
    <3> QED  BY <3>1, <3>2, <2>1, <2>4 DEF Listed, Current
  <2>6. CASE ~gone["dialer"]
    <3>1. Stream = Listed
      BY <2>6, ListedType, ConcatEmptySeq DEF SentInOrder, Preparing
    <3>2. Listed' \in Seq(Token)
      BY <2>1, <2>5, ListedType, AppendProperties
    <3>3. Listed' \o <<>> = Listed'
      BY <3>2, ConcatEmptySeq
    <3> QED  BY <2>2, <2>3, <2>5, <3>1, <3>3 DEF SentInOrder, Preparing
  <2>7. CASE gone["dialer"]
    BY <1>2, <2>3, <2>7 DEF SentInOrder, StartSend, Preparing
  <2> QED  BY <2>6, <2>7
<1> QED  BY <1>1, <1>2

LEMMA OrderFlush ==
  ASSUME TypeOK, SentInOrder, DialerFlush \/ ExpectingFlush
  PROVE  SentInOrder'
<1> USE DEF DialerFlush, ExpectingFlush, setup, history
<1>1. CASE WriteOut("dialer") /\ UNCHANGED state
  <2>1. Stream' = Stream /\ gone' = gone
    BY <1>1, StreamFlushed DEF WriteOut
  <2> QED  BY <1>1, <2>1, OrderKept
<1>2. CASE DialerFlush /\ Goto("dialer", "AwaitProtocol") /\ UNCHANGED transport
  <2>1. state'["dialer"] = "AwaitProtocol" /\ Stream' = Stream
    BY <1>2 DEF Goto, TypeOK, Stream, transport
  <2>2. Listed' = Listed
    BY <1>2, <2>1 DEF Listed, Proposed
  <2> QED  BY <1>2, <2>1, <2>2 DEF SentInOrder, Preparing, transport
<1>3. CASE Fail("dialer")
  BY <1>3, OrderGone DEF Fail, Drop, Goto, TypeOK, Preparing
<1> QED  BY <1>1, <1>2, <1>3

LEMMA OrderAwait ==
  ASSUME TypeOK, SentInOrder, DialerAwaitMessage \/ DialerAwaitFails
  PROVE  SentInOrder'
<1> USE DEF DialerAwaitMessage, DialerAwaitFails, setup, history
<1>1. CASE Fail("dialer")
  BY <1>1, OrderGone DEF Fail, Drop, Goto, TypeOK, Preparing
<1>2. CASE DialerAwaitMessage /\ buf' = buf
  <2>1. Stream' = Stream
    BY <1>2, Peers DEF Stream, Consume, TypeOK
  <2>2. CASE TakeNext
    BY <1>2, <2>1, <2>2, OrderTakeNext
  <2>3. CASE /\ Goto("dialer", "Completed") \/ Goto("dialer", "Initial")
             /\ UNCHANGED <<taken, buf, closed, gone>>
    <3>1. state'["dialer"] \in {"Completed", "Initial"}
      BY <2>3 DEF Goto, TypeOK
    <3>2. Listed' = Listed
      BY <1>2, <2>3, <3>1 DEF Listed, Proposed
    <3> QED  BY <1>2, <2>1, <2>3, <3>1, <3>2 DEF SentInOrder, Preparing
  <2> QED  BY <1>1, <1>2, <2>2, <2>3
<1> QED  BY <1>1, <1>2 DEF TakeNext

LEMMA OrderPoll ==
  ASSUME TypeOK, SentInOrder, PollNegotiated \/ PollNegotiatedFails
  PROVE  SentInOrder'
<1> USE DEF PollNegotiated, PollNegotiatedFails, setup, history
<1>1. CASE Drop("dialer") /\ Goto("dialer", "Invalid")
  BY <1>1, OrderGone DEF Drop, Goto, TypeOK, Preparing
<1>2. CASE Consume("dialer") /\ Goto("dialer", "Completed")
           /\ UNCHANGED <<buf, closed, gone>> /\ PollNegotiated
  <2>1. Stream' = Stream
    BY <1>2, Peers DEF Stream, Consume, TypeOK
  <2>2. state'["dialer"] = "Completed"
    BY <1>2 DEF Goto, TypeOK
  <2>3. Listed' = Listed
    BY <1>2, <2>2 DEF Listed, Proposed
  <2> QED  BY <1>2, <2>1, <2>2, <2>3 DEF SentInOrder, Preparing
<1> QED  BY <1>1, <1>2

LEMMA OrderApp ==
  ASSUME TypeOK, SentInOrder,
         \/ AppWrite("dialer") \/ AppRead("dialer")
         \/ AppClose("dialer") \/ AppDrop("dialer")
  PROVE  SentInOrder'
<1>1. CASE AppWrite("dialer")
  <2>1. PICK t \in Token : /\ wire' = [wire EXCEPT !["dialer"] = Append(@, t)]
                           /\ wrote' = [wrote EXCEPT !["dialer"] = Append(@, t)]
    BY <1>1, WrittenToken DEF AppWrite
  <2>2. /\ wire'["dialer"] = Append(wire["dialer"], t)
        /\ wrote'["dialer"] = Append(wrote["dialer"], t) /\ wrote["dialer"] \in Seq(Token)
    BY <2>1 DEF TypeOK
  <2>3. /\ buf["dialer"] = <<>> /\ buf' = buf /\ read' = read /\ gone' = gone
        /\ state' = state /\ taken' = taken /\ offered' = offered
        /\ state["dialer"] \in {"Expecting", "Completed"} /\ ~gone["dialer"]
    BY <1>1 DEF AppWrite, Usable, setup
  <2>4. Stream' = Append(Stream, t)
    BY <2>2, <2>3, StreamWritten
  <2>5. Listed' = Listed /\ Listed \in Seq(Token)
    BY <2>3, ListedType DEF Listed, Proposed
  <2>6. Listed \o Append(wrote["dialer"], t) = Append(Listed \o wrote["dialer"], t)
    BY <2>2, <2>5, Joins
  <2> QED  BY <2>2, <2>3, <2>4, <2>5, <2>6 DEF SentInOrder, Preparing
<1>2. CASE AppRead("dialer")
  <2>1. Stream' = Stream
    BY <1>2, Peers DEF Stream, AppRead, Consume, TypeOK
  <2> QED  BY <1>2, <2>1, OrderKept DEF AppRead, setup
<1>3. CASE AppClose("dialer")
  BY <1>3, OrderKept DEF AppClose, setup, history, Stream
<1>4. CASE AppDrop("dialer")
  BY <1>4, OrderGone DEF AppDrop, Drop, Usable, TypeOK, Preparing
<1> QED  BY <1>1, <1>2, <1>3, <1>4

LEMMA OrderForeign ==
  ASSUME TypeOK, SentInOrder, ForeignStep
  PROVE  SentInOrder'
<1>1. /\ wrote'["dialer"] = wrote["dialer"] /\ offered' = offered /\ taken' = taken
      /\ state' = state /\ gone'["dialer"] = gone["dialer"]
  BY DEF ForeignStep, ForeignSend, ForeignRead, ForeignHangUp, Drop, TypeOK, setup, history
<1>2. Stream' = Stream
  <2>1. CASE ForeignSend
    BY <2>1 DEF ForeignSend, Stream, TypeOK
  <2>2. CASE ForeignRead
    BY <2>2, StreamRead
  <2>3. CASE ForeignHangUp
    BY <2>3 DEF ForeignHangUp, Drop, Stream, TypeOK, history
  <2> QED  BY <2>1, <2>2, <2>3 DEF ForeignStep
<1>3. Listed' = Listed
  BY <1>1 DEF Listed, Proposed
<1> QED  BY <1>1, <1>2, <1>3 DEF SentInOrder

LEMMA OrderInit == Init => SentInOrder
<1> SUFFICES ASSUME Init PROVE SentInOrder
  OBVIOUS
<1>1. Stream = <<>>
  BY ConcatEmptySeq DEF Init, Stream
<1>2. Proposed = 0
  BY DEF Init, Proposed
<1>3. Listed = <<>>
  BY <1>2 DEF Listed
<1> QED  BY <1>1, <1>3, ConcatEmptySeq DEF Init, SentInOrder, Preparing

LEMMA ForeignTypeCorrect == ForeignSpec => []TypeOK
BY InitType, ForeignType, PTL DEF ForeignSpec

LEMMA SentInOrderHolds == ForeignSpec => []SentInOrder
<1>1. TypeOK /\ SentInOrder /\ [ForeignNext]_vars => SentInOrder'
  <2> SUFFICES ASSUME TypeOK, SentInOrder, [ForeignNext]_vars PROVE SentInOrder'
    OBVIOUS
  <2>1. CASE UNCHANGED vars
    BY <2>1, OrderKept DEF vars, Stream
  <2> QED  BY <2>1, ForeignCases, OrderInitial, OrderSend, OrderFlush, OrderAwait,
              OrderPoll, OrderApp, OrderForeign DEF DialerStep
<1> QED  BY OrderInit, <1>1, ForeignTypeCorrect, PTL DEF ForeignSpec

\* Whatever the peer answers, and when, it sees the dialer's protocols in the
\* order of its list, each once, and application data only behind the last.
THEOREM ProposalsInOrderHolds == ForeignSpec => []ProposalsInOrder
<1>1. SentInOrder => ProposalsInOrder
  BY DEF SentInOrder, ProposalsInOrder, Stream, Listed
<1> QED  BY <1>1, SentInOrderHolds, PTL

-----------------------------------------------------------------------------
(* Nothing behind the foreign answer is swallowed. *)

\* What is on the wire is the end of what the peer has written.  Behind the
\* echo comes what the application has read and then what is on the wire.
InFront(front, rest) ==
    front \in Seq(Token) /\ wrote["listener"] = front \o rest

BehindEcho ==
    /\ state["dialer"] # "Completed" =>
         read["dialer"] = <<>> /\ \E front : InFront(front, wire["listener"])
    /\ state["dialer"] = "Completed" =>
         /\ Proposal(Current) \in Token
         /\ \E front \in Seq(Token) :
              InFront(Append(front, Proposal(Current)), read["dialer"] \o wire["listener"])

LEMMA BehindKept ==
  ASSUME BehindEcho, wrote'["listener"] = wrote["listener"],
         wire'["listener"] = wire["listener"], read'["dialer"] = read["dialer"],
         state'["dialer"] = "Completed" <=> state["dialer"] = "Completed",
         state["dialer"] = "Completed" => taken' = taken, offered' = offered
  PROVE  BehindEcho'
<1>1. CASE state["dialer"] # "Completed"
  BY <1>1 DEF BehindEcho, InFront
<1>2. CASE state["dialer"] = "Completed"
  <2>1. Proposal(Current)' = Proposal(Current)
    BY <1>2 DEF Current, Proposal
  <2> QED  BY <1>2, <2>1 DEF BehindEcho, InFront
<1> QED  BY <1>1, <1>2

\* The dialer reads a frame that does not complete its stream, or does.
LEMMA BehindConsume ==
  ASSUME TypeOK, BehindEcho, Readable("dialer"), Consume("dialer"), wrote' = wrote,
         read' = read, offered' = offered, state["dialer"] # "Completed",
         state'["dialer"] = "Completed" =>
            taken' = taken /\ Next1("dialer") = Proposal(Current)
  PROVE  BehindEcho'
<1> DEFINE w == wire["listener"]
<1>1. w \in Seq(Token) /\ w # <<>> /\ Next1("dialer") = Head(w)
      /\ wire'["listener"] = Tail(w)
  BY Peers DEF TypeOK, Readable, Consume, Next1
<1>2. PICK front : InFront(front, w)
  BY DEF BehindEcho
<1>3. Head(w) \in Token /\ Tail(w) \in Seq(Token)
  BY <1>1, HeadTailProperties
<1>4. Append(front, Head(w)) \in Seq(Token)
      /\ wrote["listener"] = Append(front, Head(w)) \o Tail(w)
  <2>1. front \in Seq(Token) /\ wrote["listener"] = front \o w
    BY <1>2 DEF InFront
  <2> HIDE DEF w
  <2>2. Append(front, Head(w)) \o Tail(w) = front \o w
    BY <1>1, <1>3, <2>1, Joins
  <2> QED  BY <1>3, <2>1, <2>2, AppendProperties
<1>5. read["dialer"] = <<>> /\ <<>> \o Tail(w) = Tail(w)
  BY <1>3, ConcatEmptySeq DEF BehindEcho
<1>6. CASE state'["dialer"] # "Completed"
  BY <1>1, <1>4, <1>5, <1>6 DEF BehindEcho, InFront
<1>7. CASE state'["dialer"] = "Completed"
  <2>1. Proposal(Current)' = Head(w)
    BY <1>1, <1>7 DEF Current, Proposal
  <2>2. InFront(Append(front, Proposal(Current)), read["dialer"] \o wire["listener"])'
    BY <1>1, <1>4, <1>5, <2>1 DEF InFront
  <2> QED  BY <1>2, <1>3, <1>7, <2>1, <2>2 DEF BehindEcho, InFront
<1> QED  BY <1>6, <1>7

LEMMA BehindRead ==
  ASSUME TypeOK, BehindEcho, AppRead("dialer")
  PROVE  BehindEcho'
<1> DEFINE w == wire["listener"]
           r == read["dialer"]
<1>1. w \in Seq(Token) /\ w # <<>> /\ r \in Seq(Token)
      /\ wire'["listener"] = Tail(w) /\ read'["dialer"] = Append(r, Head(w))
  BY Peers DEF TypeOK, AppRead, Readable, Consume, Next1
<1>2. Append(r, Head(w)) \o Tail(w) = r \o w
  BY <1>1, Joins, HeadTailProperties
<1>3. state["dialer"] = "Completed" /\ state' = state /\ wrote' = wrote
      /\ Proposal(Current)' = Proposal(Current)
  BY DEF AppRead, setup, Current, Proposal
<1> QED  BY <1>1, <1>2, <1>3 DEF BehindEcho, InFront

\* The peer writes on.
LEMMA BehindSend ==
  ASSUME TypeOK, BehindEcho, ForeignSend
  PROVE  BehindEcho'
<1> DEFINE w == wire["listener"]
           r == read["dialer"]
<1>1. PICK t \in Message \cup {Chunk(Len(wrote["listener"]) + 1)} :
        /\ wire' = [wire EXCEPT !["listener"] = Append(@, t)]
        /\ wrote' = [wrote EXCEPT !["listener"] = Append(@, t)]
  BY DEF ForeignSend
<1>2. wrote["listener"] \in Seq(Token) /\ w \in Seq(Token) /\ r \in Seq(Token)
      /\ Len(wrote["listener"]) < MaxWrites
  BY DEF TypeOK, ForeignSend
<1>3. t \in Token
  BY <1>2, NextChunk, Tokens
<1>4. /\ wire'["listener"] = Append(w, t)
      /\ wrote'["listener"] = Append(wrote["listener"], t)
  BY <1>1 DEF TypeOK
<1>5. state' = state /\ read' = read /\ Proposal(Current)' = Proposal(Current)
  BY DEF ForeignSend, setup, Current, Proposal
<1>6. ASSUME NEW front, NEW rest \in Seq(Token), InFront(front, rest)
      PROVE  wrote'["listener"] = front \o Append(rest, t)
  <2>1. front \in Seq(Token) /\ wrote["listener"] = front \o rest
    BY <1>6 DEF InFront
  <2>2. front \o Append(rest, t) = Append(front \o rest, t)
    BY <1>3, <1>6, <2>1, Joins
  <2> QED  BY <1>4, <2>1, <2>2
<1>7. CASE state["dialer"] # "Completed"
  BY <1>2, <1>4, <1>5, <1>6, <1>7 DEF BehindEcho, InFront
<1>8. CASE state["dialer"] = "Completed"
  <2>1. r \o w \in Seq(Token) /\ r \o Append(w, t) = Append(r \o w, t)
    BY <1>2, <1>3, Joins, ConcatProperties
  <2>2. PICK front \in Seq(Token) : InFront(Append(front, Proposal(Current)), r \o w)
    BY <1>8 DEF BehindEcho
  <2>3. wrote'["listener"] = Append(front, Proposal(Current)) \o (r \o Append(w, t))
    BY <1>6, <2>1, <2>2
  <2> QED  BY <1>4, <1>5, <1>8, <2>2, <2>3 DEF BehindEcho, InFront
<1> QED  BY <1>7, <1>8

LEMMA BehindStep ==
  ASSUME TypeOK, BehindEcho, [ForeignNext]_vars
  PROVE  BehindEcho'
<1> USE DEF setup, history, transport, Goto, Fail, Drop, TypeOK
<1>1. CASE DialerInitial
  BY <1>1, BehindKept DEF DialerInitial, TakeNext
<1>2. CASE DialerSend
  BY <1>2, BehindKept DEF DialerSend, StartSend
<1>3. CASE DialerFlush \/ ExpectingFlush
  BY <1>3, BehindKept DEF DialerFlush, ExpectingFlush, WriteOut
<1>4. CASE DialerAwaitMessage
  BY <1>4, BehindConsume DEF DialerAwaitMessage, TakeNext
<1>5. CASE DialerAwaitFails \/ PollNegotiatedFails
  BY <1>5, BehindKept DEF DialerAwaitFails, PollNegotiatedFails
<1>6. CASE PollNegotiated /\ Readable("dialer") /\ Consume("dialer")
  BY <1>6, BehindConsume DEF PollNegotiated
<1>7. CASE PollNegotiated /\ UNCHANGED wire /\ Goto("dialer", "Invalid")
  BY <1>7, BehindKept DEF PollNegotiated
<1>8. CASE AppWrite("dialer")
  BY <1>8, BehindKept DEF AppWrite
<1>9. CASE AppRead("dialer")
  BY <1>9, BehindRead
<1>10. CASE AppClose("dialer") \/ AppDrop("dialer")
  BY <1>10, BehindKept DEF AppClose, AppDrop
<1>11. CASE ForeignSend
  BY <1>11, BehindSend
<1>12. CASE ForeignRead
  BY <1>12, BehindKept, Peers DEF ForeignRead, Consume
<1>13. CASE ForeignHangUp
  BY <1>13, BehindKept DEF ForeignHangUp
<1>14. CASE UNCHANGED vars
  BY <1>14, BehindKept DEF vars
<1>15. PollNegotiated => \/ Readable("dialer") /\ Consume("dialer")
                         \/ UNCHANGED wire /\ Goto("dialer", "Invalid")
  BY DEF PollNegotiated
<1> QED
  BY <1>1, <1>2, <1>3, <1>4, <1>5, <1>6, <1>7, <1>8, <1>9, <1>10, <1>11, <1>12,
     <1>13, <1>14, <1>15, ForeignCases DEF DialerStep, ForeignStep

LEMMA BehindInit == Init => BehindEcho
<1> SUFFICES ASSUME Init PROVE BehindEcho
  OBVIOUS
<1>1. <<>> \o <<>> = <<>> /\ <<>> \in Seq(Token)
  BY ConcatEmptySeq
<1>2. InFront(<<>>, wire["listener"])
  BY <1>1 DEF Init, InFront
<1> QED  BY <1>2 DEF Init, BehindEcho

\* The application of a completed stream reads everything that follows the
\* frame with its protocol, whatever came before that frame or along with it.
THEOREM NothingSwallowedHolds == ForeignSpec => []NothingSwallowed
<1>1. TypeOK /\ BehindEcho => NothingSwallowed
  <2> SUFFICES ASSUME TypeOK, BehindEcho, state["dialer"] = "Completed"
               PROVE  \E k \in DOMAIN wrote["listener"] :
                        /\ wrote["listener"][k] = Proposal(Current)
                        /\ SubSeq(wrote["listener"], k + 1, Len(wrote["listener"])) =
                             read["dialer"] \o wire["listener"]
    BY DEF NothingSwallowed
  <2> DEFINE rest == read["dialer"] \o wire["listener"]
  <2>1. Proposal(Current) \in Token /\ rest \in Seq(Token)
    BY ConcatProperties DEF BehindEcho, TypeOK
  <2>2. PICK front \in Seq(Token) : InFront(Append(front, Proposal(Current)), rest)
    BY DEF BehindEcho
  <2> DEFINE all == Append(front, Proposal(Current))
             k == Len(front) + 1
  <2>3. wrote["listener"] = all \o rest
    BY <2>2 DEF InFront
  <2>4. all \in Seq(Token) /\ Len(all) = k /\ all[k] = Proposal(Current)
    BY <2>1, <2>2, AppendProperties
  <2>5. k \in Nat \ {0} /\ Len(rest) \in Nat
    <3>1. Len(front) \in Nat
      BY LenProperties
    <3>2. Len(rest) \in Nat
      BY <2>1, LenProperties
    <3>3. Len(front) + 1 \in Nat \ {0}
      BY <3>1
    <3> QED  BY <3>2, <3>3, Zenon
  <2> HIDE DEF all, rest, k
  <2>6. /\ Len(all \o rest) = k + Len(rest) /\ all \o rest \in Seq(Token)
        /\ (all \o rest)[k] = Proposal(Current)
    <3>1. /\ Len(all \o rest) = k + Len(rest) /\ all \o rest \in Seq(Token)
          /\ \A i \in 1..(k + Len(rest)) :
               (all \o rest)[i] = IF i <= k THEN all[i] ELSE rest[i - k]
      BY <2>1, <2>4, ConcatProperties
    <3>2. k \in 1..(k + Len(rest)) /\ k <= k
      BY <2>5
    <3> QED  BY <2>4, <3>1, <3>2
  <2>7. DOMAIN (all \o rest) = 1..(k + Len(rest))
    BY <2>6, LenProperties
  <2>8. SubSeq(all \o rest, k + 1, k + Len(rest)) = rest
    BY <2>1, <2>4, <2>6, SuffixOfConcat
  <2>9. k \in DOMAIN (all \o rest)
    BY <2>7, <2>5
  <2> QED  BY <2>3, <2>6, <2>8, <2>9 DEF rest
<1> QED  BY BehindInit, BehindStep, ForeignTypeCorrect, <1>1, PTL DEF ForeignSpec

-----------------------------------------------------------------------------
(* This crate's listener: the invariant behind Transparency. *)

\* The listener only ever accepts what it supports.
AnswerSupported == answer = NA \/ \E p \in Listening : answer = Proposal(p)

\* No application has a stream before its negotiation lets it have one.
NoDataYet ==
    /\ state["dialer"] \in Preparing => wrote["dialer"] = <<>> /\ read["listener"] = <<>>
    /\ state["dialer"] # "Completed" => read["dialer"] = <<>>
    /\ state["listener"] # "Completed" => wrote["listener"] = <<>> /\ read["listener"] = <<>>

\* The dialer waits for an answer.
Waiting ==
    \/ state["dialer"] \in {"FlushProtocol", "AwaitProtocol"}
    \/ state["dialer"] = "Expecting" /\ ~gone["dialer"]

\* What the listener's application has written is right behind the answer.
BehindAnswer ==
    /\ Waiting /\ Accepted(Current) =>
         buf["listener"] = <<>> /\ Tail(wire["listener"]) = wrote["listener"]
    /\ state["dialer"] = "Completed" =>
         buf["listener"] = <<>> /\ wrote["listener"] = read["dialer"] \o wire["listener"]

\* The proposal is unsent, or the dialer has been dropped before it was sent.
Unsent ==
    /\ state["listener"] \in {"RecvMessage", "Flush"} /\ answer = NA /\ ~misframed
    /\ wrote["dialer"] = <<>> /\ wire["dialer"] = <<>>
    /\ buf["dialer"] = <<Proposal(Current)>> \/ gone["dialer"]

\* It is the next thing the listener reads.
Underway ==
    /\ state["listener"] \in {"RecvMessage", "Flush"} /\ answer = NA /\ ~misframed
    /\ buf["dialer"] = <<>>
    /\ wire["dialer"] # <<>> /\ Head(wire["dialer"]) = Proposal(Current)
    /\ Tail(wire["dialer"]) = wrote["dialer"]

\* It has been read and accepted.
Arrived ==
    /\ state["listener"] \in {"SendMessage", "Flush", "Completed"}
    /\ answer = Proposal(Current) /\ buf["dialer"] = <<>>
    /\ wrote["dialer"] = read["listener"] \o wire["dialer"]

\* What the dialer's application has written is right behind the proposal, if
\* that is one the listener supports.
BehindProposal ==
    state["dialer"] \in {"Expecting", "Completed"} /\ Current \in Listening
        /\ state["listener"] # "Done" =>
      Unsent \/ Underway \/ Arrived

LEMMA NextCases ==
  ASSUME [Next]_vars
  PROVE  \/ DialerStep \/ ExpectingFlush \/ PollNegotiated \/ PollNegotiatedFails
         \/ AppWrite("dialer") \/ AppRead("dialer")
         \/ AppClose("dialer") \/ AppDrop("dialer")
         \/ ListenerAct \/ UseInvalid \/ UNCHANGED vars
BY DEF Next, AppStep, ListenerAct, ListenerApp, Finished

LEMMA SupportedStep ==
  ASSUME TypeOK, AnswerSupported, [Next]_vars
  PROVE  AnswerSupported'
<1>1. Listening' = Listening
  BY NextCases, DialerFrame, ListenerFrame DEF UseInvalid, vars, setup, Listening
<1>2. CASE UNCHANGED answer
  BY <1>1, <1>2 DEF AnswerSupported
<1>3. CASE ListenerRecvFrame
  BY <1>1, <1>3 DEF ListenerRecvFrame, AnswerSupported, Reply
<1>4. ListenerAct => UNCHANGED answer \/ ListenerRecvFrame
  BY DEF ListenerAct, ListenerStep, ListenerRecvData, ListenerRecvFails,
     ListenerSend, ListenerFlush, ListenerApp, AppWrite, AppRead, AppClose, AppDrop
<1> QED  BY <1>2, <1>3, <1>4, NextCases, DialerFrame DEF UseInvalid, vars

\* As long as the dialer waits, no data reaches the listener's application.
LEMMA NothingToRead ==
  ASSUME TypeOK, Alternation, state["dialer"] \in Preparing
  PROVE  ~AppRead("listener")
<1> SUFFICES ASSUME AppRead("listener") PROVE FALSE
  OBVIOUS
<1>1. state["listener"] = "Completed" /\ wire["dialer"] # <<>>
  BY Peers DEF AppRead, Readable
<1> QED  BY <1>1 DEF Preparing, Alternation, Quiet, Lockstep, ListenerLost, ListenerIdle

LEMMA NoDataDialer ==
  ASSUME TypeOK, Alternation, NoDataYet,
         \/ DialerStep \/ ExpectingFlush \/ PollNegotiated \/ PollNegotiatedFails
         \/ AppWrite("dialer") \/ AppRead("dialer")
         \/ AppClose("dialer") \/ AppDrop("dialer")
  PROVE  NoDataYet'
<1>1. state'["listener"] = state["listener"]
  BY DialerFrame
<1>2. wrote'["listener"] = wrote["listener"] /\ read'["listener"] = read["listener"]
  BY DEF DialerStep, DialerInitial, DialerSend, DialerFlush, DialerAwaitMessage,
     DialerAwaitFails, ExpectingFlush, PollNegotiated, PollNegotiatedFails,
     AppWrite, AppRead, AppClose, AppDrop, history, TypeOK
<1>3. CASE DialerStep
  <2>1. wrote' = wrote /\ read' = read /\ state["dialer"] \in Preparing
    BY <1>3 DEF DialerStep, DialerInitial, DialerSend, DialerFlush, DialerAwaitMessage,
       DialerAwaitFails, history, Preparing
  <2> QED  BY <1>1, <2>1 DEF NoDataYet, Preparing
<1>4. CASE ExpectingFlush \/ PollNegotiated \/ PollNegotiatedFails
  <2>1. wrote' = wrote /\ read' = read /\ state["dialer"] = "Expecting"
        /\ state'["dialer"] \notin Preparing
    BY <1>4 DEF ExpectingFlush, PollNegotiated, PollNegotiatedFails, history,
       Preparing, Goto, TypeOK
  <2> QED  BY <1>1, <2>1 DEF NoDataYet
<1>5. CASE AppWrite("dialer") \/ AppRead("dialer") \/ AppClose("dialer") \/ AppDrop("dialer")
  <2>1. state' = state /\ state["dialer"] \notin Preparing
        /\ (state["dialer"] # "Completed" => read' = read)
    BY <1>5 DEF AppWrite, AppRead, AppClose, AppDrop, Usable, history, Preparing
  <2> QED  BY <1>2, <2>1 DEF NoDataYet
<1> QED  BY <1>3, <1>4, <1>5

LEMMA NoDataListener ==
  ASSUME TypeOK, Alternation, NoDataYet, ListenerAct
  PROVE  NoDataYet'
<1>1. state'["dialer"] = state["dialer"]
  BY ListenerFrame
<1>2. CASE ListenerStep
  <2>1. wrote' = wrote /\ read' = read /\ state["listener"] # "Completed"
    BY <1>2 DEF ListenerStep, ListenerRecvFrame, ListenerRecvData, ListenerRecvFails,
       ListenerSend, ListenerFlush, history
  <2> QED  BY <1>1, <2>1 DEF NoDataYet
<1>3. CASE ListenerApp
  <2>1. state' = state /\ state["listener"] = "Completed"
    BY <1>3 DEF ListenerApp, AppWrite, AppRead, AppClose, AppDrop, Usable, TypeOK,
       ListenerStates
  <2>2. wrote'["dialer"] = wrote["dialer"] /\ read'["dialer"] = read["dialer"]
        /\ (~AppRead("listener") => read' = read)
    BY <1>3 DEF ListenerApp, AppWrite, AppRead, AppClose, AppDrop, TypeOK, history
  <2> QED  BY <2>1, <2>2, NothingToRead DEF NoDataYet
<1> QED  BY <1>2, <1>3 DEF ListenerAct

LEMMA NoDataStep ==
  ASSUME TypeOK, Alternation, NoDataYet, [Next]_vars
  PROVE  NoDataYet'
<1>1. CASE UseInvalid \/ UNCHANGED vars
  BY <1>1 DEF UseInvalid, vars, history, NoDataYet
<1> QED  BY <1>1, NextCases, NoDataDialer, NoDataListener

-----------------------------------------------------------------------------
(* From the listener to the dialer. *)

\* Once the answer is out of its buffer, the listener's side only adds data.
LEMMA AfterAnswer ==
  ASSUME TypeOK, ListenerAct, state["listener"] \in {"Flush", "Completed", "Done"},
         answer # NA, buf["listener"] = <<>>
  PROVE  /\ buf'["listener"] = <<>> /\ read'["dialer"] = read["dialer"]
         /\ \/ /\ wire'["listener"] = wire["listener"]
               /\ wrote'["listener"] = wrote["listener"]
            \/ \E t \in Token :
                 /\ wire'["listener"] = Append(wire["listener"], t)
                 /\ wrote'["listener"] = Append(wrote["listener"], t)
<1>1. CASE ListenerFlush
  BY <1>1 DEF ListenerFlush, WriteOut, Goto, Fail, Drop, transport, history, TypeOK
<1>2. CASE AppWrite("listener")
  <2>1. PICK t \in Token : /\ wire' = [wire EXCEPT !["listener"] = Append(@, t)]
                           /\ wrote' = [wrote EXCEPT !["listener"] = Append(@, t)]
    BY <1>2, WrittenToken DEF AppWrite
  <2>2. /\ wire'["listener"] = Append(wire["listener"], t)
        /\ wrote'["listener"] = Append(wrote["listener"], t)
    BY <2>1 DEF TypeOK
  <2> QED  BY <1>2, <2>2 DEF AppWrite
<1>3. CASE AppRead("listener")
  BY <1>3, Peers DEF AppRead, Consume, TypeOK
<1>4. CASE AppClose("listener") \/ AppDrop("listener")
  BY <1>4 DEF AppClose, AppDrop, Drop, history, TypeOK
<1>5. ~ListenerRecvFrame /\ ~ListenerRecvData /\ ~ListenerRecvFails /\ ~ListenerSend
  BY DEF ListenerRecvFrame, ListenerRecvData, ListenerRecvFails, ListenerSend
<1> QED  BY <1>1, <1>2, <1>3, <1>4, <1>5 DEF ListenerAct, ListenerStep, ListenerApp

\* The acceptance gets on the wire when the listener flushes it.
LEMMA JustAccepted ==
  ASSUME TypeOK, NoDataYet, NEW p \in Name, Lockstep(p) \/ Pipelined(p),
         ~Accepted(p), ListenerAct, Accepted(p)'
  PROVE  buf'["listener"] = <<>> /\ Tail(wire'["listener"]) = wrote'["listener"]
<1>1. ~ListenerLost
  BY LostStep
<1>2. Listening' = Listening
  BY ListenerFrame DEF Listening
<1>3. wire'["listener"] # <<>> /\ p \in Listening /\ answer' = Proposal(p)
  BY <1>2 DEF Accepted
<1>4. CASE ListenerIdle
  <2>1. wire'["listener"] = <<>> \/ answer' = answer
    BY <1>4, IdleStep DEF ListenerIdle, ListenerLost, Deciding
  <2> QED  BY <1>3, <1>4, <2>1, ReplyKinds DEF ListenerIdle
<1>5. CASE Deciding(p)
  <2>1. ListenerFlush /\ WriteOut("listener")
    BY <1>3, <1>5 DEF Deciding, ListenerAct, ListenerStep, ListenerRecvFrame,
       ListenerRecvData, ListenerRecvFails, ListenerSend, StartSend, ListenerFlush,
       transport, ListenerApp, AppWrite, AppRead, AppClose, AppDrop, Usable
  <2>2. buf["listener"] = <<answer>> /\ state["listener"] = "Flush" /\ wire["listener"] = <<>>
    BY <1>5, <2>1 DEF Deciding, ListenerFlush, WriteOut
  <2>3. Head(<<answer>>) = answer /\ Tail(<<answer>>) = <<>> /\ Append(<<>>, answer) = <<answer>>
    BY Pipes, Tokens DEF TypeOK
  <2>4. wire'["listener"] = <<answer>> /\ buf'["listener"] = <<>>
    BY <2>1, <2>2, <2>3 DEF WriteOut, TypeOK
  <2>5. wrote'["listener"] = <<>>
    BY <2>1, <2>2 DEF ListenerFlush, NoDataYet, history
  <2> QED  BY <2>3, <2>4, <2>5
<1>6. \/ ListenerLost \/ ListenerIdle \/ Deciding(p) \/ Accepted(p) \/ p \notin Listening
  BY DEF Lockstep, Pipelined
<1> QED  BY <1>1, <1>3, <1>4, <1>5, <1>6

LEMMA AnswerListener ==
  ASSUME TypeOK, Alternation, NoDataYet, BehindAnswer, ListenerAct
  PROVE  BehindAnswer'
<1>1. /\ state'["dialer"] = state["dialer"] /\ gone'["dialer"] = gone["dialer"]
      /\ Current' = Current
  BY ListenerFrame DEF Current
<1>2. wire["listener"] \in Seq(Token) /\ wrote["listener"] \in Seq(Token)
      /\ read["dialer"] \in Seq(Token)
  BY DEF TypeOK
<1>3. ASSUME Waiting, Accepted(Current)'
      PROVE  buf'["listener"] = <<>> /\ Tail(wire'["listener"]) = wrote'["listener"]
  <2>1. Current \in Name /\ (Lockstep(Current) \/ Pipelined(Current))
    BY <1>3, CurrentName DEF Alternation, Waiting
  <2>2. CASE Accepted(Current)
    <3>1. /\ state["listener"] \in {"Flush", "Completed", "Done"} /\ answer # NA
          /\ wire["listener"] # <<>>
      BY <2>2, ReplyKinds DEF Accepted
    <3>2. buf["listener"] = <<>> /\ Tail(wire["listener"]) = wrote["listener"]
      BY <1>3, <2>2 DEF BehindAnswer
    <3>3. buf'["listener"] = <<>>
      BY <3>1, <3>2, AfterAnswer
    <3>4. CASE wire'["listener"] = wire["listener"] /\ wrote'["listener"] = wrote["listener"]
      BY <3>2, <3>3, <3>4
    <3>5. ASSUME NEW t \in Token,
                 wire'["listener"] = Append(wire["listener"], t),
                 wrote'["listener"] = Append(wrote["listener"], t)
          PROVE  Tail(wire'["listener"]) = wrote'["listener"]
      <4>1. Tail(Append(wire["listener"], t)) = Append(Tail(wire["listener"]), t)
        BY <1>2, <3>1, Behind
      <4> QED  BY <3>2, <3>5, <4>1
    <3> QED  BY <3>1, <3>2, <3>3, <3>4, <3>5, AfterAnswer
  <2>3. CASE ~Accepted(Current)
    <3>1. ASSUME NEW p \in Name, p = Current  PROVE Accepted(p)'
      BY <1>1, <1>3, <3>1 DEF Accepted
    <3> QED  BY <2>1, <2>3, <3>1, JustAccepted
  <2> QED  BY <2>2, <2>3
<1>4. ASSUME state["dialer"] = "Completed"
      PROVE  buf'["listener"] = <<>>
             /\ wrote'["listener"] = read'["dialer"] \o wire'["listener"]
  <2>1. state["listener"] \in {"Flush", "Completed", "Done"} /\ answer # NA
    BY <1>4, ReplyKinds DEF Alternation
  <2>2. buf["listener"] = <<>> /\ wrote["listener"] = read["dialer"] \o wire["listener"]
    BY <1>4 DEF BehindAnswer
  <2>3. buf'["listener"] = <<>> /\ read'["dialer"] = read["dialer"]
    BY <2>1, <2>2, AfterAnswer
  <2>4. ASSUME NEW t \in Token,
               wire'["listener"] = Append(wire["listener"], t),
               wrote'["listener"] = Append(wrote["listener"], t)
        PROVE  wrote'["listener"] = read'["dialer"] \o wire'["listener"]
    <3>1. read["dialer"] \o Append(wire["listener"], t)
            = Append(read["dialer"] \o wire["listener"], t)
      BY <1>2, Joins
    <3> QED  BY <2>2, <2>3, <2>4, <3>1
  <2> QED  BY <2>1, <2>2, <2>3, <2>4, AfterAnswer
<1> QED  BY <1>1, <1>3, <1>4 DEF BehindAnswer, Waiting

\* The dialer only takes from the listener's pipe.
LEMMA AnswerUnread ==
  ASSUME BehindAnswer, Current' = Current, Listening' = Listening, answer' = answer,
         state'["listener"] = state["listener"], buf'["listener"] = buf["listener"],
         wire'["listener"] = wire["listener"], wrote'["listener"] = wrote["listener"],
         read'["dialer"] = read["dialer"],
         Waiting' => Waiting,
         state'["dialer"] = "Completed" => state["dialer"] = "Completed"
  PROVE  BehindAnswer'
<1>1. Accepted(Current)' => Accepted(Current)
  BY DEF Accepted, Proposal
<1> QED  BY <1>1 DEF BehindAnswer

LEMMA AnswerDone ==
  ASSUME state'["dialer"] \notin {"FlushProtocol", "AwaitProtocol", "Expecting", "Completed"}
  PROVE  BehindAnswer'
BY DEF BehindAnswer, Waiting

\* The stream completes only with the listener's acceptance.
LEMMA CompletesAccepted ==
  ASSUME TypeOK, Alternation, state["dialer"] \in {"AwaitProtocol", "Expecting"},
         Waiting, Readable("dialer"), Next1("dialer") = Proposal(Current)
  PROVE  Accepted(Current) /\ (Lockstep(Current) \/ Pipelined(Current))
<1>1. wire["listener"] # <<>> /\ Head(wire["listener"]) = Proposal(Current)
  BY Peers DEF Readable, Next1
<1>2. Lockstep(Current) \/ Pipelined(Current)
  BY DEF Alternation, Waiting
<1>3. Head(<<NA>>) = NA
  BY Pipes, Tokens
<1> QED
  BY <1>1, <1>2, <1>3, ReplyKinds DEF Lockstep, Pipelined, ListenerLost, ListenerIdle, Deciding

LEMMA AnswerCompletes ==
  ASSUME TypeOK, Alternation, NoDataYet, BehindAnswer, Waiting,
         state["dialer"] \in {"AwaitProtocol", "Expecting"},
         Readable("dialer"), Consume("dialer"), Next1("dialer") = Proposal(Current),
         state'["dialer"] = "Completed", buf'["listener"] = buf["listener"],
         wrote' = wrote, read' = read
  PROVE  BehindAnswer'
<1>1. buf["listener"] = <<>> /\ Tail(wire["listener"]) = wrote["listener"]
  BY CompletesAccepted DEF BehindAnswer
<1>2. wire'["listener"] = Tail(wire["listener"])
  BY Peers DEF Consume, TypeOK
<1>3. read["dialer"] = <<>>
  BY DEF NoDataYet
<1>4. <<>> \o wrote["listener"] = wrote["listener"]
  BY ConcatEmptySeq DEF TypeOK
<1> QED  BY <1>1, <1>2, <1>3, <1>4 DEF BehindAnswer, Waiting

LEMMA AnswerDialer ==
  ASSUME TypeOK, Alternation, NoDataYet, BehindAnswer,
         \/ DialerStep \/ ExpectingFlush \/ PollNegotiated \/ PollNegotiatedFails
         \/ AppWrite("dialer") \/ AppRead("dialer")
         \/ AppClose("dialer") \/ AppDrop("dialer")
  PROVE  BehindAnswer'
<1>0. /\ state'["listener"] = state["listener"] /\ buf'["listener"] = buf["listener"]
      /\ answer' = answer /\ offered' = offered /\ Listening' = Listening
  BY DialerFrame
<1>1. CASE DialerInitial
  BY <1>1, AnswerDone DEF DialerInitial, TakeNext, Fail, Goto, TypeOK
<1>2. CASE DialerSend
  <2>1. wire["listener"] = <<>>
    BY <1>2 DEF DialerSend, Alternation, Quiet, ListenerLost, ListenerIdle
  <2>2. wire'["listener"] = <<>> /\ state'["dialer"] # "Completed"
    BY <1>2, <2>1 DEF DialerSend, StartSend, Fail, Goto, TypeOK
  <2> QED  BY <2>2 DEF BehindAnswer, Accepted
<1>3. CASE DialerFlush
  <2>1. CASE Fail("dialer")
    BY <2>1, AnswerDone DEF Fail, Goto, TypeOK
  <2>2. CASE ~Fail("dialer")
    BY <1>0, <1>3, <2>2, AnswerUnread
       DEF DialerFlush, WriteOut, Goto, Waiting, TypeOK, transport, history, Current
  <2> QED  BY <2>1, <2>2
<1>4. CASE DialerAwaitMessage
  <2>1. CASE Next1("dialer") = Proposal(Current) /\ Goto("dialer", "Completed")
    <3>1. state'["dialer"] = "Completed"
      BY <2>1 DEF Goto, TypeOK
    <3> QED  BY <1>0, <1>4, <2>1, <3>1, AnswerCompletes
             DEF DialerAwaitMessage, Waiting, history
  <2>2. CASE TakeNext \/ Fail("dialer") \/ Goto("dialer", "Initial")
    BY <2>2, AnswerDone DEF TakeNext, Fail, Goto, TypeOK
  <2> QED  BY <1>4, <2>1, <2>2 DEF DialerAwaitMessage
<1>5. CASE DialerAwaitFails
  BY <1>5, AnswerDone DEF DialerAwaitFails, Fail, Goto, TypeOK
<1>6. CASE ExpectingFlush
  BY <1>0, <1>6, AnswerUnread
     DEF ExpectingFlush, WriteOut, Waiting, TypeOK, history, Current
<1>7. CASE PollNegotiated
  <2>1. CASE Goto("dialer", "Invalid")
    BY <2>1, AnswerDone DEF Goto, TypeOK
  <2>2. CASE Readable("dialer") /\ Consume("dialer") /\ Goto("dialer", "Completed")
             /\ Next1("dialer") = Proposal(Current)
    <3>1. state'["dialer"] = "Completed"
      BY <2>2 DEF Goto, TypeOK
    <3> QED  BY <1>0, <1>7, <2>2, <3>1, AnswerCompletes
             DEF PollNegotiated, Waiting, history
  <2> QED  BY <1>7, <2>1, <2>2 DEF PollNegotiated
<1>8. CASE PollNegotiatedFails
  BY <1>8, AnswerDone DEF PollNegotiatedFails, Goto, TypeOK
<1>9. CASE AppWrite("dialer") \/ AppClose("dialer")
  BY <1>0, <1>9, AnswerUnread
     DEF AppWrite, AppClose, Waiting, TypeOK, history, setup, Current
<1>10. CASE AppDrop("dialer")
  BY <1>0, <1>10, AnswerUnread
     DEF AppDrop, Drop, Waiting, TypeOK, history, setup, Current
<1>11. CASE AppRead("dialer")
  <2> DEFINE w == wire["listener"]
             r == read["dialer"]
  <2>1. w \in Seq(Token) /\ w # <<>> /\ r \in Seq(Token)
        /\ wire'["listener"] = Tail(w) /\ read'["dialer"] = Append(r, Head(w))
    BY <1>11, Peers DEF TypeOK, AppRead, Readable, Consume, Next1
  <2>2. Append(r, Head(w)) \o Tail(w) = r \o w
    BY <2>1, Joins, HeadTailProperties
  <2>3. state["dialer"] = "Completed" /\ state' = state /\ wrote' = wrote
    BY <1>11 DEF AppRead
  <2> QED  BY <1>0, <2>1, <2>2, <2>3 DEF BehindAnswer, Waiting
<1> QED
  BY <1>1, <1>2, <1>3, <1>4, <1>5, <1>6, <1>7, <1>8, <1>9, <1>10, <1>11 DEF DialerStep

LEMMA AnswerStep ==
  ASSUME TypeOK, Alternation, NoDataYet, BehindAnswer, [Next]_vars
  PROVE  BehindAnswer'
<1>1. CASE UseInvalid
  BY <1>1, AnswerDone DEF UseInvalid
<1>2. CASE UNCHANGED vars
  BY <1>2, AnswerUnread DEF vars, Waiting, Current, Listening
<1> QED  BY <1>1, <1>2, NextCases, AnswerDialer, AnswerListener

-----------------------------------------------------------------------------
(* From the dialer to the listener. *)

LEMMA CurrentSupported ==
  ASSUME Current \in Listening
  PROVE  /\ Current \in Name /\ Reply(Current) = Proposal(Current)
         /\ Proposal(Current) \in Token /\ Proposal(Current) \in Message
         /\ Proposal(Current) # NA
<1>1. Current \in Name
  BY NamesAssumption DEF Listening
<1> QED  BY <1>1, ReplyKinds, Tokens

\* The listener reads the proposal and takes what follows for data.
LEMMA ProposalListener ==
  ASSUME TypeOK, NoDataYet, BehindProposal, ListenerAct
  PROVE  BehindProposal'
<1> SUFFICES ASSUME (state["dialer"] \in {"Expecting", "Completed"})',
                    (Current \in Listening)', (state["listener"] # "Done")'
             PROVE  (Unsent \/ Underway \/ Arrived)'
  BY DEF BehindProposal
<1>1. /\ state'["dialer"] = state["dialer"] /\ gone'["dialer"] = gone["dialer"]
      /\ buf'["dialer"] = buf["dialer"] /\ Current' = Current /\ Listening' = Listening
      /\ Proposal(Current)' = Proposal(Current)
  BY ListenerFrame DEF Current, Listening, Proposal
<1>2. state["listener"] # "Done"
  BY DEF ListenerAct, ListenerStep, ListenerRecvFrame, ListenerRecvData,
     ListenerRecvFails, ListenerSend, ListenerFlush, ListenerApp, AppWrite,
     AppRead, AppClose, AppDrop, Usable
<1>3. Unsent \/ Underway \/ Arrived
  BY <1>1, <1>2 DEF BehindProposal
<1>4. Current \in Listening /\ Proposal(Current) # NA /\ Proposal(Current) \in Message
      /\ Reply(Current) = Proposal(Current)
  BY <1>1, CurrentSupported
<1>5. CASE Unsent \/ Underway
  <2>1. state["listener"] \in {"RecvMessage", "Flush"} /\ answer = NA /\ ~misframed
    BY <1>5 DEF Unsent, Underway
  <2>2. ASSUME UNCHANGED <<answer, misframed>>, wire'["dialer"] = wire["dialer"],
               wrote'["dialer"] = wrote["dialer"],
               state'["listener"] \in {"RecvMessage", "Flush"}
        PROVE  (Unsent \/ Underway)'
    BY <1>1, <1>5, <2>2 DEF Unsent, Underway
  <2>3. CASE ListenerFlush
    <3>1. CASE Fail("listener")
      BY <3>1 DEF Fail, Goto, TypeOK
    <3>2. CASE ~Fail("listener")
      BY <2>1, <2>2, <2>3, <3>2 DEF ListenerFlush, WriteOut, Goto, TypeOK, transport, history
    <3> QED  BY <3>1, <3>2
  <2>4. CASE ListenerRecvFails
    BY <2>4 DEF ListenerRecvFails, Fail, Goto, TypeOK
  <2>5. CASE ListenerRecvFrame \/ ListenerRecvData
    <3>1. wire["dialer"] # <<>> /\ Next1("listener") = Head(wire["dialer"])
          /\ wire'["dialer"] = Tail(wire["dialer"]) /\ wrote' = wrote /\ read' = read
          /\ state["listener"] = "RecvMessage"
      BY <2>5, Peers DEF ListenerRecvFrame, ListenerRecvData, Readable, Consume, Next1,
         TypeOK, history
    <3>2. Next1("listener") = Proposal(Current) /\ Tail(wire["dialer"]) = wrote["dialer"]
          /\ buf["dialer"] = <<>>
      BY <1>5, <3>1 DEF Unsent, Underway
    <3>3. ~ListenerRecvData
      BY <1>4, <2>1, <3>2 DEF ListenerRecvData
    <3>4. PICK p \in Name : Proposal(Current) = Proposal(p) /\ answer' = Reply(p)
                            /\ Goto("listener", "SendMessage")
      BY <1>4, <2>5, <3>2, <3>3 DEF ListenerRecvFrame
    <3>5. answer' = Proposal(Current) /\ state'["listener"] = "SendMessage"
      BY <1>4, <3>4, Kinds DEF Goto, TypeOK
    <3>6. read["listener"] = <<>> /\ <<>> \o wrote["dialer"] = wrote["dialer"]
      BY <3>1, ConcatEmptySeq DEF NoDataYet, TypeOK
    <3> QED  BY <1>1, <3>1, <3>2, <3>5, <3>6 DEF Arrived
  <2>6. ~ListenerSend /\ ~ListenerApp
    BY <2>1 DEF ListenerSend, ListenerApp, AppWrite, AppRead, AppClose, AppDrop, Usable
  <2> QED  BY <2>3, <2>4, <2>5, <2>6 DEF ListenerAct, ListenerStep
<1>6. CASE Arrived
  <2> USE <1>6 DEF Arrived
  <2>1. CASE ListenerSend
    BY <1>1, <2>1 DEF ListenerSend, StartSend, Goto, TypeOK, history
  <2>2. CASE ListenerFlush
    <3>1. CASE Fail("listener")
      BY <3>1 DEF Fail, Goto, TypeOK
    <3>2. CASE ~Fail("listener")
      BY <1>1, <1>4, <2>2, <3>2
         DEF ListenerFlush, WriteOut, Goto, TypeOK, transport, history
    <3> QED  BY <3>1, <3>2
  <2>3. CASE AppWrite("listener")
    BY <1>1, <2>3 DEF AppWrite, TypeOK
  <2>4. CASE AppRead("listener")
    <3> DEFINE w == wire["dialer"]
               r == read["listener"]
    <3>1. w \in Seq(Token) /\ w # <<>> /\ r \in Seq(Token)
          /\ wire'["dialer"] = Tail(w) /\ read'["listener"] = Append(r, Head(w))
      BY <2>4, Peers DEF TypeOK, AppRead, Readable, Consume, Next1
    <3>2. Append(r, Head(w)) \o Tail(w) = r \o w
      BY <3>1, Joins, HeadTailProperties
    <3>3. state' = state /\ wrote' = wrote /\ answer' = answer
      BY <2>4 DEF AppRead
    <3> QED  BY <1>1, <3>1, <3>2, <3>3
  <2>5. CASE AppClose("listener") \/ AppDrop("listener")
    BY <1>1, <2>5 DEF AppClose, AppDrop, history
  <2>6. ~ListenerRecvFrame /\ ~ListenerRecvData /\ ~ListenerRecvFails
    BY DEF ListenerRecvFrame, ListenerRecvData, ListenerRecvFails
  <2> QED  BY <2>1, <2>2, <2>3, <2>4, <2>5, <2>6 DEF ListenerAct, ListenerStep, ListenerApp
<1> QED  BY <1>3, <1>5, <1>6

LEMMA ProposalUnread ==
  ASSUME BehindProposal, Current' = Current, Listening' = Listening, answer' = answer,
         misframed' = misframed, state'["listener"] = state["listener"],
         buf'["dialer"] = buf["dialer"] \/ (buf'["dialer"] = <<>> /\ gone'["dialer"]),
         wire'["dialer"] = wire["dialer"], wrote'["dialer"] = wrote["dialer"],
         read'["listener"] = read["listener"], gone["dialer"] => gone'["dialer"],
         state'["dialer"] \in {"Expecting", "Completed"} =>
           state["dialer"] \in {"Expecting", "Completed"}
  PROVE  BehindProposal'
<1>1. Proposal(Current)' = Proposal(Current)
  BY DEF Proposal
<1>2. Unsent => Unsent'
  BY <1>1 DEF Unsent
<1>3. Underway => Underway'
  BY <1>1 DEF Underway
<1>4. Arrived => Arrived'
  BY <1>1 DEF Arrived
<1> QED  BY <1>2, <1>3, <1>4 DEF BehindProposal

LEMMA ProposalDone ==
  ASSUME state'["dialer"] \notin {"Expecting", "Completed"}
  PROVE  BehindProposal'
BY DEF BehindProposal

LEMMA ProposalDialer ==
  ASSUME TypeOK, Alternation, NoDataYet, BehindProposal,
         \/ DialerStep \/ ExpectingFlush \/ PollNegotiated \/ PollNegotiatedFails
         \/ AppWrite("dialer") \/ AppRead("dialer")
         \/ AppClose("dialer") \/ AppDrop("dialer")
  PROVE  BehindProposal'
<1>0. /\ state'["listener"] = state["listener"] /\ answer' = answer
      /\ misframed' = misframed /\ offered' = offered /\ Listening' = Listening
  BY DialerFrame
<1>1. CASE DialerInitial
  BY <1>1, ProposalDone DEF DialerInitial, TakeNext, Fail, Goto, TypeOK
<1>2. CASE DialerSend
  <2>1. CASE Fail("dialer")
    BY <2>1, ProposalDone DEF Fail, Goto, TypeOK
  <2>2. CASE ~Fail("dialer")
    <3>1. /\ Quiet /\ wrote["dialer"] = <<>>
      BY <1>2 DEF DialerSend, Alternation, NoDataYet, Preparing
    <3>2. /\ Current' = Current /\ wrote' = wrote /\ wire' = wire
          /\ Proposal(Current)' = Proposal(Current)
          /\ buf'["dialer"] = Append(buf["dialer"], Proposal(Current))
      BY <1>2, <2>2 DEF DialerSend, StartSend, TypeOK, setup, history, Current, Proposal
    <3>3. ListenerLost => state'["listener"] = "Done"
      BY <1>0 DEF ListenerLost
    <3>4. ASSUME ListenerIdle, wire["dialer"] = <<>>, buf["dialer"] = <<>>,
                 Current \in Listening
          PROVE  Unsent'
      <4>1. buf'["dialer"] = <<Proposal(Current)>>
        BY <3>2, <3>4, CurrentSupported, Pipes
      <4> QED  BY <1>0, <3>1, <3>2, <3>4, <4>1 DEF Unsent, ListenerIdle
    <3> QED  BY <1>0, <3>1, <3>2, <3>3, <3>4 DEF BehindProposal, Quiet
  <2> QED  BY <2>1, <2>2
<1>3. CASE DialerFlush
  BY <1>3, ProposalDone DEF DialerFlush, Fail, Goto, TypeOK
<1>4. CASE DialerAwaitMessage
  <2>1. CASE Next1("dialer") = Proposal(Current) /\ Goto("dialer", "Completed")
             /\ UNCHANGED taken
    <3>1. Accepted(Current) /\ Lockstep(Current)
      BY <1>4, <2>1, CompletesAccepted DEF DialerAwaitMessage, Waiting, Alternation
    <3>2. wire["dialer"] = <<>> /\ buf["dialer"] = <<>> /\ answer = Proposal(Current)
          /\ state["listener"] \in {"Flush", "Completed", "Done"}
      BY <3>1 DEF Accepted, Lockstep, ListenerLost, ListenerIdle, Deciding
    <3>3. wrote["dialer"] = <<>> /\ read["listener"] = <<>>
      BY <1>4 DEF DialerAwaitMessage, NoDataYet, Preparing
    <3>4. /\ wrote' = wrote /\ read' = read /\ wire'["dialer"] = wire["dialer"]
          /\ buf' = buf /\ Current' = Current /\ Proposal(Current)' = Proposal(Current)
      <4>1. Proposal(Current) # NA /\ Proposal(Current) \in Message
        BY <3>1, CurrentSupported DEF Accepted
      <4>2. buf' = buf
        BY <1>4, <2>1, <4>1 DEF DialerAwaitMessage
      <4> QED  BY <1>4, <2>1, <4>2, Peers
               DEF DialerAwaitMessage, Consume, TypeOK, setup, history, Current, Proposal
    <3>5. <<>> = <<>> \o <<>>
      BY ConcatEmptySeq
    <3> QED  BY <1>0, <3>2, <3>3, <3>4, <3>5 DEF BehindProposal, Arrived
  <2>2. CASE TakeNext \/ Fail("dialer") \/ Goto("dialer", "Initial")
    BY <2>2, ProposalDone DEF TakeNext, Fail, Goto, TypeOK
  <2> QED  BY <1>4, <2>1, <2>2 DEF DialerAwaitMessage
<1>5. CASE DialerAwaitFails
  BY <1>5, ProposalDone DEF DialerAwaitFails, Fail, Goto, TypeOK
<1>6. CASE ExpectingFlush
  <2>1. /\ buf["dialer"] # <<>> /\ ~gone["dialer"] /\ state["dialer"] = "Expecting"
        /\ state' = state /\ wrote' = wrote /\ gone' = gone /\ Current' = Current
        /\ Proposal(Current)' = Proposal(Current)
    BY <1>6 DEF ExpectingFlush, WriteOut, history, setup, Current, Proposal
  <2>2. ASSUME Current \in Listening, Unsent
        PROVE  Underway'
    <3>1. Current \in Name /\ wire["dialer"] = <<>> /\ buf["dialer"] = <<Proposal(Current)>>
      BY <2>1, <2>2, CurrentSupported DEF Unsent
    <3>2. wire'["dialer"] = <<Proposal(Current)>> /\ buf'["dialer"] = <<>>
      BY <1>6, <3>1, WriteOutProposal DEF ExpectingFlush
    <3>3. /\ <<Proposal(Current)>> # <<>> /\ Tail(<<Proposal(Current)>>) = <<>>
          /\ Head(<<Proposal(Current)>>) = Proposal(Current)
      BY <2>2, CurrentSupported, Pipes
    <3> QED  BY <1>0, <2>1, <2>2, <3>2, <3>3 DEF Unsent, Underway
  <2> QED  BY <1>0, <2>1, <2>2 DEF BehindProposal, Underway, Arrived
<1>7. CASE PollNegotiated \/ PollNegotiatedFails
  <2>1. CASE Goto("dialer", "Invalid")
    BY <2>1, ProposalDone DEF Goto, TypeOK
  <2>2. CASE ~Goto("dialer", "Invalid")
    BY <1>0, <1>7, <2>2, ProposalUnread, Peers
       DEF PollNegotiated, PollNegotiatedFails, Consume, TypeOK, setup, history, Current
  <2> QED  BY <2>1, <2>2
<1>8. CASE AppWrite("dialer")
  <2>1. PICK t \in Token : /\ wire' = [wire EXCEPT !["dialer"] = Append(@, t)]
                           /\ wrote' = [wrote EXCEPT !["dialer"] = Append(@, t)]
    BY <1>8, WrittenToken DEF AppWrite
  <2>2. /\ wire'["dialer"] = Append(wire["dialer"], t)
        /\ wrote'["dialer"] = Append(wrote["dialer"], t)
        /\ wire["dialer"] \in Seq(Token) /\ read["listener"] \in Seq(Token)
    BY <2>1 DEF TypeOK
  <2>3. /\ buf["dialer"] = <<>> /\ buf' = buf /\ ~gone["dialer"] /\ state' = state
        /\ read' = read /\ Current' = Current /\ Proposal(Current)' = Proposal(Current)
    BY <1>8 DEF AppWrite, Usable, setup, Current, Proposal
  <2>4. ASSUME Current \in Listening
        PROVE  ~Unsent
    <3>1. <<Proposal(Current)>> # <<>>
      BY <2>4, CurrentSupported, Pipes
    <3> QED  BY <2>3, <3>1 DEF Unsent
  <2>5. ASSUME Underway
        PROVE  Underway'
    <3>1. /\ Append(wire["dialer"], t) # <<>>
          /\ Head(Append(wire["dialer"], t)) = Head(wire["dialer"])
          /\ Tail(Append(wire["dialer"], t)) = Append(Tail(wire["dialer"]), t)
      BY <2>2, <2>5, Behind DEF Underway
    <3> QED  BY <1>0, <2>2, <2>3, <2>5, <3>1 DEF Underway
  <2>6. ASSUME Arrived
        PROVE  Arrived'
    <3>1. read["listener"] \o Append(wire["dialer"], t)
            = Append(read["listener"] \o wire["dialer"], t)
      BY <2>2, Joins
    <3> QED  BY <1>0, <2>2, <2>3, <2>6, <3>1 DEF Arrived
  <2> QED  BY <1>0, <2>3, <2>4, <2>5, <2>6 DEF BehindProposal
<1>9. CASE AppRead("dialer")
  BY <1>0, <1>9, ProposalUnread, Peers DEF AppRead, Consume, TypeOK, setup, Current
<1>10. CASE AppClose("dialer")
  BY <1>0, <1>10, ProposalUnread DEF AppClose, setup, history, Current
<1>11. CASE AppDrop("dialer")
  BY <1>0, <1>11, ProposalUnread DEF AppDrop, Drop, TypeOK, setup, history, Current
<1> QED
  BY <1>1, <1>2, <1>3, <1>4, <1>5, <1>6, <1>7, <1>8, <1>9, <1>10, <1>11 DEF DialerStep

LEMMA ProposalStep ==
  ASSUME TypeOK, Alternation, NoDataYet, BehindProposal, [Next]_vars
  PROVE  BehindProposal'
<1>1. CASE UseInvalid
  BY <1>1, ProposalDone DEF UseInvalid
<1>2. CASE UNCHANGED vars
  BY <1>2, ProposalUnread DEF vars, Current, Listening
<1> QED  BY <1>1, <1>2, NextCases, ProposalDialer, ProposalListener

-----------------------------------------------------------------------------

DataInOrder == AnswerSupported /\ NoDataYet /\ BehindAnswer /\ BehindProposal

LEMMA DataInit == Init => DataInOrder
BY DEF Init, DataInOrder, AnswerSupported, NoDataYet, BehindAnswer, BehindProposal,
       Waiting, Preparing

\* Neither a read buffer of the negotiation nor the write buffer that holds the
\* last proposal loses, repeats or reorders what the applications write, for
\* any capacity of the transport and however early they write it.
THEOREM TransparencyHolds == Spec => []Transparency
<1>1. DataInOrder => Transparency
  <2> SUFFICES ASSUME DataInOrder PROVE Transparency
    OBVIOUS
  <2>1. ASSUME state["listener"] = "Completed",
               state["dialer"] \in {"Expecting", "Completed"}, answer = Proposal(Current)
        PROVE  wrote["dialer"] = read["listener"] \o wire["dialer"]
    <3>1. Current \in Listening
      BY <2>1, Kinds DEF DataInOrder, AnswerSupported
    <3> QED  BY <2>1, <3>1 DEF DataInOrder, BehindProposal, Unsent, Underway, Arrived
  <2> QED  BY <2>1 DEF DataInOrder, BehindAnswer, Transparency
<1>2. TypeOK /\ Alternation /\ DataInOrder /\ [Next]_vars => DataInOrder'
  BY SupportedStep, NoDataStep, AnswerStep, ProposalStep DEF DataInOrder
<1> QED  BY DataInit, <1>1, <1>2, TypeCorrect, AlternationHolds, PTL DEF Spec
=============================================================================
