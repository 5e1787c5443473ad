------------------------------ MODULE MuxerProofs ------------------------------
(***************************************************************************)
(* Proofs about Muxer for every size of the buffer and the channel and     *)
(* every number of streams: order, wake-ups, and when the channel of the   *)
(* echo server overflows.                                                  *)
(***************************************************************************)
EXTENDS Muxer, Integers, TLAPS

-----------------------------------------------------------------------------
(* Facts about sequences. *)

LEMMA AppendFacts ==
  ASSUME NEW S, NEW q \in Seq(S), NEW x \in S
  PROVE  /\ Append(q, x) \in Seq(S) /\ Len(Append(q, x)) = Len(q) + 1 /\ Len(q) \in Nat
         /\ \A i \in 1..Len(q) : Append(q, x)[i] = q[i]
         /\ Append(q, x)[Len(q) + 1] = x
OBVIOUS

LEMMA HeadTail ==
  ASSUME NEW S, NEW q \in Seq(S), q # <<>>
  PROVE  /\ Head(q) \in S /\ Head(q) = q[1]
         /\ Tail(q) \in Seq(S) /\ Len(Tail(q)) = Len(q) - 1 /\ Len(q) \in Nat \ {0}
         /\ \A i \in 1..Len(Tail(q)) : Tail(q)[i] = q[i + 1]
OBVIOUS

LEMMA ConcatFacts ==
  ASSUME NEW S, NEW q \in Seq(S), NEW r \in Seq(S)
  PROVE  /\ q \o r \in Seq(S) /\ Len(q \o r) = Len(q) + Len(r)
         /\ \A i \in 1..(Len(q) + Len(r)) :
              (q \o r)[i] = IF i <= Len(q) THEN q[i] ELSE r[i - Len(q)]
OBVIOUS

-----------------------------------------------------------------------------
(* The inductive invariant. *)

\* An acceptor that sleeps has left its waker, and the buffer is empty.
Parked ==
    "acceptor" \notin woken \cup ended /\ ~busy
        => inboundWaker = "acceptor" /\ buffer = <<>>

\* No more streams are on their way than have been opened, and those that were
\* dropped had been opened.
Counted == Len(Pipeline) <= arrived /\ dropped \subseteq 1..arrived

\* A stream that is being served has been taken, and the peak is up to date.
Tallied ==
    /\ server = "serving" => taken >= 1
    /\ OneTask => Open <= peak

IInv ==
    TypeOK /\ Parked /\ Counted /\ Tallied /\ StreamsInOrder /\ FullOnlyIfCrowded

-----------------------------------------------------------------------------
(* The channel. *)

LEMMA ChannelLength ==
  ASSUME TypeOK PROVE Len(Channel) = Len(accepted) - taken /\ taken \in Nat
<1>1. accepted \in Seq(Streams) /\ taken \in 0..Len(accepted) /\ Len(accepted) \in Nat
  BY DEF TypeOK
<1>2. Len(SubSeq(accepted, taken + 1, Len(accepted))) = Len(accepted) - taken
  BY <1>1
<1> QED  BY <1>1, <1>2 DEF Channel

LEMMA EmptyChannel ==
  ASSUME TypeOK, Channel # <<>> PROVE taken < Len(accepted)
<1>1. Len(Channel) = Len(accepted) - taken /\ taken \in Nat /\ taken <= Len(accepted)
      /\ Len(accepted) \in Nat
  BY ChannelLength DEF TypeOK
<1>2. accepted \in Seq(Streams) /\ Channel \in Seq(Streams)
  BY <1>1 DEF TypeOK, Channel
<1>3. Len(Channel) # 0
  BY <1>2
<1> QED  BY <1>1, <1>3

-----------------------------------------------------------------------------
(* Order: what the steps do to the streams on their way. *)

Sorted(p) == \A i, j \in 1..Len(p) : i < j => p[i] < p[j]
Elements(p) == {p[i] : i \in 1..Len(p)}

\* The elements of the pipeline, from its three parts.
LEMMA PipelineAt ==
  ASSUME NEW S, NEW a \in Seq(S), NEW b \in Seq(S), NEW c \in Seq(S)
  PROVE  /\ a \o b \o c \in Seq(S)
         /\ Len(a \o b \o c) = Len(a) + Len(b) + Len(c)
         /\ \A i \in 1..(Len(a) + Len(b) + Len(c)) :
              (a \o b \o c)[i] = IF i <= Len(a) THEN a[i]
                                 ELSE IF i <= Len(a) + Len(b) THEN b[i - Len(a)]
                                 ELSE c[i - Len(a) - Len(b)]
<1> DEFINE d == a \o b
<1>1. /\ d \in Seq(S) /\ Len(d) = Len(a) + Len(b)
      /\ \A i \in 1..(Len(a) + Len(b)) : d[i] = IF i <= Len(a) THEN a[i] ELSE b[i - Len(a)]
  BY ConcatFacts
<1>2. Len(a) \in Nat /\ Len(b) \in Nat /\ Len(c) \in Nat
  OBVIOUS
<1>a. d \in Seq(S)
  BY <1>1
<1> HIDE DEF d
<1>3. /\ d \o c \in Seq(S) /\ Len(d \o c) = Len(d) + Len(c)
      /\ \A i \in 1..(Len(d) + Len(c)) :
           (d \o c)[i] = IF i <= Len(d) THEN d[i] ELSE c[i - Len(d)]
  BY ONLY <1>a, c \in Seq(S), ConcatFacts
<1>4. /\ d \o c \in Seq(S)
      /\ Len(d \o c) = Len(a) + Len(b) + Len(c)
      /\ \A i \in 1..(Len(a) + Len(b) + Len(c)) :
              (d \o c)[i] = IF i <= Len(a) THEN a[i]
                                 ELSE IF i <= Len(a) + Len(b) THEN b[i - Len(a)]
                                 ELSE c[i - Len(a) - Len(b)]
  <2>1. Len(d) = Len(a) + Len(b)
    BY <1>1
  <2>2. Len(d \o c) = Len(a) + Len(b) + Len(c)
    BY <2>1, <1>3
  <2>3. ASSUME NEW i \in 1..(Len(a) + Len(b) + Len(c))
        PROVE  (d \o c)[i] = IF i <= Len(a) THEN a[i]
                                 ELSE IF i <= Len(a) + Len(b) THEN b[i - Len(a)]
                                 ELSE c[i - Len(a) - Len(b)]
    <3>1. i \in Nat /\ (d \o c)[i] = IF i <= Len(d) THEN d[i] ELSE c[i - Len(d)]
      BY <2>1, <2>3, <1>2, <1>3
    <3>2. CASE i <= Len(d)
      <4>1. i \in 1..(Len(a) + Len(b))
        BY <2>1, <2>3, <3>1, <3>2, <1>2
      <4>2. d[i] = IF i <= Len(a) THEN a[i] ELSE b[i - Len(a)]
        BY <4>1, <1>1
      <4> QED  BY <2>1, <3>1, <3>2, <4>2
    <3>3. CASE ~(i <= Len(d))
      <4>1. ~(i <= Len(a)) /\ ~(i <= Len(a) + Len(b))
            /\ i - Len(d) = i - Len(a) - Len(b)
        BY <2>1, <3>1, <3>3, <1>2
      <4> QED  BY <3>1, <3>3, <4>1
    <3> QED  BY <3>2, <3>3
  <2> QED  BY <1>3, <2>2, <2>3
<1> QED  BY <1>4 DEF d

\* Two sequences with the same elements in the same places.
Alike(p, q) == Len(p) = Len(q) /\ \A i \in 1..Len(p) : p[i] = q[i]

\* q is p without its k-th element.
Without(p, q, k) ==
    /\ k \in 1..Len(p) /\ Len(q) = Len(p) - 1
    /\ \A i \in 1..Len(q) : q[i] = IF i < k THEN p[i] ELSE p[i + 1]

LEMMA MoveBuffered ==
  ASSUME NEW S, NEW a \in Seq(S), NEW b \in Seq(S), NEW c \in Seq(S), b # <<>>
  PROVE  Alike(a \o b \o c, Append(a, Head(b)) \o Tail(b) \o c)
<1> DEFINE e == Append(a, Head(b))
           t == Tail(b)
<1>1. /\ Head(b) \in S /\ Head(b) = b[1] /\ t \in Seq(S) /\ Len(t) = Len(b) - 1
      /\ Len(b) \in Nat \ {0} /\ \A i \in 1..Len(t) : t[i] = b[i + 1]
  BY HeadTail
<1>2. /\ e \in Seq(S) /\ Len(e) = Len(a) + 1 /\ Len(a) \in Nat
      /\ \A i \in 1..Len(a) : e[i] = a[i]
      /\ e[Len(a) + 1] = b[1]
  BY <1>1, AppendFacts
<1>3. Len(c) \in Nat
  OBVIOUS
<1>t. e \in Seq(S) /\ t \in Seq(S)
  BY <1>1, <1>2
<1> HIDE DEF e, t
<1>4. /\ Len(e \o t \o c) = Len(e) + Len(t) + Len(c)
      /\ \A i \in 1..(Len(e) + Len(t) + Len(c)) :
              (e \o t \o c)[i] = IF i <= Len(e) THEN e[i]
                                 ELSE IF i <= Len(e) + Len(t) THEN t[i - Len(e)]
                                 ELSE c[i - Len(e) - Len(t)]
  BY ONLY <1>t, c \in Seq(S), PipelineAt
<1>5. /\ Len(a \o b \o c) = Len(a) + Len(b) + Len(c)
      /\ \A i \in 1..(Len(a) + Len(b) + Len(c)) :
              (a \o b \o c)[i] = IF i <= Len(a) THEN a[i]
                                 ELSE IF i <= Len(a) + Len(b) THEN b[i - Len(a)]
                                 ELSE c[i - Len(a) - Len(b)]
  BY PipelineAt
<1>6. Len(e \o t \o c) = Len(a \o b \o c)
  BY <1>1, <1>2, <1>3, <1>4, <1>5
<1>7. ASSUME NEW i \in 1..Len(a \o b \o c) PROVE (a \o b \o c)[i] = (e \o t \o c)[i]
  <2>1. CASE i <= Len(a)
    BY <2>1, <1>1, <1>2, <1>3, <1>4, <1>5
  <2>2. CASE i = Len(a) + 1
    BY <2>2, <1>1, <1>2, <1>3, <1>4, <1>5
  <2>3. CASE i > Len(a) + 1 /\ i <= Len(a) + Len(b)
    <3>1. i - Len(e) \in 1..Len(t) /\ i - Len(e) + 1 = i - Len(a)
      BY <2>3, <1>1, <1>2
    <3>2. (e \o t \o c)[i] = t[i - Len(e)] /\ (a \o b \o c)[i] = b[i - Len(a)]
      BY <2>3, <1>1, <1>2, <1>3, <1>4, <1>5
    <3> QED  BY <3>1, <3>2, <1>1
  <2>4. CASE i > Len(a) + Len(b)
    <3>1. (e \o t \o c)[i] = c[i - Len(e) - Len(t)] /\ (a \o b \o c)[i] = c[i - Len(a) - Len(b)]
      BY <2>4, <1>1, <1>2, <1>3, <1>4, <1>5
    <3>2. i - Len(e) - Len(t) = i - Len(a) - Len(b)
      BY <1>1, <1>2
    <3> QED  BY <3>1, <3>2
  <2>5. i \in Nat /\ Len(a) \in Nat /\ Len(b) \in Nat
    BY <1>5
  <2>6. \/ i <= Len(a)
        \/ i = Len(a) + 1
        \/ i > Len(a) + 1 /\ i <= Len(a) + Len(b)
        \/ i > Len(a) + Len(b)
    BY ONLY <2>5
  <2> QED  BY <2>1, <2>2, <2>3, <2>4, <2>6
<1> QED  BY <1>6, <1>7 DEF Alike, e, t

LEMMA MoveToBuffer ==
  ASSUME NEW S, NEW a \in Seq(S), NEW b \in Seq(S), NEW c \in Seq(S), c # <<>>
  PROVE  Alike(a \o b \o c, a \o Append(b, Head(c)) \o Tail(c))
<1> DEFINE e == Append(b, Head(c))
           t == Tail(c)
<1>1. /\ Head(c) \in S /\ Head(c) = c[1] /\ t \in Seq(S) /\ Len(t) = Len(c) - 1
      /\ Len(c) \in Nat \ {0} /\ \A i \in 1..Len(t) : t[i] = c[i + 1]
  BY HeadTail
<1>2. /\ e \in Seq(S) /\ Len(e) = Len(b) + 1 /\ Len(b) \in Nat
      /\ \A i \in 1..Len(b) : e[i] = b[i]
      /\ e[Len(b) + 1] = c[1]
  BY <1>1, AppendFacts
<1>3. Len(a) \in Nat
  OBVIOUS
<1>t. e \in Seq(S) /\ t \in Seq(S)
  BY <1>1, <1>2
<1> HIDE DEF e, t
<1>4. /\ Len(a \o e \o t) = Len(a) + Len(e) + Len(t)
      /\ \A i \in 1..(Len(a) + Len(e) + Len(t)) :
              (a \o e \o t)[i] = IF i <= Len(a) THEN a[i]
                                 ELSE IF i <= Len(a) + Len(e) THEN e[i - Len(a)]
                                 ELSE t[i - Len(a) - Len(e)]
  BY ONLY <1>t, a \in Seq(S), PipelineAt
<1>5. /\ Len(a \o b \o c) = Len(a) + Len(b) + Len(c)
      /\ \A i \in 1..(Len(a) + Len(b) + Len(c)) :
              (a \o b \o c)[i] = IF i <= Len(a) THEN a[i]
                                 ELSE IF i <= Len(a) + Len(b) THEN b[i - Len(a)]
                                 ELSE c[i - Len(a) - Len(b)]
  BY PipelineAt
<1>6. Len(a \o e \o t) = Len(a \o b \o c)
  BY <1>1, <1>2, <1>3, <1>4, <1>5
<1>7. ASSUME NEW i \in 1..Len(a \o b \o c) PROVE (a \o b \o c)[i] = (a \o e \o t)[i]
  <2>1. CASE i <= Len(a)
    BY <2>1, <1>1, <1>2, <1>3, <1>4, <1>5
  <2>2. CASE i > Len(a) /\ i <= Len(a) + Len(b)
    <3>1. (a \o e \o t)[i] = e[i - Len(a)] /\ (a \o b \o c)[i] = b[i - Len(a)]
      BY <2>2, <1>1, <1>2, <1>3, <1>4, <1>5
    <3>2. i - Len(a) \in 1..Len(b)
      BY <2>2, <1>2, <1>3
    <3> QED  BY <3>1, <3>2, <1>2
  <2>3. CASE i = Len(a) + Len(b) + 1
    <3>1. (a \o e \o t)[i] = e[i - Len(a)] /\ (a \o b \o c)[i] = c[i - Len(a) - Len(b)]
      BY <2>3, <1>1, <1>2, <1>3, <1>4, <1>5
    <3>2. i - Len(a) = Len(b) + 1 /\ i - Len(a) - Len(b) = 1
      BY <2>3, <1>2, <1>3
    <3> QED  BY <3>1, <3>2, <1>2
  <2>4. CASE i > Len(a) + Len(b) + 1
    <3>1. (a \o e \o t)[i] = t[i - Len(a) - Len(e)]
      BY <2>4, <1>1, <1>2, <1>3, <1>4, <1>5
    <3>2. (a \o b \o c)[i] = c[i - Len(a) - Len(b)]
      BY <2>4, <1>5
    <3>3. i - Len(a) - Len(e) \in 1..Len(t) /\ i - Len(a) - Len(e) + 1 = i - Len(a) - Len(b)
      BY <2>4, <1>1, <1>2, <1>3, <1>5
    <3> QED  BY <3>1, <3>2, <3>3, <1>1
  <2>5. i \in Nat /\ Len(a) \in Nat /\ Len(b) \in Nat
    BY <1>5
  <2>6. \/ i <= Len(a)
        \/ i > Len(a) /\ i <= Len(a) + Len(b)
        \/ i = Len(a) + Len(b) + 1
        \/ i > Len(a) + Len(b) + 1
    BY ONLY <2>5
  <2> QED  BY <2>1, <2>2, <2>3, <2>4, <2>6
<1> QED  BY <1>6, <1>7 DEF Alike, e, t

LEMMA MoveDirect ==
  ASSUME NEW S, NEW a \in Seq(S), NEW b \in Seq(S), NEW c \in Seq(S), b = <<>>, c # <<>>
  PROVE  Alike(a \o b \o c, Append(a, Head(c)) \o b \o Tail(c))
<1> DEFINE e == Append(b, Head(c))
<1>1. Head(c) \in S /\ Tail(c) \in Seq(S)
  BY HeadTail
<1>2. e \in Seq(S) /\ e # <<>> /\ Head(e) = Head(c) /\ Tail(e) = b
  BY <1>1
<1>3. Alike(a \o b \o c, a \o e \o Tail(c))
  BY MoveToBuffer
<1> HIDE DEF e
<1>4. Alike(a \o e \o Tail(c), Append(a, Head(e)) \o Tail(e) \o Tail(c))
  BY <1>1, <1>2, MoveBuffered
<1>5. Alike(a \o e \o Tail(c), Append(a, Head(c)) \o b \o Tail(c))
  BY ONLY <1>2, <1>4
<1> QED  BY ONLY <1>3, <1>5 DEF Alike

LEMMA DropDirect ==
  ASSUME NEW S, NEW a \in Seq(S), NEW b \in Seq(S), NEW c \in Seq(S), c # <<>>
  PROVE  /\ Without(a \o b \o c, a \o b \o Tail(c), Len(a) + Len(b) + 1)
         /\ (a \o b \o c)[Len(a) + Len(b) + 1] = Head(c)
<1> DEFINE t == Tail(c)
<1>1. /\ Head(c) = c[1] /\ t \in Seq(S) /\ Len(t) = Len(c) - 1
      /\ Len(c) \in Nat \ {0} /\ \A i \in 1..Len(t) : t[i] = c[i + 1]
  BY HeadTail
<1>2. Len(a) \in Nat /\ Len(b) \in Nat
  OBVIOUS
<1>t. t \in Seq(S)
  BY <1>1
<1> HIDE DEF t
<1>4. /\ Len(a \o b \o t) = Len(a) + Len(b) + Len(t)
      /\ \A i \in 1..(Len(a) + Len(b) + Len(t)) :
              (a \o b \o t)[i] = IF i <= Len(a) THEN a[i]
                                 ELSE IF i <= Len(a) + Len(b) THEN b[i - Len(a)]
                                 ELSE t[i - Len(a) - Len(b)]
  BY ONLY <1>t, a \in Seq(S), b \in Seq(S), PipelineAt
<1>5. /\ Len(a \o b \o c) = Len(a) + Len(b) + Len(c)
      /\ \A i \in 1..(Len(a) + Len(b) + Len(c)) :
              (a \o b \o c)[i] = IF i <= Len(a) THEN a[i]
                                 ELSE IF i <= Len(a) + Len(b) THEN b[i - Len(a)]
                                 ELSE c[i - Len(a) - Len(b)]
  BY PipelineAt
<1> DEFINE k == Len(a) + Len(b) + 1
<1>6. k \in 1..Len(a \o b \o c) /\ Len(a \o b \o t) = Len(a \o b \o c) - 1
  BY <1>1, <1>2, <1>4, <1>5
<1>7. ASSUME NEW i \in 1..Len(a \o b \o t)
      PROVE (a \o b \o t)[i] = IF i < k THEN (a \o b \o c)[i] ELSE (a \o b \o c)[i + 1]
  <2>1. CASE i < k
    BY <2>1, <1>1, <1>2, <1>4, <1>5
  <2>2. CASE i >= k
    <3>1. i - Len(a) - Len(b) \in 1..Len(t)
          /\ i + 1 - Len(a) - Len(b) = (i - Len(a) - Len(b)) + 1
      BY <2>2, <1>1, <1>2, <1>4
    <3>2. (a \o b \o t)[i] = t[i - Len(a) - Len(b)]
          /\ (a \o b \o c)[i + 1] = c[i + 1 - Len(a) - Len(b)]
      BY <2>2, <1>1, <1>2, <1>4, <1>5
    <3>3. ~(i < k)
      BY <2>2, <1>2, <1>4
    <3> QED  BY ONLY <3>1, <3>2, <3>3, <1>1
  <2> QED  BY <2>1, <2>2, <1>1, <1>2, <1>4
<1>8. (a \o b \o c)[k] = c[1]
  <2>1. (a \o b \o c)[k] = c[k - Len(a) - Len(b)] /\ k - Len(a) - Len(b) = 1
    BY <1>1, <1>2, <1>5
  <2> QED  BY <2>1
<1> QED  BY <1>1, <1>6, <1>7, <1>8 DEF Without, t

LEMMA DropBuffered ==
  ASSUME NEW S, NEW a \in Seq(S), NEW b \in Seq(S), NEW c \in Seq(S), b # <<>>
  PROVE  /\ Without(a \o b \o c, a \o Tail(b) \o c, Len(a) + 1)
         /\ (a \o b \o c)[Len(a) + 1] = Head(b)
<1> DEFINE t == Tail(b)
<1>1. /\ Head(b) = b[1] /\ t \in Seq(S) /\ Len(t) = Len(b) - 1
      /\ Len(b) \in Nat \ {0} /\ \A i \in 1..Len(t) : t[i] = b[i + 1]
  BY HeadTail
<1>2. Len(a) \in Nat /\ Len(c) \in Nat
  OBVIOUS
<1>t. t \in Seq(S)
  BY <1>1
<1> HIDE DEF t
<1>4. /\ Len(a \o t \o c) = Len(a) + Len(t) + Len(c)
      /\ \A i \in 1..(Len(a) + Len(t) + Len(c)) :
              (a \o t \o c)[i] = IF i <= Len(a) THEN a[i]
                                 ELSE IF i <= Len(a) + Len(t) THEN t[i - Len(a)]
                                 ELSE c[i - Len(a) - Len(t)]
  BY ONLY <1>t, a \in Seq(S), c \in Seq(S), PipelineAt
<1>5. /\ Len(a \o b \o c) = Len(a) + Len(b) + Len(c)
      /\ \A i \in 1..(Len(a) + Len(b) + Len(c)) :
              (a \o b \o c)[i] = IF i <= Len(a) THEN a[i]
                                 ELSE IF i <= Len(a) + Len(b) THEN b[i - Len(a)]
                                 ELSE c[i - Len(a) - Len(b)]
  BY PipelineAt
<1> DEFINE k == Len(a) + 1
<1>6. k \in 1..Len(a \o b \o c) /\ Len(a \o t \o c) = Len(a \o b \o c) - 1
  BY <1>1, <1>2, <1>4, <1>5
<1>7. ASSUME NEW i \in 1..Len(a \o t \o c)
      PROVE (a \o t \o c)[i] = IF i < k THEN (a \o b \o c)[i] ELSE (a \o b \o c)[i + 1]
  <2>1. CASE i < k
    BY <2>1, <1>1, <1>2, <1>4, <1>5
  <2>2. CASE i >= k /\ i <= Len(a) + Len(t)
    <3>1. i - Len(a) \in 1..Len(t) /\ i + 1 - Len(a) = (i - Len(a)) + 1
      BY <2>2, <1>1, <1>2, <1>4
    <3>2. (a \o t \o c)[i] = t[i - Len(a)] /\ (a \o b \o c)[i + 1] = b[i + 1 - Len(a)]
      BY <2>2, <1>1, <1>2, <1>4, <1>5
    <3>3. t[i - Len(a)] = b[(i - Len(a)) + 1]
      BY <3>1, <1>1
    <3>4. ~(i < k)
      BY <2>2, <1>2, <1>4
    <3> QED  BY <3>1, <3>2, <3>3, <3>4
  <2>3. CASE i > Len(a) + Len(t)
    <3>1. (a \o t \o c)[i] = c[i - Len(a) - Len(t)]
          /\ (a \o b \o c)[i + 1] = c[i + 1 - Len(a) - Len(b)]
      BY <2>3, <1>1, <1>2, <1>4, <1>5
    <3>2. i - Len(a) - Len(t) = i + 1 - Len(a) - Len(b) /\ ~(i < k)
      BY <2>3, <1>1, <1>2, <1>4
    <3> QED  BY <3>1, <3>2
  <2> QED  BY <2>1, <2>2, <2>3, <1>1, <1>2, <1>4
<1>8. (a \o b \o c)[k] = b[1]
  <2>1. (a \o b \o c)[k] = b[k - Len(a)] /\ k - Len(a) = 1
    BY <1>1, <1>2, <1>5
  <2> QED  BY <2>1
<1> QED  BY <1>1, <1>6, <1>7, <1>8 DEF Without, t

LEMMA Opened ==
  ASSUME NEW S, NEW a \in Seq(S), NEW b \in Seq(S), NEW c \in Seq(S), NEW x \in S
  PROVE  /\ Len(a \o b \o Append(c, x)) = Len(a \o b \o c) + 1
         /\ Len(a \o b \o c) \in Nat
         /\ \A i \in 1..Len(a \o b \o c) : (a \o b \o Append(c, x))[i] = (a \o b \o c)[i]
         /\ (a \o b \o Append(c, x))[Len(a \o b \o c) + 1] = x
<1> DEFINE t == Append(c, x)
<1>1. /\ t \in Seq(S) /\ Len(t) = Len(c) + 1 /\ Len(c) \in Nat
      /\ \A i \in 1..Len(c) : t[i] = c[i]
      /\ t[Len(c) + 1] = x
  BY AppendFacts
<1>2. Len(a) \in Nat /\ Len(b) \in Nat
  OBVIOUS
<1>t. t \in Seq(S)
  BY <1>1
<1> HIDE DEF t
<1>4. /\ Len(a \o b \o t) = Len(a) + Len(b) + Len(t)
      /\ \A i \in 1..(Len(a) + Len(b) + Len(t)) :
              (a \o b \o t)[i] = IF i <= Len(a) THEN a[i]
                                 ELSE IF i <= Len(a) + Len(b) THEN b[i - Len(a)]
                                 ELSE t[i - Len(a) - Len(b)]
  BY ONLY <1>t, a \in Seq(S), b \in Seq(S), PipelineAt
<1>5. /\ Len(a \o b \o c) = Len(a) + Len(b) + Len(c)
      /\ \A i \in 1..(Len(a) + Len(b) + Len(c)) :
              (a \o b \o c)[i] = IF i <= Len(a) THEN a[i]
                                 ELSE IF i <= Len(a) + Len(b) THEN b[i - Len(a)]
                                 ELSE c[i - Len(a) - Len(b)]
  BY PipelineAt
<1>6. Len(a \o b \o t) = Len(a \o b \o c) + 1 /\ Len(a \o b \o c) \in Nat
  BY <1>1, <1>2, <1>4, <1>5
<1>7. ASSUME NEW i \in 1..Len(a \o b \o c)
      PROVE (a \o b \o t)[i] = (a \o b \o c)[i]
  <2>1. CASE i <= Len(a) + Len(b)
    BY <2>1, <1>1, <1>2, <1>4, <1>5
  <2>2. CASE i > Len(a) + Len(b)
    <3>1. i - Len(a) - Len(b) \in 1..Len(c)
      BY <2>2, <1>1, <1>2, <1>5
    <3>2. (a \o b \o t)[i] = t[i - Len(a) - Len(b)]
          /\ (a \o b \o c)[i] = c[i - Len(a) - Len(b)]
      BY <2>2, <1>1, <1>2, <1>4, <1>5
    <3> QED  BY <3>1, <3>2, <1>1
  <2> QED  BY <2>1, <2>2, <1>1, <1>2, <1>5
<1>8. (a \o b \o t)[Len(a \o b \o c) + 1] = x
  <2> DEFINE k == Len(a) + Len(b) + Len(c) + 1
  <2>1. (a \o b \o t)[k] = t[k - Len(a) - Len(b)] /\ k - Len(a) - Len(b) = Len(c) + 1
    BY <1>1, <1>2, <1>4
  <2> QED  BY <2>1, <1>1, <1>5
<1> QED  BY <1>6, <1>7, <1>8 DEF t

InOrder(p, n, D) == Sorted(p) /\ Elements(p) = (1..n) \ D

LEMMA AlikeInOrder ==
  ASSUME NEW p \in Seq(Nat), NEW q \in Seq(Nat), NEW n \in Nat, NEW D,
         InOrder(p, n, D), Alike(p, q)
  PROVE  InOrder(q, n, D)
<1>1. Len(q) = Len(p) /\ \A i \in 1..Len(p) : q[i] = p[i]
  BY DEF Alike
<1>2. Sorted(q)
  BY <1>1 DEF InOrder, Sorted
<1>3. Elements(q) = Elements(p)
  BY <1>1 DEF Elements
<1> QED  BY <1>2, <1>3 DEF InOrder

LEMMA WithoutInOrder ==
  ASSUME NEW p \in Seq(Nat), NEW q \in Seq(Nat), NEW n \in Nat, NEW D, NEW k \in Nat,
         InOrder(p, n, D), Without(p, q, k)
  PROVE  InOrder(q, n, D \cup {p[k]})
<1>1. /\ k \in 1..Len(p) /\ Len(q) = Len(p) - 1 /\ Len(p) \in Nat
      /\ \A i \in 1..Len(q) : q[i] = IF i < k THEN p[i] ELSE p[i + 1]
  BY DEF Without
<1>2. \A i, j \in 1..Len(p) : i < j => p[i] < p[j]
  BY DEF InOrder, Sorted
<1>3. Sorted(q)
  <2>1. SUFFICES ASSUME NEW i \in 1..Len(q), NEW j \in 1..Len(q), i < j PROVE q[i] < q[j]
    BY DEF Sorted
  <2>2. i \in 1..Len(p) /\ i + 1 \in 1..Len(p) /\ j \in 1..Len(p) /\ j + 1 \in 1..Len(p)
    BY <1>1
  <2>3. i + 1 < j + 1 /\ i < j + 1
    BY <2>1
  <2>4. p[i] < p[j]
    BY ONLY <1>2, <2>1, <2>2
  <2>5. p[i + 1] < p[j + 1] /\ p[i] < p[j + 1]
    BY ONLY <1>2, <2>2, <2>3
  <2>6. q[i] = (IF i < k THEN p[i] ELSE p[i + 1]) /\ q[j] = (IF j < k THEN p[j] ELSE p[j + 1])
    BY <1>1
  <2>7. j < k => i < k
    BY <1>1, <2>1
  <2> QED  BY ONLY <2>4, <2>5, <2>6, <2>7
<1>4. Elements(q) = Elements(p) \ {p[k]}
  <2>1. ASSUME NEW x \in Elements(q) PROVE x \in Elements(p) /\ x # p[k]
    <3>1. PICK i \in 1..Len(q) : q[i] = x
      BY DEF Elements
    <3>2. CASE i < k
      <4>1. i \in 1..Len(p) /\ k \in 1..Len(p)
        BY ONLY <1>1, <3>2
      <4>2. x = p[i]
        BY ONLY <1>1, <3>1, <3>2
      <4>3. p[i] < p[k] /\ p[i] \in Nat /\ p[k] \in Nat
        BY ONLY <1>2, <3>2, <4>1
      <4>4. x \in Elements(p)
        BY ONLY <4>1, <4>2 DEF Elements
      <4> QED  BY ONLY <4>2, <4>3, <4>4
    <3>3. CASE ~(i < k)
      <4>1. i + 1 \in 1..Len(p) /\ k < i + 1
        BY ONLY <1>1, <3>3
      <4>2. x = p[i + 1]
        BY ONLY <1>1, <3>1, <3>3
      <4>3. p[k] < p[i + 1]
        BY ONLY <1>1, <1>2, <4>1
      <4>4. p[i + 1] \in Nat /\ p[k] \in Nat
        <5>1. k \in 1..Len(p)
          BY ONLY <1>1
        <5> QED  BY ONLY <1>2, <4>1, <5>1
      <4>5. x \in Elements(p)
        BY ONLY <4>1, <4>2 DEF Elements
      <4>6. x # p[k]
        BY ONLY <4>2, <4>3, <4>4
      <4> QED  BY <4>5, <4>6
    <3> QED  BY <3>2, <3>3
  <2>2. ASSUME NEW x \in Elements(p), x # p[k] PROVE x \in Elements(q)
    <3>1. PICK i \in 1..Len(p) : p[i] = x
      BY DEF Elements
    <3>2. CASE i < k
      <4>1. i \in 1..Len(q) /\ q[i] = x
        BY <3>1, <3>2, <1>1
      <4> QED  BY <4>1 DEF Elements
    <3>3. CASE i > k
      <4>1. i - 1 \in 1..Len(q) /\ ~(i - 1 < k) /\ (i - 1) + 1 = i
        BY <3>3, <1>1
      <4>2. q[i - 1] = x
        BY <4>1, <3>1, <1>1
      <4> QED  BY <4>1, <4>2 DEF Elements
    <3> QED  BY <3>1, <3>2, <3>3, <2>2, <1>1
  <2> QED  BY <2>1, <2>2
<1>5. Elements(q) = (1..n) \ (D \cup {p[k]})
  <2>1. Elements(p) = (1..n) \ D
    BY DEF InOrder
  <2> QED  BY <1>4, <2>1
<1> QED  BY <1>3, <1>5 DEF InOrder

LEMMA GainInOrder ==
  ASSUME NEW p \in Seq(Nat), NEW q \in Seq(Nat), NEW n \in Nat, NEW D,
         InOrder(p, n, D), D \subseteq 1..n,
         Len(q) = Len(p) + 1, \A i \in 1..Len(p) : q[i] = p[i], q[Len(p) + 1] = n + 1
  PROVE  InOrder(q, n + 1, D)
<1>1. Elements(p) = (1..n) \ D /\ Len(p) \in Nat
  BY DEF InOrder
<1>2. \A i, j \in 1..Len(p) : i < j => p[i] < p[j]
  BY DEF InOrder, Sorted
<1>3. \A i \in 1..Len(p) : p[i] \in 1..n
  BY <1>1 DEF Elements
<1>4. Sorted(q)
  <2>1. SUFFICES ASSUME NEW i \in 1..Len(q), NEW j \in 1..Len(q), i < j PROVE q[i] < q[j]
    BY DEF Sorted
  <2>2. i \in 1..Len(p) /\ q[i] = p[i]
    BY <2>1, <1>1
  <2>3. CASE j \in 1..Len(p)
    BY <2>1, <2>2, <2>3, <1>2
  <2>4. CASE j = Len(p) + 1
    <3>1. q[j] = n + 1 /\ q[i] \in 1..n
      BY <2>2, <2>4, <1>3
    <3> QED  BY <3>1
  <2> QED  BY <2>3, <2>4, <1>1
<1>5. Elements(q) = Elements(p) \cup {n + 1}
  <2>1. ASSUME NEW x \in Elements(q) PROVE x \in Elements(p) \cup {n + 1}
    <3>1. PICK i \in 1..Len(q) : q[i] = x
      BY DEF Elements
    <3>2. i \in 1..Len(p) \/ i = Len(p) + 1
      BY <1>1
    <3> QED  BY <3>1, <3>2 DEF Elements
  <2>2. ASSUME NEW x \in Elements(p) PROVE x \in Elements(q)
    <3>1. PICK i \in 1..Len(p) : p[i] = x
      BY DEF Elements
    <3>2. i \in 1..Len(q) /\ q[i] = x
      BY <3>1, <1>1
    <3> QED  BY <3>2 DEF Elements
  <2>3. n + 1 \in Elements(q)
    <3>1. Len(p) + 1 \in 1..Len(q)
      BY <1>1
    <3> QED  BY <3>1 DEF Elements
  <2> QED  BY <2>1, <2>2, <2>3
<1>6. Elements(q) = (1..(n + 1)) \ D
  BY <1>1, <1>5
<1> QED  BY <1>4, <1>6 DEF InOrder

-----------------------------------------------------------------------------
(* What HandOut does with a stream. *)

LEMMA SubSeqLength ==
  ASSUME NEW S, NEW q \in Seq(S), NEW t \in 0..Len(q)
  PROVE  Len(SubSeq(q, t + 1, Len(q))) = Len(q) - t
OBVIOUS

LEMMA HandOutFacts ==
  ASSUME TypeOK, NEW s \in Streams, HandOut(s)
  PROVE  /\ accepted' \in Seq(Streams) /\ taken' = taken /\ server' = server
         /\ \/ /\ accepted' = Append(accepted, s)
               /\ dropped' = dropped /\ crashed' = crashed
               /\ OneTask => Len(Channel) <= ChannelCap
            \/ /\ OneTask /\ Len(Channel) > ChannelCap
               /\ accepted' = accepted /\ dropped' = dropped \cup {s} /\ crashed' = TRUE
<1>1. accepted \in Seq(Streams) /\ Append(accepted, s) \in Seq(Streams)
  BY AppendFacts DEF TypeOK
<1>2. taken' = taken /\ server' = server
  BY DEF HandOut, serve
<1>3. CASE ToApplication(s)
  BY <1>1, <1>2, <1>3 DEF ToApplication
<1>4. CASE Overfill(s)
  BY <1>1, <1>2, <1>4 DEF Overfill
<1>5. CASE /\ OneTask /\ Len(Channel) <= ChannelCap
           /\ accepted' = Append(accepted, s)
           /\ UNCHANGED <<busy, woken, ended, dropped, crashed>>
  BY <1>1, <1>2, <1>5
<1> QED  BY <1>3, <1>4, <1>5 DEF HandOut

-----------------------------------------------------------------------------
(* The parts of TypeOK. *)

SeqsTyped ==
    /\ queue \in Seq(Streams) /\ accepted \in Seq(Streams)
    /\ buffer \in Seq(Streams) /\ Len(buffer) <= MaxBuffered

FlagsTyped ==
    /\ use \in Use /\ hungUp \in BOOLEAN
    /\ connWaker \in Task \cup {"none"} /\ inboundWaker \in {"acceptor", "none"}
    /\ woken \subseteq Task /\ ended \subseteq Task
    /\ turn \in {"inbound", "poll"} /\ busy \in BOOLEAN
    /\ crashed \in BOOLEAN /\ server \in {"waiting", "serving", "panicked"}

CountsTyped ==
    /\ arrived \in 0..MaxStreams /\ dropped \subseteq Streams
    /\ taken \in 0..Len(accepted) /\ peak \in 0..MaxStreams

Room == OneTask => Len(accepted) - taken <= ChannelCap + 1

LEMMA TypeParts == TypeOK <=> SeqsTyped /\ FlagsTyped /\ CountsTyped /\ Room
<1> SUFFICES ASSUME SeqsTyped, CountsTyped
             PROVE (OneTask => Len(Channel) <= ChannelCap + 1) <=> Room
  BY DEF TypeOK, SeqsTyped, FlagsTyped, CountsTyped
<1>1. accepted \in Seq(Streams) /\ taken \in 0..Len(accepted)
  BY DEF SeqsTyped, CountsTyped
<1>2. Len(Channel) = Len(accepted) - taken
  BY <1>1, SubSeqLength DEF Channel
<1> QED  BY <1>2 DEF Room

-----------------------------------------------------------------------------
(* The initial state. *)

LEMMA InitInv == Init => IInv
<1> SUFFICES ASSUME Init PROVE IInv
  OBVIOUS
<1>1. accepted = <<>> /\ buffer = <<>> /\ queue = <<>> /\ taken = 0 /\ arrived = 0
  BY DEF Init
<1>2. Pipeline = <<>> /\ Len(Pipeline) = 0
  BY <1>1 DEF Pipeline
<1>3. TypeOK
  <2>1. MaxBuffered \in Nat /\ ChannelCap \in Nat /\ MaxStreams \in Nat
    BY MuxerAssumption
  <2>2. SeqsTyped
    BY <1>1, <2>1 DEF SeqsTyped
  <2>3. FlagsTyped
    BY DEF Init, FlagsTyped, Task, DriverTask
  <2>4. CountsTyped
    BY <1>1, <2>1 DEF Init, CountsTyped, Streams
  <2>5. Room
    BY <1>1, <2>1 DEF Room
  <2> QED  BY <2>2, <2>3, <2>4, <2>5, TypeParts
<1>4. Parked
  BY DEF Init, Parked
<1>5. Counted
  BY <1>1, <1>2 DEF Init, Counted
<1>6. Tallied
  BY <1>1 DEF Init, Tallied, Open, Finished
<1>7. StreamsInOrder
  BY <1>1, <1>2 DEF Init, StreamsInOrder
<1>8. FullOnlyIfCrowded
  BY DEF Init, FullOnlyIfCrowded
<1> QED  BY <1>3, <1>4, <1>5, <1>6, <1>7, <1>8 DEF IInv

-----------------------------------------------------------------------------
(* Parked: every step that puts the acceptor to sleep leaves its waker. *)

LEMMA ParkedStep ==
  ASSUME IInv, Next PROVE Parked'
<1>1. Parked
  BY DEF IInv
<1>2. woken \subseteq Task /\ use \in Use /\ inboundWaker \in {"acceptor", "none"}
  BY DEF IInv, TypeOK
<1>3. use' = use
  BY DEF Next
<1>4. CASE Arrive
  BY <1>1, <1>4 DEF Parked, Arrive, WakeConnection
<1>5. CASE HangUp
  BY <1>1, <1>5 DEF Parked, HangUp, WakeConnection
<1>6. CASE PollInbound
  <2>1. ASSUME NEW s, HandOut(s) PROVE "acceptor" \in woken' \cup ended' \/ busy'
    <3>1. CASE ToApplication(s)
      BY <3>1 DEF ToApplication
    <3>2. CASE Overfill(s)
      BY <3>2 DEF Overfill
    <3>3. CASE UNCHANGED <<busy, woken, ended, dropped, crashed>>
      BY <3>3, <1>6 DEF PollInbound
    <3> QED  BY <2>1, <3>1, <3>2, <3>3 DEF HandOut
  <2>2. CASE InboundBuffered
    BY <2>1, <2>2 DEF InboundBuffered, Parked
  <2>3. CASE InboundDirect
    BY <2>1, <2>3 DEF InboundDirect, Parked
  <2>4. CASE InboundClosed
    BY <2>4 DEF InboundClosed, Parked
  <2>5. CASE InboundPending
    BY <2>5 DEF InboundPending, Parked
  <2> QED  BY <1>6, <2>2, <2>3, <2>4, <2>5 DEF PollInbound
<1>7. CASE Resume
  BY <1>7 DEF Parked, Resume
<1>8. CASE Poll
  <2>1. busy' = busy
    BY <1>8 DEF Poll
  <2>2. CASE PollStream
    <3>1. ended' = ended /\ woken \subseteq woken'
      BY <2>2 DEF PollStream
    <3>2. CASE buffer' = buffer /\ inboundWaker' = inboundWaker
      BY <1>1, <2>1, <3>1, <3>2 DEF Parked
    <3>3. CASE woken' = woken \cup {DriverTask} \cup ({inboundWaker} \ {"none"})
      BY <1>1, <2>1, <3>1, <3>3 DEF Parked
    <3> QED  BY <2>2, <3>2, <3>3 DEF PollStream
  <2>3. CASE PollPending
    <3>1. ended' = ended /\ ("acceptor" \in woken => "acceptor" \in woken')
          /\ buffer' = buffer /\ inboundWaker' = inboundWaker
      BY <2>3 DEF PollPending
    <3> QED  BY <1>1, <2>1, <3>1 DEF Parked
  <2>4. CASE PollClosed
    <3>1. "acceptor" \in woken \cup ended => "acceptor" \in woken' \cup ended'
      BY <2>4 DEF PollClosed
    <3>2. buffer' = buffer /\ inboundWaker' = inboundWaker
      BY <2>4 DEF PollClosed
    <3> QED  BY <1>1, <2>1, <3>1, <3>2 DEF Parked
  <2> QED  BY <1>8, <2>2, <2>3, <2>4 DEF Poll
<1>9. CASE Server
  BY <1>1, <1>9 DEF Parked, Server, Receive, Served, ReceiveNone
<1> QED  BY <1>4, <1>5, <1>6, <1>7, <1>8, <1>9 DEF Next

-----------------------------------------------------------------------------
(* Type correctness. *)

LEMMA FlagsStep ==
  ASSUME FlagsTyped, Next PROVE FlagsTyped'
<1> USE DEF FlagsTyped, Task
<1>1. use' = use
  BY DEF Next
<1>2. DriverTask \in Task
  BY DEF DriverTask
<1>3. CASE Arrive
  BY <1>1, <1>3 DEF Arrive, WakeConnection, serve
<1>4. CASE HangUp
  BY <1>1, <1>4 DEF HangUp, WakeConnection, serve
<1>5. ASSUME NEW s, HandOut(s), hungUp' = hungUp PROVE FlagsTyped'
  <2>1. connWaker' = connWaker /\ inboundWaker' = inboundWaker /\ turn' = turn
        /\ server' = server
    BY <1>5 DEF HandOut, serve
  <2>2. CASE ToApplication(s)
    BY <1>1, <1>5, <2>1, <2>2 DEF ToApplication
  <2>3. CASE Overfill(s)
    BY <1>1, <1>5, <2>1, <2>3 DEF Overfill
  <2>4. CASE UNCHANGED <<busy, woken, ended, dropped, crashed>>
    BY <1>1, <1>5, <2>1, <2>4
  <2> QED  BY <1>5, <2>2, <2>3, <2>4 DEF HandOut
<1>6. CASE InboundBuffered
  BY <1>5, <1>6 DEF InboundBuffered, connection
<1>7. CASE InboundDirect
  BY <1>5, <1>7 DEF InboundDirect
<1>8. CASE InboundClosed
  BY <1>1, <1>8 DEF InboundClosed, connection, serve
<1>9. CASE InboundPending
  BY <1>1, <1>9 DEF InboundPending, connection, serve
<1>10. CASE Resume
  BY <1>1, <1>10 DEF Resume, connection, serve
<1>11. CASE Poll
  <2>1. turn' = "inbound" /\ busy' = busy /\ crashed' = crashed /\ server' = server
    BY <1>11 DEF Poll, serve
  <2>2. CASE PollStream
    <3>1. hungUp' = hungUp /\ connWaker' = connWaker /\ ended' = ended
      BY <2>2 DEF PollStream
    <3>2. woken' \subseteq Task /\ inboundWaker' \in {"acceptor", "none"}
      BY <1>2, <2>2 DEF PollStream
    <3> QED  BY <1>1, <2>1, <3>1, <3>2
  <2>3. CASE PollPending
    BY <1>1, <1>2, <2>1, <2>3 DEF PollPending, connection
  <2>4. CASE PollClosed
    BY <1>1, <1>2, <2>1, <2>4 DEF PollClosed, connection
  <2> QED  BY <1>11, <2>2, <2>3, <2>4 DEF Poll
<1>12. CASE Server
  BY <1>1, <1>12 DEF Server, Receive, Served, ReceiveNone, connection
<1> QED  BY <1>3, <1>4, <1>6, <1>7, <1>8, <1>9, <1>10, <1>11, <1>12 DEF Next, PollInbound

\* What a step does to the streams on their way and to those taken.
Still == UNCHANGED <<queue, buffer, accepted, dropped, arrived, crashed>>

LEMMA QuietSteps ==
  ASSUME Next, ~Arrive, ~InboundBuffered, ~InboundDirect, ~(Poll /\ PollStream)
  PROVE  Still /\ peak' = peak
         /\ ((taken' = taken /\ (server' = "serving" => server = "serving")) \/ Receive)
<1>1. CASE HangUp
  BY <1>1 DEF HangUp, Still, serve
<1>2. CASE InboundClosed \/ InboundPending
  BY <1>2 DEF InboundClosed, InboundPending, connection, Still, serve
<1>3. CASE Resume
  BY <1>3 DEF Resume, connection, Still, serve
<1>4. CASE Poll /\ (PollPending \/ PollClosed)
  BY <1>4 DEF Poll, PollPending, PollClosed, connection, Still, serve
<1>5. CASE Server
  BY <1>5 DEF Server, Receive, Served, ReceiveNone, connection, Still
<1> QED  BY <1>1, <1>2, <1>3, <1>4, <1>5 DEF Next, PollInbound, Poll

LEMMA SeqsStep ==
  ASSUME TypeOK, Next PROVE SeqsTyped'
<1>1. queue \in Seq(Streams) /\ buffer \in Seq(Streams) /\ accepted \in Seq(Streams)
      /\ Len(buffer) <= MaxBuffered /\ MaxBuffered \in Nat /\ Len(buffer) \in Nat
  BY MuxerAssumption DEF TypeOK
<1>2. ASSUME NEW q \in Seq(Streams), q # <<>>
      PROVE  Head(q) \in Streams /\ Tail(q) \in Seq(Streams) /\ Len(Tail(q)) = Len(q) - 1
  BY <1>2, HeadTail
<1>3. CASE Arrive
  <2>1. arrived + 1 \in Streams
    BY <1>3, MuxerAssumption DEF Arrive, TypeOK, Streams
  <2>2. queue' \in Seq(Streams)
    BY <1>1, <1>3, <2>1, AppendFacts DEF Arrive
  <2> QED  BY <1>1, <1>3, <2>2 DEF Arrive, SeqsTyped
<1>4. CASE InboundBuffered
  <2>1. accepted' \in Seq(Streams)
    BY <1>1, <1>2, <1>4, HandOutFacts DEF InboundBuffered
  <2>2. buffer' \in Seq(Streams) /\ Len(buffer') <= MaxBuffered /\ queue' = queue
    BY <1>1, <1>2, <1>4 DEF InboundBuffered, connection
  <2> QED  BY <1>1, <2>1, <2>2 DEF SeqsTyped
<1>5. CASE InboundDirect
  <2>1. accepted' \in Seq(Streams)
    BY <1>1, <1>2, <1>5, HandOutFacts DEF InboundDirect
  <2>2. queue' \in Seq(Streams) /\ buffer' = buffer
    BY <1>1, <1>2, <1>5 DEF InboundDirect
  <2> QED  BY <1>1, <2>1, <2>2 DEF SeqsTyped
<1>6. CASE Poll /\ PollStream
  <2>1. queue # <<>> /\ accepted' = accepted /\ queue' = Tail(queue)
    BY <1>6 DEF PollStream
  <2>2. Head(queue) \in Streams /\ Tail(queue) \in Seq(Streams)
    BY <1>1, <1>2, <2>1
  <2>3. CASE buffer' = buffer
    BY <1>1, <2>1, <2>2, <2>3 DEF SeqsTyped
  <2>4. CASE Len(buffer) < MaxBuffered /\ buffer' = Append(buffer, Head(queue))
    <3>1. buffer' \in Seq(Streams) /\ Len(buffer') = Len(buffer) + 1
      BY <1>1, <2>2, <2>4, AppendFacts
    <3> QED  BY <1>1, <2>1, <2>2, <2>4, <3>1 DEF SeqsTyped
  <2> QED  BY <1>6, <2>3, <2>4 DEF PollStream
<1>7. CASE Still
  BY <1>1, <1>7 DEF Still, SeqsTyped
<1> QED  BY <1>3, <1>4, <1>5, <1>6, <1>7, QuietSteps

-----------------------------------------------------------------------------
(* Order. *)

LEMMA IsASeq ==
  ASSUME NEW S, NEW n \in Nat, NEW q \in [1..n -> S] PROVE q \in Seq(S)
OBVIOUS

LEMMA NatStreams ==
  ASSUME NEW q \in Seq(Streams) PROVE q \in Seq(Nat)
<1>1. Streams \subseteq Nat
  BY MuxerAssumption DEF Streams
<1>2. Len(q) \in Nat /\ q \in [1..Len(q) -> Streams]
  OBVIOUS
<1> HIDE DEF Streams
<1>3. q \in [1..Len(q) -> Nat]
  BY <1>1, <1>2
<1> QED  BY <1>2, <1>3, IsASeq

\* The streams on their way after a step that leaves the count of opened streams.
LEMMA SameOrder ==
  ASSUME Pipeline \in Seq(Nat), (Pipeline \in Seq(Nat))', arrived \in Nat,
         StreamsInOrder, Counted, Alike(Pipeline, Pipeline'),
         arrived' = arrived, dropped' = dropped
  PROVE  StreamsInOrder' /\ Counted'
<1> DEFINE p == Pipeline
           q == Pipeline'
<1>1. InOrder(p, arrived, dropped)
  BY DEF StreamsInOrder, InOrder, Sorted, Elements
<1>2. p \in Seq(Nat) /\ q \in Seq(Nat) /\ Alike(p, q)
  OBVIOUS
<1>3. Len(Pipeline') = Len(Pipeline)
  BY DEF Alike
<1> HIDE DEF p, q
<1>4. InOrder(q, arrived, dropped)
  BY <1>1, <1>2, AlikeInOrder
<1>5. StreamsInOrder'
  BY <1>4 DEF StreamsInOrder, InOrder, Sorted, Elements, q
<1> QED  BY <1>3, <1>5 DEF Counted

LEMMA LoseOne ==
  ASSUME Pipeline \in Seq(Nat), (Pipeline \in Seq(Nat))', arrived \in Nat,
         StreamsInOrder, Counted, NEW k \in Nat, Without(Pipeline, Pipeline', k),
         arrived' = arrived, dropped' = dropped \cup {Pipeline[k]}
  PROVE  StreamsInOrder' /\ Counted'
<1> DEFINE p == Pipeline
           q == Pipeline'
<1>1. InOrder(p, arrived, dropped)
  BY DEF StreamsInOrder, InOrder, Sorted, Elements
<1>2. p \in Seq(Nat) /\ q \in Seq(Nat) /\ Without(p, q, k)
  OBVIOUS
<1>3. Len(Pipeline') = Len(Pipeline) - 1 /\ Len(Pipeline) \in Nat /\ k \in 1..Len(Pipeline)
  BY DEF Without
<1>4. Pipeline[k] \in 1..arrived
  BY <1>3 DEF StreamsInOrder
<1>5. dropped' = dropped \cup {p[k]}
  OBVIOUS
<1> HIDE DEF p, q
<1>6. InOrder(q, arrived, dropped \cup {p[k]})
  BY <1>1, <1>2, WithoutInOrder
<1>7. InOrder(q, arrived', dropped')
  BY <1>5, <1>6
<1>8. StreamsInOrder'
  BY ONLY <1>7 DEF StreamsInOrder, InOrder, Sorted, Elements, q
<1>9. Counted'
  <2>1. Len(Pipeline) <= arrived /\ dropped \subseteq 1..arrived
    BY DEF Counted
  <2>2. Len(Pipeline') <= arrived'
    BY <1>3, <2>1
  <2>3. dropped' \subseteq 1..arrived'
    BY <1>4, <2>1
  <2> QED  BY <2>2, <2>3 DEF Counted
<1> QED  BY <1>8, <1>9

LEMMA OrderStep ==
  ASSUME IInv, Next PROVE StreamsInOrder' /\ Counted'
<1>1. queue \in Seq(Nat) /\ buffer \in Seq(Nat) /\ accepted \in Seq(Nat)
  BY NatStreams DEF IInv, TypeOK
<1>2. queue' \in Seq(Nat) /\ buffer' \in Seq(Nat) /\ accepted' \in Seq(Nat)
  BY NatStreams, SeqsStep DEF IInv, SeqsTyped
<1>3. Pipeline \in Seq(Nat) /\ (Pipeline \in Seq(Nat))'
  BY <1>1, <1>2, PipelineAt DEF Pipeline
<1>4. StreamsInOrder /\ Counted
  BY DEF IInv
<1>5. arrived \in Nat
  BY DEF IInv, TypeOK
<1>6. TypeOK
  BY DEF IInv
<1>7. Len(accepted) \in Nat /\ Len(buffer) \in Nat
  BY <1>1
<1>8. CASE Arrive
  <2>1. arrived' = arrived + 1 /\ dropped' = dropped
        /\ accepted' = accepted /\ buffer' = buffer /\ queue' = Append(queue, arrived + 1)
    BY <1>8 DEF Arrive
  <2> DEFINE p == Pipeline
             q == Pipeline'
  <2>2. q = accepted \o buffer \o Append(queue, arrived + 1)
    BY <2>1 DEF Pipeline
  <2>3. arrived + 1 \in Nat
    BY <1>5
  <2>4. /\ Len(q) = Len(p) + 1 /\ Len(p) \in Nat
        /\ \A i \in 1..Len(p) : q[i] = p[i]
        /\ q[Len(p) + 1] = arrived + 1
    BY <1>1, <2>2, <2>3, Opened DEF Pipeline
  <2>5. InOrder(p, arrived, dropped)
    BY <1>4 DEF StreamsInOrder, InOrder, Sorted, Elements
  <2>6. dropped \subseteq 1..arrived /\ Len(p) <= arrived
    BY <1>4 DEF Counted
  <2>7. p \in Seq(Nat) /\ q \in Seq(Nat)
    BY <1>3
  <2> HIDE DEF p, q
  <2>8. InOrder(q, arrived + 1, dropped)
    BY <1>5, <2>4, <2>5, <2>6, <2>7, GainInOrder
  <2>9. StreamsInOrder'
    BY <2>1, <2>8 DEF StreamsInOrder, InOrder, Sorted, Elements, q
  <2>10. Len(q) <= arrived' /\ dropped' \subseteq 1..arrived'
    BY <1>5, <2>1, <2>4, <2>6
  <2> QED  BY <2>9, <2>10 DEF Counted, q
<1>9. CASE InboundBuffered
  <2>1. buffer # <<>> /\ buffer' = Tail(buffer) /\ queue' = queue /\ arrived' = arrived
        /\ HandOut(Head(buffer))
    BY <1>9 DEF InboundBuffered, connection
  <2>2. Head(buffer) \in Streams
    BY <2>1, HeadTail DEF IInv, TypeOK
  <2>3. CASE accepted' = Append(accepted, Head(buffer)) /\ dropped' = dropped
    <3>1. Alike(Pipeline, Pipeline')
      BY <1>1, <2>1, <2>3, MoveBuffered DEF Pipeline
    <3> QED  BY <1>3, <1>4, <1>5, <2>1, <2>3, <3>1, SameOrder
  <2>4. CASE accepted' = accepted /\ dropped' = dropped \cup {Head(buffer)}
    <3> DEFINE k == Len(accepted) + 1
    <3>1. Without(Pipeline, Pipeline', k) /\ Pipeline[k] = Head(buffer)
      BY <1>1, <2>1, <2>4, DropBuffered DEF Pipeline
    <3>2. k \in Nat
      BY <1>7
    <3>3. dropped' = dropped \cup {Pipeline[k]}
      BY <2>4, <3>1
    <3> HIDE DEF k
    <3> QED  BY <1>3, <1>4, <1>5, <2>1, <3>1, <3>2, <3>3, LoseOne
  <2> QED  BY <1>6, <2>1, <2>2, <2>3, <2>4, HandOutFacts
<1>10. CASE InboundDirect
  <2>1. queue # <<>> /\ queue' = Tail(queue) /\ buffer = <<>> /\ buffer' = buffer
        /\ arrived' = arrived /\ HandOut(Head(queue))
    BY <1>10 DEF InboundDirect
  <2>2. Head(queue) \in Streams
    BY <2>1, HeadTail DEF IInv, TypeOK
  <2>3. CASE accepted' = Append(accepted, Head(queue)) /\ dropped' = dropped
    <3>1. Pipeline' = Append(accepted, Head(queue)) \o buffer \o Tail(queue)
      BY <2>1, <2>3 DEF Pipeline
    <3>2. Alike(Pipeline, Pipeline')
      BY <1>1, <2>1, <3>1, MoveDirect DEF Pipeline
    <3> QED  BY <1>3, <1>4, <1>5, <2>1, <2>3, <3>2, SameOrder
  <2>4. CASE accepted' = accepted /\ dropped' = dropped \cup {Head(queue)}
    <3> DEFINE k == Len(accepted) + Len(buffer) + 1
    <3>1. Pipeline' = accepted \o buffer \o Tail(queue)
      BY <2>1, <2>4 DEF Pipeline
    <3>2. Without(Pipeline, Pipeline', k) /\ Pipeline[k] = Head(queue)
      BY <1>1, <2>1, <3>1, DropDirect DEF Pipeline
    <3>3. k \in Nat
      BY <1>7
    <3>4. dropped' = dropped \cup {Pipeline[k]}
      BY <2>4, <3>2
    <3> HIDE DEF k
    <3> QED  BY <1>3, <1>4, <1>5, <2>1, <3>2, <3>3, <3>4, LoseOne
  <2> QED  BY <1>6, <2>1, <2>2, <2>3, <2>4, HandOutFacts
<1>11. CASE Poll /\ PollStream
  <2>1. queue # <<>> /\ queue' = Tail(queue) /\ accepted' = accepted /\ arrived' = arrived
    BY <1>11 DEF PollStream
  <2>2. CASE buffer' = Append(buffer, Head(queue)) /\ dropped' = dropped
    <3>1. Pipeline' = accepted \o Append(buffer, Head(queue)) \o Tail(queue)
      BY <2>1, <2>2 DEF Pipeline
    <3>2. Alike(Pipeline, Pipeline')
      BY <1>1, <2>1, <3>1, MoveToBuffer DEF Pipeline
    <3> QED  BY <1>3, <1>4, <1>5, <2>1, <2>2, <3>2, SameOrder
  <2>3. CASE buffer' = buffer /\ dropped' = dropped \cup {Head(queue)}
    <3> DEFINE k == Len(accepted) + Len(buffer) + 1
    <3>1. Pipeline' = accepted \o buffer \o Tail(queue)
      BY <2>1, <2>3 DEF Pipeline
    <3>2. Without(Pipeline, Pipeline', k) /\ Pipeline[k] = Head(queue)
      BY <1>1, <2>1, <3>1, DropDirect DEF Pipeline
    <3>3. k \in Nat
      BY <1>7
    <3>4. dropped' = dropped \cup {Pipeline[k]}
      BY <2>3, <3>2
    <3> HIDE DEF k
    <3> QED  BY <1>3, <1>4, <1>5, <2>1, <3>2, <3>3, <3>4, LoseOne
  <2> QED  BY <1>11, <2>2, <2>3 DEF PollStream
<1>12. CASE Still
  <2>1. Pipeline' = Pipeline /\ arrived' = arrived /\ dropped' = dropped
    BY <1>12 DEF Still, Pipeline
  <2> QED  BY <1>4, <2>1 DEF StreamsInOrder, Counted
<1> QED  BY <1>8, <1>9, <1>10, <1>11, <1>12, QuietSteps

-----------------------------------------------------------------------------
(* The counts of the echo server, and the overflow of its channel. *)

Counts == CountsTyped /\ Room /\ Tallied /\ FullOnlyIfCrowded

\* A step that takes nothing from the channel and opens nothing.
LEMMA CountsKept ==
  ASSUME IInv, use' = use, arrived' = arrived, peak' = peak, taken' = taken,
         server' = "serving" => server = "serving",
         dropped' \subseteq Streams,
         accepted' \in Seq(Streams), Len(accepted) <= Len(accepted'),
         OneTask => Len(accepted') - taken <= ChannelCap + 1,
         crashed' => crashed \/ peak > ChannelCap + 1
  PROVE  Counts'
<1>1. /\ arrived \in 0..MaxStreams /\ peak \in 0..MaxStreams
      /\ taken \in 0..Len(accepted) /\ Len(accepted) \in Nat /\ Len(accepted') \in Nat
  BY DEF IInv, TypeOK
<1>2. CountsTyped'
  BY <1>1 DEF CountsTyped
<1>3. OneTask' = OneTask
  BY DEF OneTask
<1>4. Room'
  BY <1>3 DEF Room
<1>5. Tallied
  BY DEF IInv
<1>6. Tallied'
  <2>1. server' = "serving" => taken' >= 1
    BY <1>5 DEF Tallied
  <2>2. Finished <= Finished' /\ Finished \in Int /\ Finished' \in Int
    BY <1>1 DEF Finished
  <2>3. Open' <= Open /\ Open \in Int /\ Open' \in Int
    <3>1. Open = arrived - Finished /\ Open' = arrived - Finished' /\ arrived \in Int
      BY <1>1 DEF Open
    <3>2. Open \in Int /\ Open' \in Int
      BY ONLY <2>2, <3>1
    <3>3. \A a, f, g \in Int : f <= g => a - g <= a - f
      OBVIOUS
    <3>4. arrived - Finished' <= arrived - Finished
      BY ONLY <2>2, <3>1, <3>3
    <3> QED  BY ONLY <3>1, <3>2, <3>4
  <2>4. ASSUME OneTask' PROVE Open' <= peak'
    <3>1. Open <= peak
      BY <1>3, <1>5, <2>4 DEF Tallied
    <3>2. peak' = peak /\ peak \in Int
      BY <1>1
    <3> HIDE DEF Open
    <3> QED  BY ONLY <2>3, <3>1, <3>2
  <2> QED  BY <2>1, <2>4 DEF Tallied
<1>7. FullOnlyIfCrowded'
  BY DEF IInv, FullOnlyIfCrowded
<1> QED  BY <1>2, <1>4, <1>6, <1>7 DEF Counts

\* The stream that overfills the channel is open, and so are those before it.
LEMMA Crowded ==
  ASSUME IInv, OneTask, Len(Channel) > ChannelCap, Len(accepted) < Len(Pipeline)
  PROVE  peak > ChannelCap + 1
<1>1. TypeOK /\ Counted /\ Tallied
  BY DEF IInv
<1>2. /\ Len(Channel) = Len(accepted) - taken /\ taken \in Nat /\ Len(accepted) \in Nat
      /\ arrived \in Nat /\ peak \in Nat
  BY <1>1, ChannelLength DEF TypeOK
<1>3. Len(Pipeline) \in Nat
  <2>1. Pipeline \in Seq(Streams)
    BY <1>1, PipelineAt DEF TypeOK, Pipeline
  <2> QED  BY <2>1
<1>4. Len(Pipeline) <= arrived
  BY <1>1 DEF Counted
<1>5. Finished <= taken /\ Finished \in Int
  BY <1>2 DEF Finished
<1>6. Open <= peak
  BY <1>1 DEF Tallied
<1>7. ChannelCap \in Nat
  BY MuxerAssumption
<1>8. arrived >= taken + ChannelCap + 2
  BY <1>2, <1>3, <1>4, <1>7
<1> QED  BY <1>2, <1>5, <1>6, <1>7, <1>8 DEF Open

LEMMA HandOutCounts ==
  ASSUME IInv, NEW s \in Streams, HandOut(s), Len(accepted) < Len(Pipeline),
         use' = use, arrived' = arrived, peak' = peak
  PROVE  Counts'
<1>1. TypeOK
  BY DEF IInv
<1>2. /\ Len(Channel) = Len(accepted) - taken /\ taken \in Nat
      /\ accepted \in Seq(Streams) /\ Len(accepted) \in Nat /\ dropped \subseteq Streams
  BY <1>1, ChannelLength DEF TypeOK
<1>3. accepted' \in Seq(Streams) /\ taken' = taken /\ server' = server
  BY <1>1, HandOutFacts
<1>4. ChannelCap \in Nat
  BY MuxerAssumption
<1>5. CASE /\ accepted' = Append(accepted, s)
           /\ dropped' = dropped /\ crashed' = crashed
           /\ OneTask => Len(Channel) <= ChannelCap
  <2>1. Len(accepted') = Len(accepted) + 1
    BY <1>2, <1>5, AppendFacts
  <2>2. OneTask => Len(accepted') - taken <= ChannelCap + 1
    BY <1>2, <1>4, <1>5, <2>1
  <2>3. Len(accepted) <= Len(accepted') /\ dropped' \subseteq Streams
    BY <1>2, <1>5, <2>1
  <2>4. crashed' => crashed \/ peak > ChannelCap + 1
    BY <1>5
  <2> QED  BY <1>3, <2>2, <2>3, <2>4, CountsKept
<1>6. CASE /\ OneTask /\ Len(Channel) > ChannelCap
           /\ accepted' = accepted /\ dropped' = dropped \cup {s} /\ crashed' = TRUE
  <2>1. peak > ChannelCap + 1
    BY <1>6, Crowded
  <2>2. OneTask => Len(accepted') - taken <= ChannelCap + 1
    BY <1>2, <1>6, <1>1 DEF TypeOK
  <2>3. Len(accepted) <= Len(accepted') /\ dropped' \subseteq Streams
    BY <1>2, <1>6
  <2> QED  BY <1>3, <2>1, <2>2, <2>3, CountsKept
<1> QED  BY <1>1, <1>5, <1>6, HandOutFacts

LEMMA CountsStep ==
  ASSUME IInv, Next PROVE Counts'
<1>1. TypeOK /\ Tallied /\ FullOnlyIfCrowded /\ use' = use
  BY DEF IInv, Next
<1>2. /\ queue \in Seq(Streams) /\ buffer \in Seq(Streams) /\ accepted \in Seq(Streams)
      /\ Len(queue) \in Nat /\ Len(buffer) \in Nat /\ Len(accepted) \in Nat
      /\ arrived \in 0..MaxStreams /\ peak \in 0..MaxStreams
      /\ taken \in 0..Len(accepted) /\ dropped \subseteq Streams
      /\ MaxStreams \in Nat /\ ChannelCap \in Nat
  BY <1>1, MuxerAssumption DEF TypeOK
<1>3. Len(Pipeline) = Len(accepted) + Len(buffer) + Len(queue)
  BY <1>2, PipelineAt DEF Pipeline
<1>4. OneTask => Len(accepted) - taken <= ChannelCap + 1
  BY <1>1, TypeParts DEF Room
<1>5. CASE Arrive
  <2>1. /\ arrived' = arrived + 1 /\ arrived < MaxStreams /\ ~crashed
        /\ peak' = IF OneTask /\ Open + 1 > peak THEN Open + 1 ELSE peak
        /\ accepted' = accepted /\ dropped' = dropped /\ crashed' = crashed
        /\ server' = server /\ taken' = taken
    BY <1>5 DEF Arrive, serve
  <2>2. Finished' = Finished /\ Finished \in Nat
    BY <1>1, <1>2, <2>1 DEF Finished, Tallied
  <2>3. Open \in Int /\ Open + 1 <= MaxStreams /\ Open' = Open + 1
    BY <1>2, <2>1, <2>2 DEF Open
  <2>4. peak' \in 0..MaxStreams
    BY <1>2, <2>1, <2>3
  <2>5. CountsTyped'
    BY <1>2, <2>1, <2>4 DEF CountsTyped
  <2>6. Room'
    BY <1>1, <1>4, <2>1 DEF Room, OneTask
  <2>7. OneTask => Open' <= peak'
    BY <1>2, <2>1, <2>3
  <2>8. Tallied'
    BY <1>1, <2>1, <2>7 DEF Tallied, OneTask
  <2>9. FullOnlyIfCrowded'
    BY <2>1 DEF FullOnlyIfCrowded
  <2> QED  BY <2>5, <2>6, <2>8, <2>9 DEF Counts
<1>6. CASE InboundBuffered
  <2>1. buffer # <<>> /\ HandOut(Head(buffer)) /\ arrived' = arrived /\ peak' = peak
    BY <1>6 DEF InboundBuffered, connection
  <2>2. Head(buffer) \in Streams /\ Len(buffer) > 0
    BY <1>2, <2>1, HeadTail
  <2>3. Len(accepted) < Len(Pipeline)
    BY <1>2, <1>3, <2>2
  <2> QED  BY <1>1, <2>1, <2>2, <2>3, HandOutCounts
<1>7. CASE InboundDirect
  <2>1. queue # <<>> /\ HandOut(Head(queue)) /\ arrived' = arrived /\ peak' = peak
    BY <1>7 DEF InboundDirect
  <2>2. Head(queue) \in Streams /\ Len(queue) > 0
    BY <1>2, <2>1, HeadTail
  <2>3. Len(accepted) < Len(Pipeline)
    BY <1>2, <1>3, <2>2
  <2> QED  BY <1>1, <2>1, <2>2, <2>3, HandOutCounts
<1>8. CASE Poll /\ PollStream
  <2>1. /\ arrived' = arrived /\ peak' = peak /\ taken' = taken /\ server' = server
        /\ accepted' = accepted /\ crashed' = crashed
    BY <1>8 DEF Poll, PollStream, serve
  <2>2. dropped' \subseteq Streams
    <3>1. Head(queue) \in Streams
      BY <1>2, <1>8, HeadTail DEF PollStream
    <3> QED  BY <1>2, <1>8, <3>1 DEF PollStream
  <2> QED  BY <1>1, <1>2, <1>4, <2>1, <2>2, CountsKept
<1>9. CASE Receive
  <2>1. /\ OneTask /\ server = "waiting" /\ Channel # <<>> /\ server' = "serving"
        /\ taken' = taken + 1 /\ arrived' = arrived /\ peak' = peak
        /\ accepted' = accepted /\ dropped' = dropped /\ crashed' = crashed
    BY <1>9 DEF Receive, connection
  <2>2. taken < Len(accepted)
    BY <1>1, <2>1, EmptyChannel
  <2>3. CountsTyped'
    BY <1>2, <2>1, <2>2 DEF CountsTyped
  <2>4. Room'
    BY <1>2, <1>4, <2>1 DEF Room
  <2>5. Finished' = Finished
    BY <1>2, <2>1 DEF Finished
  <2>6. Open' = Open
    BY <2>1, <2>5 DEF Open
  <2>7. Tallied'
    BY <1>1, <1>2, <2>1, <2>6 DEF Tallied
  <2>8. FullOnlyIfCrowded'
    BY <1>1, <2>1 DEF FullOnlyIfCrowded
  <2> QED  BY <2>3, <2>4, <2>7, <2>8 DEF Counts
<1>10. CASE /\ Still /\ peak' = peak /\ taken' = taken
            /\ server' = "serving" => server = "serving"
  <2>1. arrived' = arrived /\ accepted' = accepted /\ dropped' = dropped
        /\ crashed' = crashed
    BY <1>10 DEF Still
  <2> QED  BY <1>1, <1>2, <1>4, <1>10, <2>1, CountsKept
<1> QED  BY <1>5, <1>6, <1>7, <1>8, <1>9, <1>10, QuietSteps

-----------------------------------------------------------------------------
(* Theorems. *)

LEMMA InvStep == IInv /\ [Next]_vars => IInv'
<1> SUFFICES ASSUME IInv, [Next]_vars PROVE IInv'
  OBVIOUS
<1>1. CASE Next
  <2>1. TypeOK /\ FlagsTyped
    BY TypeParts DEF IInv
  <2>2. SeqsTyped' /\ FlagsTyped' /\ Counts'
    BY <1>1, <2>1, SeqsStep, FlagsStep, CountsStep
  <2>3. (SeqsTyped /\ FlagsTyped /\ CountsTyped /\ Room)' => TypeOK'
    BY TypeParts, PTL
  <2>4. TypeOK' /\ Tallied' /\ FullOnlyIfCrowded'
    BY <2>2, <2>3 DEF Counts
  <2>5. Parked' /\ StreamsInOrder' /\ Counted'
    BY <1>1, ParkedStep, OrderStep
  <2> QED  BY <2>4, <2>5 DEF IInv
<1>2. CASE UNCHANGED vars
  <2>1. SeqsTyped /\ FlagsTyped /\ CountsTyped /\ Room
    BY TypeParts DEF IInv
  <2>2. SeqsTyped' /\ FlagsTyped' /\ CountsTyped' /\ Room'
    BY <1>2, <2>1 DEF vars, SeqsTyped, FlagsTyped, CountsTyped, Room, OneTask
  <2>3. (SeqsTyped /\ FlagsTyped /\ CountsTyped /\ Room)' => TypeOK'
    BY TypeParts, PTL
  <2>4. Parked' /\ FullOnlyIfCrowded'
    BY <1>2 DEF vars, IInv, Parked, FullOnlyIfCrowded, OneTask
  <2>5. Tallied'
    BY <1>2 DEF vars, IInv, Tallied, Open, Finished, OneTask
  <2>6. Counted' /\ StreamsInOrder'
    BY <1>2 DEF vars, IInv, Counted, StreamsInOrder, Pipeline
  <2> QED  BY <2>2, <2>3, <2>4, <2>5, <2>6 DEF IInv
<1> QED  BY <1>1, <1>2

LEMMA Invariance == Spec => []IInv
BY InitInv, InvStep, PTL DEF Spec

\* The type invariant: among others, neither the buffer of inbound streams nor
\* the echo server's channel ever holds more than its capacity.
THEOREM TypeCorrect == Spec => []TypeOK
<1>1. IInv => TypeOK
  BY DEF IInv
<1> QED  BY <1>1, Invariance, PTL

\* No acceptor sleeps beside a buffered stream, whichever crate it uses and
\* however its calls and the driver's interleave.
THEOREM NoLostWakeupHolds == Spec => []NoLostWakeup
<1>1. IInv => NoLostWakeup
  BY DEF IInv, Parked, NoLostWakeup
<1> QED  BY <1>1, Invariance, PTL

\* The two ways to the application keep the order of the streams, lose none but
\* those that are dropped, and hand out none twice.
THEOREM StreamsInOrderHolds == Spec => []StreamsInOrder
<1>1. IInv => StreamsInOrder
  BY DEF IInv
<1> QED  BY <1>1, Invariance, PTL

\* For every capacity of its channel, the echo server panics only if the remote
\* had more streams open than the channel holds with its spare slot.
THEOREM FullOnlyIfCrowdedHolds == Spec => []FullOnlyIfCrowded
<1>1. IInv => FullOnlyIfCrowded
  BY DEF IInv
<1> QED  BY <1>1, Invariance, PTL
=============================================================================
