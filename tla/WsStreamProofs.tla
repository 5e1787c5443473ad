---------------------------- MODULE WsStreamProofs ----------------------------
(***************************************************************************)
(* Proofs about WsStream: the messages in the write buffer and on the wire *)
(* hold the bytes written and not yet read, in order and without gaps, for *)
(* every size of writes, reads, messages and buffers.                      *)
(***************************************************************************)
EXTENDS WsStream, SequenceTheorems, TLAPS

-----------------------------------------------------------------------------
(* Runs of bytes. *)

\* The n bytes that follow the first k.
Numbers(k, n) == [j \in 1..n |-> k + j]

LEMMA NumbersType ==
  ASSUME NEW k \in Nat, NEW n \in Nat
  PROVE  /\ Numbers(k, n) \in Seq(Nat) /\ Len(Numbers(k, n)) = n
         /\ \A j \in 1..n : Numbers(k, n)[j] = k + j
BY LenProperties DEF Numbers

LEMMA NumbersNone == ASSUME NEW k \in Nat  PROVE  Numbers(k, 0) = <<>>
<1>1. Numbers(k, 0) \in Seq(Nat) /\ Len(Numbers(k, 0)) = 0
  BY NumbersType
<1> QED  BY <1>1, EmptySeq

LEMMA NumbersJoin ==
  ASSUME NEW k \in Nat, NEW m \in Nat, NEW n \in Nat
  PROVE  Numbers(k, m) \o Numbers(k + m, n) = Numbers(k, m + n)
<1> DEFINE a == Numbers(k, m)
           b == Numbers(k + m, n)
           c == Numbers(k, m + n)
<1>0. k + m \in Nat /\ m + n \in Nat
  OBVIOUS
<1>1. /\ a \in Seq(Nat) /\ Len(a) = m /\ \A j \in 1..m : a[j] = k + j
      /\ b \in Seq(Nat) /\ Len(b) = n /\ \A j \in 1..n : b[j] = k + m + j
      /\ c \in Seq(Nat) /\ Len(c) = m + n /\ \A j \in 1..(m + n) : c[j] = k + j
  BY <1>0, NumbersType, Zenon
<1> HIDE DEF a, b, c
<1>2. /\ a \o b \in Seq(Nat) /\ Len(a \o b) = m + n
      /\ \A i \in 1..(m + n) : (a \o b)[i] = IF i <= m THEN a[i] ELSE b[i - m]
  <2>1. /\ a \o b \in Seq(Nat) /\ Len(a \o b) = Len(a) + Len(b)
        /\ \A i \in 1..(Len(a) + Len(b)) :
             (a \o b)[i] = IF i <= Len(a) THEN a[i] ELSE b[i - Len(a)]
    BY <1>1, ConcatProperties
  <2> QED  BY <1>1, <2>1, Zenon
<1>3. ASSUME NEW i \in 1..(m + n)  PROVE  (a \o b)[i] = c[i]
  <2>1. CASE i <= m
    BY <1>1, <1>2, <2>1
  <2>2. CASE ~(i <= m)
    <3>1. i - m \in 1..n /\ k + m + (i - m) = k + i
      BY <2>2
    <3>2. b[i - m] = k + m + (i - m)
      BY <1>1, <3>1
    <3> QED  BY <1>1, <1>2, <2>2, <3>1, <3>2
  <2> QED  BY <2>1, <2>2
<1>4. a \o b = c
  BY <1>1, <1>2, <1>3, SeqEqual
<1> QED  BY <1>4 DEF a, b, c

LEMMA NumbersFirst ==
  ASSUME NEW m \in Nat, NEW n \in Nat
  PROVE  Numbers(0, m) \o Numbers(m, n) = Numbers(0, m + n)
<1>1. 0 \in Nat /\ 0 + m = m
  OBVIOUS
<1>2. Numbers(0, m) \o Numbers(0 + m, n) = Numbers(0, m + n)
  BY <1>1, NumbersJoin
<1> QED  BY <1>1, <1>2

LEMMA NumbersPart ==
  ASSUME NEW k \in Nat, NEW m \in Nat, NEW p \in Nat, NEW n \in Nat, p + n <= m
  PROVE  SubSeq(Numbers(k, m), p + 1, p + n) = Numbers(k + p, n)
<1> DEFINE a == Numbers(k, m)
           b == Numbers(k + p, n)
           d == SubSeq(a, p + 1, p + n)
<1>0. k + p \in Nat
  OBVIOUS
<1>1. /\ a \in Seq(Nat) /\ Len(a) = m /\ \A j \in 1..m : a[j] = k + j
      /\ b \in Seq(Nat) /\ Len(b) = n /\ \A j \in 1..n : b[j] = k + p + j
  BY <1>0, NumbersType, Zenon
<1> HIDE DEF a, b
<1>2. \A i \in (p + 1)..(p + n) : a[i] \in Nat
  BY <1>1
<1>3. /\ d \in Seq(Nat)
      /\ Len(d) = IF p + 1 <= p + n THEN (p + n) - (p + 1) + 1 ELSE 0
      /\ \A i \in 1..((p + n) - (p + 1) + 1) : d[i] = a[(p + 1) + i - 1]
  BY <1>2, SubSeqProperties
<1> HIDE DEF d
<1>4. Len(d) = n /\ \A i \in 1..n : d[i] = a[p + i]
  <2>1. (p + n) - (p + 1) + 1 = n /\ (p + 1 <= p + n <=> 1 <= n)
    OBVIOUS
  <2>2. \A i \in 1..n : (p + 1) + i - 1 = p + i
    OBVIOUS
  <2>3. Len(d) = n
    BY <1>3, <2>1
  <2> QED  BY <1>3, <2>1, <2>2, <2>3
<1>5. \A i \in 1..n : d[i] = b[i]
  BY <1>1, <1>4
<1>6. d = b
  BY <1>1, <1>3, <1>4, <1>5, SeqEqual
<1> QED  BY <1>6 DEF a, b, d

-----------------------------------------------------------------------------
(* Messages that hold a run of bytes. *)

\* at[i] is the number of the last byte of the first i messages.
Offsets(ms, at) ==
    /\ at \in [0..Len(ms) -> Nat]
    /\ \A i \in 1..Len(ms) : ms[i].data = Numbers(at[i - 1], at[i] - at[i - 1])
    /\ \A i, j \in 0..Len(ms) : i <= j => at[i] <= at[j]
    /\ \A i, j \in 0..Len(ms) :
         i <= j /\ (\A l \in (i + 1)..j : ms[l].data = <<>>) => at[i] = at[j]

\* The messages hold the bytes behind the first a up to the b-th.
Runs(ms, a, b) == \E at : Offsets(ms, at) /\ at[0] = a /\ at[Len(ms)] = b

LEMMA RunsNone ==
  ASSUME NEW a \in Nat
  PROVE  Runs(<<>>, a, a) /\ \A b : Runs(<<>>, a, b) => a = b
<1>1. Len(<<>>) = 0 /\ 0..0 = {0} /\ 1..0 = {}
  BY EmptySeq
<1>2. Offsets(<<>>, [i \in 0..0 |-> a])
  <2> DEFINE at == [i \in 0..0 |-> a]
  <2>1. at \in [0..0 -> Nat] /\ at[0] = a
    BY <1>1
  <2> HIDE DEF at
  <2>2. \A i, j \in 0..0 : i = 0 /\ j = 0
    BY <1>1
  <2>3. Offsets(<<>>, at)
    BY <1>1, <2>1, <2>2 DEF Offsets
  <2> QED  BY <2>3 DEF at
<1> QED  BY <1>1, <1>2 DEF Runs

LEMMA RunsOrder ==
  ASSUME NEW ms \in Seq(Message), NEW a, NEW b, Runs(ms, a, b)
  PROVE  /\ a \in Nat /\ b \in Nat /\ a <= b
         /\ (\A i \in 1..Len(ms) : ms[i].data = <<>>) => a = b
<1>1. PICK at : Offsets(ms, at) /\ at[0] = a /\ at[Len(ms)] = b
  BY DEF Runs
<1>2. Len(ms) \in Nat /\ 0 \in 0..Len(ms) /\ Len(ms) \in 0..Len(ms) /\ 0 <= Len(ms)
  BY LenProperties
<1>3. a \in Nat /\ b \in Nat /\ a <= b
  BY <1>1, <1>2 DEF Offsets
<1>4. (\A l \in (0 + 1)..Len(ms) : ms[l].data = <<>>) => at[0] = at[Len(ms)]
  BY <1>1, <1>2 DEF Offsets
<1> QED  BY <1>1, <1>3, <1>4

\* A message more.
LEMMA RunsAppend ==
  ASSUME NEW ms \in Seq(Message), NEW m \in Message, NEW n \in Nat,
         NEW a, NEW b, Runs(ms, a, b), m.data = Numbers(b, n)
  PROVE  Runs(Append(ms, m), a, b + n)
<1>1. PICK at : Offsets(ms, at) /\ at[0] = a /\ at[Len(ms)] = b
  BY DEF Runs
<1> DEFINE k == Len(ms)
           more == Append(ms, m)
           to == [i \in 0..(k + 1) |-> IF i = k + 1 THEN b + n ELSE at[i]]
<1>2. k \in Nat /\ at \in [0..k -> Nat] /\ at[0] = a /\ at[k] = b /\ b \in Nat
      /\ b + n \in Nat
  <2>1. k \in Nat /\ at \in [0..k -> Nat]
    BY <1>1, LenProperties DEF Offsets
  <2> QED  BY <1>1, <2>1
<1>3. /\ Len(more) = k + 1 /\ more[k + 1] = m
      /\ \A i \in 1..k : more[i] = ms[i]
  BY AppendProperties
<1>4. /\ to \in [0..(k + 1) -> Nat] /\ to[k + 1] = b + n
      /\ \A i \in 0..k : to[i] = at[i]
  BY <1>2
<1>5. /\ \A i \in 1..k : ms[i].data = Numbers(at[i - 1], at[i] - at[i - 1])
      /\ \A i, j \in 0..k : i <= j => at[i] <= at[j]
      /\ \A i, j \in 0..k :
           i <= j /\ (\A l \in (i + 1)..j : ms[l].data = <<>>) => at[i] = at[j]
  BY <1>1 DEF Offsets
<1> HIDE DEF k, more, to
<1>6. ASSUME NEW i \in 1..(k + 1)
      PROVE  more[i].data = Numbers(to[i - 1], to[i] - to[i - 1])
  <2>1. CASE i = k + 1
    <3>1. i - 1 = k /\ k \in 0..k /\ b + n - b = n
      BY <1>2, <2>1
    <3> QED  BY <1>2, <1>3, <1>4, <2>1, <3>1
  <2>2. CASE i # k + 1
    <3>1. i \in 1..k /\ i \in 0..k /\ i - 1 \in 0..k
      BY <1>2, <2>2
    <3> QED  BY <1>3, <1>4, <1>5, <3>1
  <2> QED  BY <2>1, <2>2
<1>7. ASSUME NEW i \in 0..(k + 1), NEW j \in 0..(k + 1), i <= j
      PROVE  /\ to[i] <= to[j]
             /\ (\A l \in (i + 1)..j : more[l].data = <<>>) => to[i] = to[j]
  <2>1. CASE i = k + 1
    BY <1>2, <1>4, <1>7, <2>1
  <2>2. CASE i # k + 1 /\ j # k + 1
    <3>1. i \in 0..k /\ j \in 0..k /\ (i + 1)..j \subseteq 1..k
      BY <1>2, <2>2
    <3>2. \A l \in (i + 1)..j : more[l] = ms[l]
      BY <1>3, <3>1
    <3> QED  BY <1>4, <1>5, <1>7, <3>1, <3>2
  <2>3. CASE i # k + 1 /\ j = k + 1
    <3>1. i \in 0..k /\ k \in 0..k /\ i <= k /\ (i + 1)..k \subseteq (i + 1)..j
          /\ (i + 1)..k \subseteq 1..k /\ k + 1 \in (i + 1)..j
      BY <1>2, <2>3
    <3>2. at[i] <= at[k] /\ at[i] \in Nat /\ to[i] = at[i]
      BY <1>2, <1>4, <1>5, <3>1
    <3>3. ASSUME \A l \in (i + 1)..j : more[l].data = <<>>  PROVE  to[i] = to[j]
      <4>1. \A l \in (i + 1)..k : ms[l].data = <<>>
        BY <1>3, <3>1, <3>3
      <4>2. at[i] = at[k]
        BY <1>5, <3>1, <4>1
      <4>3. m.data = <<>>
        BY <1>3, <3>1, <3>3
      <4>4. Len(Numbers(b, n)) = n
        BY <1>2, NumbersType
      <4> QED  BY <1>2, <1>4, <2>3, <3>2, <4>2, <4>3, <4>4, EmptySeq
    <3> QED  BY <1>2, <1>4, <2>3, <3>2, <3>3
  <2> QED  BY <2>1, <2>2, <2>3
<1>8. Offsets(more, to)
  BY <1>3, <1>4, <1>6, <1>7 DEF Offsets
<1>9. to[0] = a /\ to[Len(more)] = b + n
  BY <1>2, <1>3, <1>4
<1> QED  BY <1>8, <1>9 DEF Runs, more

\* The first message that is not empty, and what is behind it.
LEMMA RunsBehind ==
  ASSUME NEW ms \in Seq(Message), NEW a, NEW b, Runs(ms, a, b),
         NEW i \in 1..Len(ms), \A j \in 1..(i - 1) : ms[j].data = <<>>
  PROVE  \E n \in Nat : /\ ms[i].data = Numbers(a, n)
                        /\ Runs(SubSeq(ms, i + 1, Len(ms)), a + n, b)
<1>1. PICK at : Offsets(ms, at) /\ at[0] = a /\ at[Len(ms)] = b
  BY DEF Runs
<1> DEFINE k == Len(ms)
           rest == SubSeq(ms, i + 1, k)
           to == [j \in 0..(k - i) |-> at[i + j]]
           n == at[i] - at[i - 1]
<1>2. k \in Nat /\ at \in [0..k -> Nat] /\ i \in 1..k /\ k - i \in Nat
      /\ i - 1 \in 0..k /\ i \in 0..k
  <2>1. k \in Nat /\ at \in [0..k -> Nat]
    BY <1>1, LenProperties DEF Offsets
  <2> QED  BY <2>1
<1>3. /\ \A j \in 1..k : ms[j].data = Numbers(at[j - 1], at[j] - at[j - 1])
      /\ \A j, l \in 0..k : j <= l => at[j] <= at[l]
      /\ \A j, l \in 0..k :
           j <= l /\ (\A x \in (j + 1)..l : ms[x].data = <<>>) => at[j] = at[l]
  BY <1>1 DEF Offsets
<1>4. at[i - 1] = a
  <2>1. 0 \in 0..k /\ 0 <= i - 1
    BY <1>2
  <2>2. \A x \in (0 + 1)..(i - 1) : ms[x].data = <<>>
    OBVIOUS
  <2>3. at[0] = at[i - 1]
    BY <1>2, <1>3, <2>1, <2>2
  <2> QED  BY <1>1, <2>3
<1>5. n \in Nat /\ a + n = at[i] /\ ms[i].data = Numbers(a, n)
  <2>1. at[i - 1] \in Nat /\ at[i] \in Nat /\ at[i - 1] <= at[i]
    <3>1. i - 1 <= i
      OBVIOUS
    <3>2. at[i - 1] \in Nat /\ at[i] \in Nat
      BY <1>2
    <3> HIDE DEF k
    <3> QED  BY <1>2, <1>3, <3>1, <3>2
  <2>2. n \in Nat /\ a + n = at[i]
    BY <1>4, <2>1
  <2>3. ms[i].data = Numbers(at[i - 1], at[i] - at[i - 1])
    BY <1>2, <1>3
  <2> QED  BY <1>4, <2>2, <2>3
<1>6. \A j \in (i + 1)..k : ms[j] \in Message
  BY <1>2, ElementOfSeq
<1>7. Len(rest) = k - i /\ \A j \in 1..(k - i) : rest[j] = ms[i + j]
  <2>1. /\ Len(rest) = IF i + 1 <= k THEN k - (i + 1) + 1 ELSE 0
        /\ \A j \in 1..(k - (i + 1) + 1) : rest[j] = ms[(i + 1) + j - 1]
    BY <1>2, <1>6, SubSeqProperties
  <2> HIDE DEF rest, k
  <2>2. k - (i + 1) + 1 = k - i /\ (i + 1 <= k \/ k - i = 0)
    BY <1>2
  <2>3. \A j \in 1..(k - i) : (i + 1) + j - 1 = i + j
    BY <1>2
  <2>4. Len(rest) = k - i
    BY <2>1, <2>2
  <2> QED  BY <2>1, <2>2, <2>3, <2>4
<1>8. /\ to \in [0..(k - i) -> Nat]
      /\ \A j \in 0..(k - i) : to[j] = at[i + j] /\ i + j \in 0..k
  BY <1>2
<1>9. to[0] = at[i] /\ to[k - i] = at[k]
  BY <1>2
<1> HIDE DEF k, rest, to, n
<1>10. ASSUME NEW j \in 1..(k - i)
       PROVE  rest[j].data = Numbers(to[j - 1], to[j] - to[j - 1])
  <2>1. i + j \in 1..k /\ (i + j) - 1 = i + (j - 1) /\ j \in 0..(k - i) /\ j - 1 \in 0..(k - i)
    BY <1>2
  <2>2. ms[i + j].data = Numbers(at[(i + j) - 1], at[i + j] - at[(i + j) - 1])
    BY <1>3, <2>1
  <2> QED  BY <1>7, <1>8, <2>1, <2>2
<1>11. ASSUME NEW j \in 0..(k - i), NEW l \in 0..(k - i), j <= l
       PROVE  /\ to[j] <= to[l]
              /\ (\A x \in (j + 1)..l : rest[x].data = <<>>) => to[j] = to[l]
  <2>1. i + j <= i + l /\ i + j \in 0..k /\ i + l \in 0..k
    BY <1>2, <1>8, <1>11
  <2>2. ASSUME \A x \in (j + 1)..l : rest[x].data = <<>>  PROVE  to[j] = to[l]
    <3>1. ASSUME NEW x \in ((i + j) + 1)..(i + l)  PROVE  ms[x].data = <<>>
      <4>1. x - i \in (j + 1)..l /\ x - i \in 1..(k - i) /\ i + (x - i) = x
        BY <1>2
      <4> QED  BY <1>7, <2>2, <4>1
    <3> QED  BY <1>3, <1>8, <2>1, <3>1
  <2> QED  BY <1>3, <1>8, <2>1, <2>2
<1>12. Offsets(rest, to)
  BY <1>7, <1>8, <1>10, <1>11 DEF Offsets
<1>13. Runs(rest, a + n, b)
  BY <1>1, <1>5, <1>7, <1>9, <1>12 DEF Runs, k
<1> QED  BY <1>5, <1>13 DEF rest, k

-----------------------------------------------------------------------------
(* Types. *)

LEMMA Messages ==
    /\ {Other, CloseFrame} \subseteq Message
    /\ \A m \in Message : m.data \in Seq(1..MaxBytes) /\ m.data \in Seq(Nat)
    /\ \A m \in Message : m.kind # "Binary" => m.data = <<>>
    /\ \A m \in Message : m.kind = "Close" <=> m = CloseFrame
<1>1. <<>> \in Seq(1..MaxBytes)
  BY EmptySeq
<1>2. \A s \in Seq(1..MaxBytes) : s \in Seq(Nat)
  BY SeqMonotonic, WsAssumption
<1>3. {Other, CloseFrame} \subseteq Message
  BY DEF Message
<1>4. /\ Other.data = <<>> /\ Other.kind = "Other"
      /\ CloseFrame.data = <<>> /\ CloseFrame.kind = "Close"
  BY DEF Other, CloseFrame
<1>5. ASSUME NEW m \in Message
      PROVE  /\ m.data \in Seq(1..MaxBytes) /\ (m.kind # "Binary" => m.data = <<>>)
             /\ m.kind = "Close" <=> m = CloseFrame
  BY <1>1, <1>4 DEF Message
<1> QED  BY <1>2, <1>3, <1>5

LEMMA InitType == Init => TypeOK
<1> SUFFICES ASSUME Init PROVE TypeOK
  OBVIOUS
<1>1. /\ <<>> \in Seq(Message) /\ <<>> \in Seq(1..MaxBytes)
      /\ Len(<<>>) = 0 /\ DOMAIN <<>> = {}
  BY EmptySeq
<1>2. WireCap \in Nat /\ MaxBuffered \in Nat /\ MaxBytes \in Nat
  BY WsAssumption
<1>3. /\ written = 0 /\ buffered = <<>> /\ flushed = 0 /\ wire = <<>> /\ received = <<>>
      /\ current = [data |-> <<>>, position |-> 0]
  BY DEF Init
<1>4. /\ written \in 0..MaxBytes /\ flushed \in 0..written
      /\ written - flushed <= MaxBuffered /\ Len(wire) <= WireCap
  BY <1>1, <1>2, <1>3
<1>5. /\ current \in [data : Seq(1..MaxBytes), position : Nat]
      /\ current.position <= Len(current.data)
  BY <1>1, <1>3
<1> QED  BY <1>1, <1>3, <1>4, <1>5 DEF Init, TypeOK

\* Appending keeps what holds of every message.
LEMMA AppendMessage ==
  ASSUME NEW ms \in Seq(Message), NEW m \in Message, Len(m.data) <= MaxWrite,
         \A i \in DOMAIN ms : Len(ms[i].data) <= MaxWrite
  PROVE  /\ Append(ms, m) \in Seq(Message) /\ Len(Append(ms, m)) = Len(ms) + 1
         /\ \A i \in DOMAIN Append(ms, m) : Len(Append(ms, m)[i].data) <= MaxWrite
<1>1. /\ Append(ms, m) \in Seq(Message) /\ Len(Append(ms, m)) = Len(ms) + 1
      /\ \A i \in 1..Len(ms) : Append(ms, m)[i] = ms[i]
      /\ Append(ms, m)[Len(ms) + 1] = m
  BY AppendProperties
<1>2. DOMAIN Append(ms, m) = 1..(Len(ms) + 1) /\ DOMAIN ms = 1..Len(ms) /\ Len(ms) \in Nat
  BY <1>1, LenProperties
<1> QED  BY <1>1, <1>2

\* So does dropping the first of them.
LEMMA DropMessages ==
  ASSUME NEW ms \in Seq(Message), NEW k \in 1..Len(ms),
         \A i \in DOMAIN ms : Len(ms[i].data) <= MaxWrite
  PROVE  LET rest == SubSeq(ms, k + 1, Len(ms))
         IN /\ rest \in Seq(Message) /\ Len(rest) = Len(ms) - k
            /\ \A i \in 1..(Len(ms) - k) : rest[i] = ms[k + i]
            /\ \A i \in DOMAIN rest : Len(rest[i].data) <= MaxWrite
<1> DEFINE n == Len(ms)
           rest == SubSeq(ms, k + 1, n)
<1>1. n \in Nat /\ DOMAIN ms = 1..n /\ k \in 1..n
  BY LenProperties
<1>2. \A i \in (k + 1)..n : ms[i] \in Message
  BY <1>1, ElementOfSeq
<1>3. /\ rest \in Seq(Message)
      /\ Len(rest) = IF k + 1 <= n THEN n - (k + 1) + 1 ELSE 0
      /\ \A j \in 1..(n - (k + 1) + 1) : rest[j] = ms[(k + 1) + j - 1]
  BY <1>1, <1>2, SubSeqProperties
<1> HIDE DEF rest, n
<1>4. n - (k + 1) + 1 = n - k /\ (k + 1 <= n \/ n - k = 0)
  BY <1>1
<1>5. \A j \in 1..(n - k) : (k + 1) + j - 1 = k + j /\ k + j \in 1..n
  BY <1>1
<1>6. Len(rest) = n - k
  BY <1>3, <1>4
<1>7. \A j \in 1..(n - k) : rest[j] = ms[k + j]
  BY <1>3, <1>4, <1>5
<1>8. DOMAIN rest = 1..(n - k)
  BY <1>3, <1>6, LenProperties
<1> QED  BY <1>1, <1>3, <1>5, <1>6, <1>7, <1>8 DEF rest, n

\* The first message, flushed.
LEMMA DropFirst ==
  ASSUME NEW ms \in Seq(Message), ms # <<>>
  PROVE  /\ Tail(ms) = SubSeq(ms, 1 + 1, Len(ms)) /\ Head(ms) = ms[1]
         /\ 1 \in 1..Len(ms) /\ Head(ms) \in Message /\ DOMAIN ms = 1..Len(ms)
<1>1. Len(ms) \in Nat \ {0}
  BY EmptySeq
<1>2. Tail(ms) = SubSeq(ms, 2, Len(ms)) /\ Head(ms) \in Message
  BY TailIsSubSeq, HeadTailProperties
<1> QED  BY <1>1, <1>2, LenProperties

LEMMA Numbered ==
  ASSUME NEW k \in Nat, NEW n \in Nat, k + n <= MaxBytes
  PROVE  Numbers(k, n) \in Seq(1..MaxBytes)
<1>1. \A j \in 1..n : k + j \in 1..MaxBytes
  BY WsAssumption
<1> QED  BY <1>1 DEF Numbers

\* What Copy reads.
LEMMA CopyType ==
  ASSUME TypeOK, NEW data \in Seq(1..MaxBytes), NEW pos \in Nat, pos <= Len(data),
         NEW k \in 1..MaxRead, Copy([data |-> data, position |-> pos], k)
  PROVE  \E n \in Nat :
           /\ pos + n <= Len(data) /\ n <= k /\ (pos < Len(data) => n # 0)
           /\ current' = [data |-> data, position |-> pos + n]
           /\ SubSeq(data, pos + 1, pos + n) \in Seq(1..MaxBytes)
           /\ received' = received \o SubSeq(data, pos + 1, pos + n)
           /\ received' \in Seq(1..MaxBytes)
           /\ seen' = IF n = 0 THEN "EOF" ELSE seen
<1> DEFINE rest == Len(data) - pos
           n == IF k < rest THEN k ELSE rest
<1>1. Len(data) \in Nat /\ k \in Nat \ {0} /\ n \in Nat /\ n <= k
      /\ pos + n <= Len(data) /\ (pos < Len(data) => n # 0)
  <2>1. Len(data) \in Nat
    BY LenProperties
  <2>2. k \in Nat \ {0}
    BY WsAssumption
  <2> QED  BY <2>1, <2>2
<1>2. /\ received' = received \o SubSeq(data, pos + 1, pos + n)
      /\ current' = [data |-> data, position |-> pos + n]
      /\ seen' = IF n = 0 THEN "EOF" ELSE seen
  BY DEF Copy
<1> HIDE DEF n
<1>3. SubSeq(data, pos + 1, pos + n) \in Seq(1..MaxBytes)
  <2>1. \A i \in (pos + 1)..(pos + n) : data[i] \in 1..MaxBytes
    <3>1. \A i \in (pos + 1)..(pos + n) : i \in 1..Len(data)
      BY <1>1
    <3> QED  BY <3>1, ElementOfSeq
  <2> QED  BY <1>1, <2>1, SubSeqProperties
<1>4. received' \in Seq(1..MaxBytes)
  BY <1>2, <1>3, ConcatProperties DEF TypeOK
<1> QED  BY <1>1, <1>2, <1>3, <1>4

-----------------------------------------------------------------------------
(* The inductive invariant. *)

\* The reader has the first bytes: those of the items before the current one,
\* which holds the bytes behind the first `base', up to its cursor.
ReadUpTo(base) ==
    /\ received = Numbers(0, base + current.position)
    /\ current.data = Numbers(base, Len(current.data))

\* What is written and not yet read is in the current item, on the wire and in
\* the write buffer.
Order ==
    /\ sending # "dropped" => Runs(buffered, flushed, written)
    /\ seen = "open" =>
         \E base \in Nat : ReadUpTo(base) /\ Runs(wire, base + Len(current.data), flushed)

\* Nothing comes behind a close frame, and none before poll_close.
Closing ==
    /\ \A i \in 1..Len(buffered) :
         buffered[i] = CloseFrame => sending = "closed" /\ i = Len(buffered)
    /\ \A i \in 1..Len(wire) :
         wire[i] = CloseFrame =>
           sending # "open" /\ i = Len(wire) /\ buffered = <<>> /\ flushed = written
    /\ seen = "EOF" => sending # "open"

IInv == TypeOK /\ Order /\ Closing

LEMMA InitInv == Init => IInv
<1> SUFFICES ASSUME Init PROVE IInv
  OBVIOUS
<1>1. /\ buffered = <<>> /\ wire = <<>> /\ flushed = 0 /\ written = 0 /\ received = <<>>
      /\ current.data = <<>> /\ current.position = 0 /\ seen = "open"
  BY DEF Init
<1>2. Len(<<>>) = 0 /\ 0 \in Nat /\ 0 + 0 = 0
  BY EmptySeq
<1>3. Runs(<<>>, 0, 0) /\ Numbers(0, 0) = <<>>
  BY <1>2, RunsNone, NumbersNone
<1>4. Order
  <2>1. ReadUpTo(0) /\ Runs(wire, 0 + Len(current.data), flushed)
    BY <1>1, <1>2, <1>3 DEF ReadUpTo
  <2> QED  BY <1>1, <1>2, <1>3, <2>1 DEF Order
<1>5. Closing
  BY <1>1, <1>2 DEF Closing
<1> QED  BY <1>4, <1>5, InitType DEF IInv

\* What a step of the writer leaves alone.
LEMMA ReaderKept ==
  ASSUME Order, UNCHANGED <<wire, flushed, reader>>
  PROVE  seen' = "open" =>
           \E base \in Nat : /\ ReadUpTo(base)'
                             /\ Runs(wire', base + Len(current'.data), flushed')
<1> SUFFICES ASSUME seen' = "open"
             PROVE  \E base \in Nat : /\ ReadUpTo(base)'
                                      /\ Runs(wire', base + Len(current'.data), flushed')
  OBVIOUS
<1>1. PICK base \in Nat : ReadUpTo(base) /\ Runs(wire, base + Len(current.data), flushed)
  BY DEF Order, reader
<1>2. ReadUpTo(base)'
  BY <1>1 DEF ReadUpTo, reader
<1> QED  BY <1>1, <1>2 DEF reader

-----------------------------------------------------------------------------
(* The writer. *)

\* A message of n bytes behind the others.
LEMMA Queue ==
  ASSUME IInv, NEW m \in Message, NEW n \in 0..MaxWrite, m.data = Numbers(written, n),
         sending = "open", buffered' = Append(buffered, m), written' = written + n,
         written + n <= MaxBytes, UNCHANGED <<flushed, wire, reader>>
  PROVE  /\ buffered' \in Seq(Message) /\ written' \in 0..MaxBytes /\ flushed' \in 0..written'
         /\ \A i \in DOMAIN buffered' : Len(buffered'[i].data) <= MaxWrite
         /\ Runs(buffered', flushed', written')
         /\ \A i \in 1..Len(buffered) : buffered'[i] = buffered[i] /\ buffered[i] # CloseFrame
         /\ Len(buffered') = Len(buffered) + 1 /\ buffered'[Len(buffered) + 1] = m
         /\ \A i \in 1..Len(wire) : wire[i] # CloseFrame
<1>1. /\ n \in Nat /\ n <= MaxWrite /\ written \in Nat /\ flushed \in 0..written
      /\ buffered \in Seq(Message) /\ \A i \in DOMAIN buffered : Len(buffered[i].data) <= MaxWrite
  BY WsAssumption DEF IInv, TypeOK
<1>2. Len(m.data) = n
  BY <1>1, NumbersType
<1>3. /\ buffered' \in Seq(Message)
      /\ \A i \in DOMAIN buffered' : Len(buffered'[i].data) <= MaxWrite
  BY <1>1, <1>2, AppendMessage
<1>4. Runs(buffered', flushed', written')
  <2>1. Runs(buffered, flushed, written)
    BY DEF IInv, Order
  <2>2. Runs(Append(buffered, m), flushed, written + n)
    BY <1>1, <2>1, RunsAppend
  <2> QED  BY <2>2
<1>5. written' \in 0..MaxBytes /\ flushed' \in 0..written'
  BY <1>1, WsAssumption
<1>6. /\ \A i \in 1..Len(buffered) : buffered'[i] = buffered[i]
      /\ Len(buffered') = Len(buffered) + 1 /\ buffered'[Len(buffered) + 1] = m
  BY <1>1, AppendProperties
<1> QED  BY <1>3, <1>4, <1>5, <1>6 DEF IInv, Closing

LEMMA WriteInv ==
  ASSUME IInv, NEW n \in 0..MaxWrite, PollWrite(n)
  PROVE  IInv'
<1> DEFINE m == Binary([i \in 1..n |-> written + i])
<1>1. /\ sending = "open" /\ buffered' = Append(buffered, m) /\ written' = written + n
      /\ written + n <= MaxBytes /\ UNCHANGED <<flushed, wire, reader, sending>>
      /\ written - flushed + n <= MaxBuffered
      /\ oversized' = (oversized \/ n > MaxMessage) /\ ready' \in BOOLEAN
  BY DEF PollWrite
<1>2. n \in Nat /\ written \in Nat /\ flushed \in Nat
  BY WsAssumption DEF IInv, TypeOK
<1>3. m.data = Numbers(written, n)
  BY DEF Binary, Numbers
<1>4. m \in Message
  <2>1. Numbers(written, n) \in Seq(1..MaxBytes)
    BY <1>1, <1>2, Numbered
  <2> QED  BY <1>3, <2>1 DEF Message, Binary, Numbers
<1>5. m # CloseFrame
  BY DEF Binary, CloseFrame
<1> HIDE DEF m
<1>6. /\ buffered' \in Seq(Message) /\ written' \in 0..MaxBytes /\ flushed' \in 0..written'
      /\ \A i \in DOMAIN buffered' : Len(buffered'[i].data) <= MaxWrite
      /\ Runs(buffered', flushed', written')
      /\ \A i \in 1..Len(buffered) : buffered'[i] = buffered[i] /\ buffered[i] # CloseFrame
      /\ Len(buffered') = Len(buffered) + 1 /\ buffered'[Len(buffered) + 1] = m
      /\ \A i \in 1..Len(wire) : wire[i] # CloseFrame
  BY <1>1, <1>3, <1>4, Queue
<1>7. TypeOK'
  <2>1. written' - flushed' <= MaxBuffered
    BY <1>1, <1>2, WsAssumption
  <2> QED  BY <1>1, <1>6, <2>1 DEF IInv, TypeOK, reader
<1>8. Order'
  BY <1>1, <1>6, ReaderKept DEF IInv, Order
<1>9. Closing'
  <2>1. \A i \in 1..Len(buffered') : buffered'[i] # CloseFrame
    <3>1. Len(buffered) \in Nat
      BY LenProperties DEF IInv, TypeOK
    <3> QED  BY <1>5, <1>6, <3>1
  <2>2. wire' = wire /\ seen' = seen /\ sending' = sending
    BY <1>1 DEF reader
  <2> QED  BY <1>6, <2>1, <2>2 DEF IInv, Closing
<1> QED  BY <1>7, <1>8, <1>9 DEF IInv

LEMMA OtherInv ==
  ASSUME IInv, SendOther \/ PollClose
  PROVE  IInv'
<1>1. PICK m \in {Other, CloseFrame} :
      /\ sending = "open" /\ buffered' = Append(buffered, m)
      /\ sending' = IF m = CloseFrame THEN "closed" ELSE "open"
      /\ UNCHANGED <<written, oversized, ready, flushed, wire, reader>>
  BY DEF SendOther, PollClose, Other, CloseFrame
<1>2. m \in Message /\ m.data = <<>>
  BY Messages DEF Other, CloseFrame
<1>3. /\ written \in Nat /\ flushed \in Nat /\ written + 0 = written /\ 0 \in 0..MaxWrite
      /\ written <= MaxBytes
  BY WsAssumption DEF IInv, TypeOK
<1>4. m.data = Numbers(written, 0)
  BY <1>2, <1>3, NumbersNone
<1>5. /\ buffered' \in Seq(Message) /\ written' \in 0..MaxBytes /\ flushed' \in 0..written'
      /\ \A i \in DOMAIN buffered' : Len(buffered'[i].data) <= MaxWrite
      /\ Runs(buffered', flushed', written')
      /\ \A i \in 1..Len(buffered) : buffered'[i] = buffered[i] /\ buffered[i] # CloseFrame
      /\ Len(buffered') = Len(buffered) + 1 /\ buffered'[Len(buffered) + 1] = m
      /\ \A i \in 1..Len(wire) : wire[i] # CloseFrame
  BY <1>1, <1>2, <1>3, <1>4, Queue
<1>6. TypeOK'
  BY <1>1, <1>5 DEF IInv, TypeOK, reader
<1>7. Order'
  BY <1>1, <1>5, ReaderKept DEF IInv, Order
<1>8. Closing'
  <2>1. \A i \in 1..Len(buffered') :
          buffered'[i] = CloseFrame => sending' = "closed" /\ i = Len(buffered')
    <3>1. Len(buffered) \in Nat
      BY LenProperties DEF IInv, TypeOK
    <3> QED  BY <1>1, <1>5, <3>1
  <2>2. wire' = wire /\ seen' = seen
    BY <1>1 DEF reader
  <2>3. seen' = "EOF" => sending' # "open"
    BY <1>1, <2>2 DEF IInv, Closing
  <2> QED  BY <1>5, <2>1, <2>2, <2>3 DEF Closing
<1> QED  BY <1>6, <1>7, <1>8 DEF IInv

LEMMA DropInv ==
  ASSUME IInv, DropWriter
  PROVE  IInv'
<1>1. /\ sending' = "dropped" /\ buffered' = <<>>
      /\ UNCHANGED <<written, oversized, ready, flushed, wire, reader>>
  BY DEF DropWriter
<1>2. <<>> \in Seq(Message) /\ Len(<<>>) = 0 /\ DOMAIN <<>> = {} /\ 1..0 = {}
  BY EmptySeq
<1>3. TypeOK'
  BY <1>1, <1>2 DEF IInv, TypeOK, reader
<1>4. Order'
  BY <1>1, ReaderKept DEF IInv, Order
<1>5. Closing'
  BY <1>1, <1>2 DEF IInv, Closing, reader
<1> QED  BY <1>3, <1>4, <1>5 DEF IInv

\* The first message moves to the wire.
LEMMA FlushInv ==
  ASSUME IInv, PollFlush
  PROVE  IInv'
<1> DEFINE m == Head(buffered)
           n == Len(m.data)
<1>1. /\ sending # "dropped" /\ buffered # <<>> /\ Len(wire) < WireCap
      /\ wire' = Append(wire, m) /\ buffered' = Tail(buffered) /\ flushed' = flushed + n
      /\ ready' = (ready \/ Len(buffered) = 1)
      /\ UNCHANGED <<written, oversized, sending, reader>>
  BY DEF PollFlush
<1>2. /\ buffered \in Seq(Message) /\ wire \in Seq(Message)
      /\ \A i \in DOMAIN buffered : Len(buffered[i].data) <= MaxWrite
      /\ \A i \in DOMAIN wire : Len(wire[i].data) <= MaxWrite
      /\ written \in Nat /\ flushed \in Nat /\ ready \in BOOLEAN
      /\ written - flushed <= MaxBuffered /\ MaxBuffered \in Nat
      /\ WireCap \in Nat /\ Len(wire) \in Nat /\ Len(buffered) \in Nat
  BY <1>1, LenProperties, WsAssumption DEF IInv, TypeOK
<1>3. /\ Tail(buffered) = SubSeq(buffered, 1 + 1, Len(buffered)) /\ m = buffered[1]
      /\ 1 \in 1..Len(buffered) /\ m \in Message /\ DOMAIN buffered = 1..Len(buffered)
  BY <1>1, <1>2, DropFirst
<1>4. /\ buffered' \in Seq(Message) /\ Len(buffered') = Len(buffered) - 1
      /\ \A i \in 1..(Len(buffered) - 1) : buffered'[i] = buffered[1 + i]
      /\ \A i \in DOMAIN buffered' : Len(buffered'[i].data) <= MaxWrite
  BY <1>1, <1>2, <1>3, DropMessages
<1>5. n \in Nat /\ n <= MaxWrite
  BY <1>2, <1>3, Messages, LenProperties
<1>6. /\ wire' \in Seq(Message) /\ Len(wire') = Len(wire) + 1
      /\ \A i \in DOMAIN wire' : Len(wire'[i].data) <= MaxWrite
      /\ \A i \in 1..Len(wire) : wire'[i] = wire[i]
      /\ wire'[Len(wire) + 1] = m
  BY <1>1, <1>2, <1>3, <1>5, AppendMessage, AppendProperties
<1>7. m.data = Numbers(flushed, n) /\ Runs(buffered', flushed', written)
  <2>1. Runs(buffered, flushed, written) /\ \A j \in 1..(1 - 1) : buffered[j].data = <<>>
    BY <1>1 DEF IInv, Order
  <2> HIDE DEF m
  <2>2. PICK l \in Nat : /\ buffered[1].data = Numbers(flushed, l)
                         /\ Runs(SubSeq(buffered, 1 + 1, Len(buffered)), flushed + l, written)
    BY <1>2, <1>3, <2>1, RunsBehind
  <2>3. n = l
    BY <1>2, <1>3, <2>2, NumbersType
  <2> QED  BY <1>1, <1>3, <2>2, <2>3
<1> HIDE DEF m, n
<1>8. flushed' \in Nat /\ flushed' <= written /\ flushed' >= flushed
  <2>1. flushed' <= written
    BY <1>4, <1>7, RunsOrder
  <2> QED  BY <1>1, <1>2, <1>5, <2>1
<1>9. TypeOK'
  <2>1. flushed' \in 0..written' /\ Len(wire') <= WireCap
        /\ (sending' # "dropped" => written' - flushed' <= MaxBuffered)
    BY <1>1, <1>2, <1>6, <1>8
  <2> QED  BY <1>1, <1>2, <1>4, <1>6, <2>1 DEF IInv, TypeOK, reader
<1>10. Order'
  <2>1. ASSUME seen = "open"
        PROVE  \E base \in Nat : /\ ReadUpTo(base)'
                                 /\ Runs(wire', base + Len(current'.data), flushed')
    <3>1. PICK base \in Nat : ReadUpTo(base) /\ Runs(wire, base + Len(current.data), flushed)
      BY <2>1 DEF IInv, Order
    <3>2. Runs(wire', base + Len(current.data), flushed')
      BY <1>1, <1>2, <1>3, <1>5, <1>7, <3>1, RunsAppend
    <3>3. ReadUpTo(base)'
      BY <1>1, <3>1 DEF ReadUpTo, reader
    <3> QED  BY <1>1, <3>2, <3>3 DEF reader
  <2> QED  BY <1>1, <1>7, <2>1 DEF Order, reader
<1>11. Closing'
  <2>1. ASSUME NEW i \in 1..Len(buffered'), buffered'[i] = CloseFrame
        PROVE  sending' = "closed" /\ i = Len(buffered')
    <3>1. 1 + i \in 1..Len(buffered) /\ buffered[1 + i] = CloseFrame
      BY <1>2, <1>4, <2>1
    <3>2. sending = "closed" /\ 1 + i = Len(buffered)
      BY <3>1 DEF IInv, Closing
    <3>3. i \in Nat /\ i = Len(buffered) - 1
      BY <1>2, <1>4, <3>2
    <3> QED  BY <1>1, <1>4, <3>2, <3>3
  <2>2. ASSUME NEW i \in 1..Len(wire'), wire'[i] = CloseFrame
        PROVE  sending' # "open" /\ i = Len(wire') /\ buffered' = <<>> /\ flushed' = written'
    <3>1. i = Len(wire) + 1
      <4> SUFFICES ASSUME i # Len(wire) + 1 PROVE FALSE
        OBVIOUS
      <4>1. i \in 1..Len(wire) /\ wire[i] = CloseFrame
        BY <1>2, <1>6, <2>2
      <4> QED  BY <1>1, <4>1 DEF IInv, Closing
    <3>2. sending = "closed" /\ Len(buffered) = 1
      BY <1>3, <1>6, <2>2, <3>1 DEF IInv, Closing
    <3>3. buffered' = <<>>
      BY <1>4, <3>2, EmptySeq
    <3>4. flushed' = written
      BY <1>7, <1>8, <3>3, RunsNone
    <3> QED  BY <1>1, <1>6, <3>1, <3>2, <3>3, <3>4
  <2> QED  BY <1>1, <2>1, <2>2 DEF IInv, Closing, reader
<1> QED  BY <1>9, <1>10, <1>11 DEF IInv

-----------------------------------------------------------------------------
(* The reader. *)

\* A step of the reader, as ByteStream has it.
StreamStep == Stream!Next \/ UNCHANGED <<written, received, seen>>

\* The cursor moves over n bytes.
LEMMA CursorMoves ==
  ASSUME NEW base \in Nat, NEW pos \in Nat, NEW n \in Nat, NEW len \in Nat, pos + n <= len,
         received = Numbers(0, base + pos)
  PROVE  /\ received \o SubSeq(Numbers(base, len), pos + 1, pos + n) = Numbers(0, base + (pos + n))
         /\ SubSeq(Numbers(base, len), pos + 1, pos + n) = Numbers(Len(received), n)
         /\ Len(received) = base + pos
<1> DEFINE p == base + pos
<1>1. p \in Nat /\ p + n = base + (pos + n)
  OBVIOUS
<1>2. SubSeq(Numbers(base, len), pos + 1, pos + n) = Numbers(p, n)
  BY NumbersPart
<1> HIDE DEF p
<1>3. Len(Numbers(0, p)) = p
  BY <1>1, NumbersType
<1>4. Numbers(0, p) \o Numbers(p, n) = Numbers(0, p + n)
  BY <1>1, NumbersFirst
<1> QED  BY <1>1, <1>2, <1>3, <1>4 DEF p

\* Copy, from an item with the bytes behind the first `base' and with `rest'
\* behind it.
LEMMA CopyInv ==
  ASSUME IInv, seen = "open", UNCHANGED writer,
         NEW base \in Nat, NEW data \in Seq(1..MaxBytes), data = Numbers(base, Len(data)),
         NEW pos \in Nat, pos < Len(data), received = Numbers(0, base + pos),
         NEW k \in 1..MaxRead, Copy([data |-> data, position |-> pos], k),
         wire' \in Seq(Message), Runs(wire', base + Len(data), flushed)
  PROVE  /\ seen' = "open" /\ Order' /\ StreamStep /\ received' \in Seq(1..MaxBytes)
         /\ current' \in [data : Seq(1..MaxBytes), position : Nat]
         /\ current'.position <= Len(current'.data)
<1>1. Len(data) \in Nat /\ pos <= Len(data) /\ TypeOK
  BY LenProperties DEF IInv
<1>2. PICK n \in Nat :
        /\ pos + n <= Len(data) /\ n <= k /\ (pos < Len(data) => n # 0)
        /\ current' = [data |-> data, position |-> pos + n]
        /\ received' = received \o SubSeq(data, pos + 1, pos + n)
        /\ received' \in Seq(1..MaxBytes)
        /\ seen' = IF n = 0 THEN "EOF" ELSE seen
  BY <1>1, CopyType
<1>3. seen' = "open"
  BY <1>2
<1>4. /\ received' = Numbers(0, base + (pos + n))
      /\ received' = received \o Numbers(Len(received), n)
      /\ Len(received) = base + pos
  <2>1. /\ received \o SubSeq(data, pos + 1, pos + n) = Numbers(0, base + (pos + n))
        /\ SubSeq(data, pos + 1, pos + n) = Numbers(Len(received), n)
        /\ Len(received) = base + pos
    <3> DEFINE len == Len(data)
    <3>1. len \in Nat /\ pos + n <= len /\ data = Numbers(base, len)
      BY <1>1, <1>2
    <3> HIDE DEF len
    <3>2. /\ received \o SubSeq(Numbers(base, len), pos + 1, pos + n) = Numbers(0, base + (pos + n))
          /\ SubSeq(Numbers(base, len), pos + 1, pos + n) = Numbers(Len(received), n)
          /\ Len(received) = base + pos
      BY <3>1, CursorMoves
    <3> QED  BY <3>1, <3>2
  <2> QED  BY <1>2, <2>1
<1>5. /\ current'.data = data /\ current'.position = pos + n /\ pos + n \in Nat
      /\ current' \in [data : Seq(1..MaxBytes), position : Nat]
  BY <1>2
<1>6. Order'
  <2>1. ReadUpTo(base)'
    BY <1>4, <1>5 DEF ReadUpTo
  <2>2. Runs(wire', base + Len(current'.data), flushed')
    BY <1>5 DEF writer
  <2>3. sending' # "dropped" => Runs(buffered', flushed', written')
    BY DEF writer, IInv, Order
  <2> QED  BY <2>1, <2>2, <2>3 DEF Order
<1>7. Stream!Next
  <2>1. base + Len(data) <= flushed /\ flushed \in Nat /\ written \in Nat /\ flushed <= written
    <3>1. base + Len(data) <= flushed
      BY RunsOrder
    <3>2. written \in 0..MaxBytes /\ flushed \in 0..written /\ MaxBytes \in Nat
      BY <1>1, WsAssumption DEF TypeOK
    <3> QED  BY <3>1, <3>2
  <2>2. Len(received) + n <= written
    BY <1>1, <1>2, <1>4, <2>1
  <2>3. n \in 0..(MaxWrite + MaxRead)
    <3>1. n <= k
      BY <1>2
    <3>2. MaxWrite \in Nat /\ MaxRead \in Nat
      BY WsAssumption
    <3> QED  BY <3>1, <3>2
  <2>4. Stream!Read(n)
    BY <1>2, <1>3, <1>4, <2>2 DEF Stream!Read, writer, Numbers
  <2> QED  BY <2>3, <2>4 DEF Stream!Next
<1> QED  BY <1>2, <1>3, <1>5, <1>6, <1>7 DEF StreamStep

\* What the reader finds when its current item is exhausted.
LEMMA AtTheEnd ==
  ASSUME IInv, seen = "open", Exhausted
  PROVE  \E base \in Nat : received = Numbers(0, base) /\ Len(received) = base
                           /\ Runs(wire, base, flushed)
<1>1. PICK first \in Nat : ReadUpTo(first) /\ Runs(wire, first + Len(current.data), flushed)
  BY DEF IInv, Order
<1>2. current.data \in Seq(1..MaxBytes) /\ current.position \in Nat
      /\ current.position <= Len(current.data)
  BY DEF IInv, TypeOK
<1>3. Len(current.data) \in Nat /\ current.position = Len(current.data)
  BY <1>2, LenProperties DEF Exhausted
<1>4. first + Len(current.data) \in Nat
  BY <1>3
<1>5. received = Numbers(0, first + Len(current.data))
  BY <1>1, <1>3 DEF ReadUpTo
<1> QED  BY <1>1, <1>4, <1>5, NumbersType

LEMMA ReadCurrentInv ==
  ASSUME IInv, seen = "open", UNCHANGED writer, NEW k \in 1..MaxRead, ReadCurrent(k)
  PROVE  IInv' /\ StreamStep
<1>1. PICK base \in Nat : ReadUpTo(base) /\ Runs(wire, base + Len(current.data), flushed)
  BY DEF IInv, Order
<1> DEFINE data == current.data
           pos == current.position
<1>2. /\ data \in Seq(1..MaxBytes) /\ pos \in Nat /\ Len(data) \in Nat /\ pos < Len(data)
      /\ current = [data |-> data, position |-> pos] /\ wire' = wire /\ wire \in Seq(Message)
  <2>1. current \in [data : Seq(1..MaxBytes), position : Nat] /\ wire \in Seq(Message)
    BY DEF IInv, TypeOK
  <2>2. data \in Seq(1..MaxBytes) /\ pos \in Nat /\ current = [data |-> data, position |-> pos]
    BY <2>1
  <2>3. Len(data) \in Nat
    BY <2>2, LenProperties
  <2> QED  BY <2>1, <2>2, <2>3 DEF ReadCurrent, Exhausted
<1>3. data = Numbers(base, Len(data)) /\ received = Numbers(0, base + pos)
      /\ Runs(wire', base + Len(data), flushed)
  BY <1>1, <1>2 DEF ReadUpTo
<1>4. Copy([data |-> data, position |-> pos], k)
  BY <1>2 DEF ReadCurrent
<1> HIDE DEF data, pos
<1>5. /\ seen' = "open" /\ Order' /\ StreamStep /\ received' \in Seq(1..MaxBytes)
      /\ current' \in [data : Seq(1..MaxBytes), position : Nat]
      /\ current'.position <= Len(current'.data)
  BY <1>2, <1>3, <1>4, CopyInv
<1>6. TypeOK'
  BY <1>2, <1>5 DEF IInv, TypeOK, writer
<1>7. Closing'
  BY <1>2, <1>5 DEF IInv, Closing, writer
<1> QED  BY <1>5, <1>6, <1>7 DEF IInv

\* The messages up to the k-th have been read.
LEMMA WireRead ==
  ASSUME IInv, UNCHANGED writer, NEW k \in 1..Len(wire),
         wire' = SubSeq(wire, k + 1, Len(wire))
  PROVE  /\ wire' \in Seq(Message) /\ Len(wire') <= WireCap
         /\ \A i \in DOMAIN wire' : Len(wire'[i].data) <= MaxWrite
         /\ \A i \in 1..Len(wire') :
              wire'[i] = CloseFrame =>
                sending' # "open" /\ i = Len(wire') /\ buffered' = <<>> /\ flushed' = written'
         /\ wire[k] = CloseFrame => wire' = <<>>
<1>1. /\ wire \in Seq(Message) /\ Len(wire) \in Nat /\ Len(wire) <= WireCap /\ WireCap \in Nat
      /\ \A i \in DOMAIN wire : Len(wire[i].data) <= MaxWrite
  BY LenProperties, WsAssumption DEF IInv, TypeOK
<1>2. /\ wire' \in Seq(Message) /\ Len(wire') = Len(wire) - k
      /\ \A i \in 1..(Len(wire) - k) : wire'[i] = wire[k + i]
      /\ \A i \in DOMAIN wire' : Len(wire'[i].data) <= MaxWrite
  BY <1>1, DropMessages
<1>3. Len(wire') <= WireCap
  BY <1>1, <1>2
<1>4. ASSUME NEW i \in 1..Len(wire'), wire'[i] = CloseFrame
      PROVE  sending' # "open" /\ i = Len(wire') /\ buffered' = <<>> /\ flushed' = written'
  <2>1. k + i \in 1..Len(wire) /\ wire[k + i] = CloseFrame
    <3>1. i \in 1..(Len(wire) - k)
      BY <1>2
    <3> QED  BY <1>1, <1>2, <1>4, <3>1
  <2>2. sending # "open" /\ k + i = Len(wire) /\ buffered = <<>> /\ flushed = written
    BY <2>1 DEF IInv, Closing
  <2>3. i = Len(wire) - k
    BY <1>1, <2>2
  <2> QED  BY <1>2, <2>2, <2>3 DEF writer
<1>5. ASSUME wire[k] = CloseFrame  PROVE  wire' = <<>>
  <2>1. k = Len(wire)
    BY <1>5 DEF IInv, Closing
  <2>2. Len(wire') = 0
    BY <1>1, <1>2, <2>1
  <2> QED  BY <1>2, <2>2, EmptySeq
<1> QED  BY <1>2, <1>3, <1>4, <1>5

LEMMA ReadNextInv ==
  ASSUME IInv, seen = "open", UNCHANGED writer, NEW k \in 1..MaxRead, ReadNext(k)
  PROVE  IInv' /\ StreamStep
<1>1. PICK base \in Nat : received = Numbers(0, base) /\ Len(received) = base
                          /\ Runs(wire, base, flushed)
  BY AtTheEnd DEF ReadNext
<1>2. PICK i \in DOMAIN wire :
        LET m == wire[i]
        IN /\ Stops(m) /\ \A j \in 1..(i - 1) : ~Stops(wire[j])
           /\ wire' = SubSeq(wire, i + 1, Len(wire))
           /\ \/ /\ m.kind = "Binary" /\ Len(m.data) <= MaxMessage
                 /\ Copy([data |-> m.data, position |-> 0], k)
              \/ /\ m.kind = "Binary" /\ Len(m.data) > MaxMessage
                 /\ seen' = "Err" /\ UNCHANGED <<current, received>>
              \/ /\ m.kind = "Close"
                 /\ seen' = "EOF" /\ UNCHANGED <<current, received>>
  BY DEF ReadNext
<1> DEFINE m == wire[i]
<1>3. /\ wire \in Seq(Message) /\ i \in 1..Len(wire) /\ m \in Message
      /\ \A j \in 1..(i - 1) : wire[j].data = <<>>
  <2>1. wire \in Seq(Message)
    BY DEF IInv, TypeOK
  <2>2. i \in 1..Len(wire)
    BY <2>1, LenProperties
  <2> QED  BY <1>2, <2>1, <2>2, ElementOfSeq DEF Stops
<1>4. PICK n \in Nat : m.data = Numbers(base, n) /\ Runs(wire', base + n, flushed)
  BY <1>1, <1>2, <1>3, RunsBehind
<1>5. Len(m.data) = n /\ m.data \in Seq(1..MaxBytes)
  <2>1. m.data \in Seq(1..MaxBytes)
    BY <1>3, Messages
  <2>2. Len(Numbers(base, n)) = n
    BY NumbersType
  <2> QED  BY <1>4, <2>1, <2>2
<1>6. /\ wire' \in Seq(Message) /\ Len(wire') <= WireCap
      /\ \A j \in DOMAIN wire' : Len(wire'[j].data) <= MaxWrite
      /\ \A j \in 1..Len(wire') :
           wire'[j] = CloseFrame =>
             sending' # "open" /\ j = Len(wire') /\ buffered' = <<>> /\ flushed' = written'
      /\ wire[i] = CloseFrame => wire' = <<>>
  BY <1>2, <1>3, WireRead
<1>7. ASSUME m.kind = "Binary", Copy([data |-> m.data, position |-> 0], k)
      PROVE  IInv' /\ StreamStep
  <2>1. m.data # <<>>
    BY <1>2, <1>7 DEF Stops
  <2>2. 0 < Len(m.data) /\ base + 0 = base
    BY <1>5, <2>1, EmptySeq
  <2>3. /\ seen' = "open" /\ Order' /\ StreamStep /\ received' \in Seq(1..MaxBytes)
        /\ current' \in [data : Seq(1..MaxBytes), position : Nat]
        /\ current'.position <= Len(current'.data)
    <3> DEFINE d == m.data
    <3>1. /\ d \in Seq(1..MaxBytes) /\ d = Numbers(base, Len(d)) /\ 0 < Len(d)
          /\ received = Numbers(0, base + 0) /\ Copy([data |-> d, position |-> 0], k)
          /\ Runs(wire', base + Len(d), flushed)
      BY <1>1, <1>4, <1>5, <1>7, <2>2
    <3> HIDE DEF d
    <3> QED  BY <1>6, <3>1, CopyInv
  <2>4. TypeOK'
    BY <1>6, <2>3 DEF IInv, TypeOK, writer
  <2>5. Closing'
    BY <1>6, <2>3 DEF IInv, Closing, writer
  <2> QED  BY <2>3, <2>4, <2>5 DEF IInv
<1>8. ASSUME seen' = "Err", UNCHANGED <<current, received>>
      PROVE  IInv' /\ StreamStep
  <2>1. TypeOK'
    BY <1>6, <1>8 DEF IInv, TypeOK, writer
  <2>2. Order' /\ Closing'
    BY <1>6, <1>8 DEF IInv, Order, Closing, writer
  <2>3. Stream!Fail
    BY <1>8 DEF Stream!Fail, writer
  <2> QED  BY <2>1, <2>2, <2>3 DEF IInv, StreamStep, Stream!Next
<1>9. ASSUME m.kind = "Close", seen' = "EOF", UNCHANGED <<current, received>>
      PROVE  IInv' /\ StreamStep
  <2>1. m = CloseFrame /\ m.data = <<>>
    BY <1>3, <1>9, Messages
  <2>2. sending # "open" /\ flushed = written
    BY <1>3, <2>1 DEF IInv, Closing
  <2>3. wire' = <<>>
    BY <1>6, <2>1
  <2>4. base = flushed
    <3>1. n = 0 /\ base + n = base
      BY <1>4, <1>5, <2>1, EmptySeq
    <3> QED  BY <1>4, <2>3, <3>1, RunsNone
  <2>5. TypeOK'
    BY <1>6, <1>9 DEF IInv, TypeOK, writer
  <2>6. Order' /\ Closing'
    BY <1>6, <1>9, <2>2 DEF IInv, Order, Closing, writer
  <2>7. Stream!End
    BY <1>1, <1>9, <2>2, <2>4 DEF Stream!End, writer
  <2> QED  BY <2>5, <2>6, <2>7 DEF IInv, StreamStep, Stream!Next
<1> QED  BY <1>2, <1>7, <1>8, <1>9

LEMMA ReadNothingInv ==
  ASSUME IInv, seen = "open", UNCHANGED writer, ReadNothing
  PROVE  IInv' /\ StreamStep
<1>1. PICK base \in Nat : received = Numbers(0, base) /\ Len(received) = base
                          /\ Runs(wire, base, flushed)
  BY AtTheEnd DEF ReadNothing
<1>2. /\ wire' = <<>> /\ UNCHANGED <<current, received>> /\ Exhausted
      /\ seen' = IF sending = "dropped" THEN "Err" ELSE seen
  BY DEF ReadNothing
<1>3. /\ <<>> \in Seq(Message) /\ Len(<<>>) = 0 /\ DOMAIN <<>> = {} /\ 1..0 = {}
      /\ 0 <= WireCap
  BY EmptySeq, WsAssumption
<1>4. TypeOK'
  BY <1>2, <1>3 DEF IInv, TypeOK, writer
<1>5. Closing'
  BY <1>2, <1>3 DEF IInv, Closing, writer
<1>6. Order'
  <2>1. wire \in Seq(Message) /\ DOMAIN wire = 1..Len(wire)
    BY LenProperties DEF IInv, TypeOK
  <2>2. base = flushed
    BY <1>1, <2>1, RunsOrder DEF ReadNothing, Stops
  <2>3. PICK first \in Nat : ReadUpTo(first) /\ Runs(wire, first + Len(current.data), flushed)
    BY DEF IInv, Order
  <2>4. first + Len(current.data) = flushed
    BY <2>1, <2>3, RunsOrder DEF ReadNothing, Stops
  <2>5. Runs(wire', first + Len(current'.data), flushed')
    BY <1>1, <1>2, <2>2, <2>4, RunsNone DEF writer
  <2>6. ReadUpTo(first)'
    BY <1>2, <2>3 DEF ReadUpTo
  <2>7. sending' # "dropped" => Runs(buffered', flushed', written')
    BY DEF writer, IInv, Order
  <2> QED  BY <2>5, <2>6, <2>7 DEF Order
<1>7. StreamStep
  BY <1>2 DEF StreamStep, Stream!Next, Stream!Fail, writer
<1> QED  BY <1>4, <1>5, <1>6, <1>7 DEF IInv

-----------------------------------------------------------------------------

LEMMA NextInv == IInv /\ [Next]_vars => IInv'
<1> SUFFICES ASSUME IInv, [Next]_vars PROVE IInv'
  OBVIOUS
<1>1. CASE ReaderStep
  BY <1>1, ReadCurrentInv, ReadNextInv, ReadNothingInv DEF ReaderStep, PollRead
<1>2. CASE UNCHANGED vars
  <2>1. Order'
    BY <1>2, ReaderKept DEF IInv, Order, vars, reader
  <2> QED  BY <1>2, <2>1 DEF IInv, TypeOK, Closing, vars
<1> QED  BY <1>1, <1>2, WriteInv, OtherInv, DropInv, FlushInv DEF Next, Finished

LEMMA InvHolds == Spec => []IInv
BY InitInv, NextInv, PTL DEF Spec

\* Every variable keeps its type; what is buffered stays within
\* max_write_buffer_size.
THEOREM TypeCorrect == Spec => []TypeOK
<1>1. IInv => TypeOK
  BY DEF IInv
<1> QED  BY <1>1, InvHolds, PTL

\* RwStreamSink over messages is a byte stream: poll_read returns the bytes given
\* to poll_write in order and without gaps, and the end only when all are read.
THEOREM ImplementsStream == Spec => StreamSpec
<1>1. Init => Stream!Init
  BY DEF Init, Stream!Init
<1>2. ASSUME IInv, [Next]_vars  PROVE  [Stream!Next]_Stream!vars
  <2> USE DEF Stream!vars
  <2>1. CASE \E n \in 0..MaxWrite : PollWrite(n)
    <3>1. PICK n \in 0..MaxWrite : PollWrite(n)
      BY <2>1
    <3>2. n \in 0..(MaxWrite + MaxRead)
      BY WsAssumption
    <3>3. Stream!Write(n)
      BY <1>2, <3>1 DEF IInv, Closing, PollWrite, Stream!Write, reader
    <3> QED  BY <3>2, <3>3 DEF Stream!Next
  <2>2. CASE SendOther \/ PollFlush \/ PollClose \/ DropWriter
    BY <2>2 DEF SendOther, PollFlush, PollClose, DropWriter, reader
  <2>3. CASE ReaderStep
    BY <1>2, <2>3, ReadCurrentInv, ReadNextInv, ReadNothingInv
       DEF ReaderStep, PollRead, StreamStep
  <2>4. CASE Finished \/ UNCHANGED vars
    BY <2>4 DEF Finished, vars
  <2> QED  BY <1>2, <2>1, <2>2, <2>3, <2>4 DEF Next
<1> QED  BY <1>1, <1>2, InvHolds, PTL DEF Spec, StreamSpec, Stream!Spec
=============================================================================
