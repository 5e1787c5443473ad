------------------------- MODULE LengthDelimitedProofs -------------------------
(***************************************************************************)
(* Proofs about LengthDelimited for every radix, size of frames, capacity  *)
(* of the transport, and every way in which reads and writes are cut, if   *)
(* headers are only cut after one byte (types need not even that): the     *)
(* reader is where the frames it has delivered end, so that what it takes  *)
(* for a header is one.                                                    *)
(***************************************************************************)
EXTENDS LengthDelimited, SequenceTheorems, TLAPS

-----------------------------------------------------------------------------
(* Headers. *)

LEMMA Division ==
  ASSUME NEW n \in Nat
  PROVE  /\ n \div Radix \in Nat /\ n % Radix \in Byte
         /\ n = (n \div Radix) * Radix + (n % Radix)
BY FramingAssumption DEF Byte

LEMMA DivisionLess ==
  ASSUME NEW n \in Nat, NEW m \in Nat, n < m * Radix
  PROVE  n \div Radix < m
<1> DEFINE q == n \div Radix
<1>1. q \in Nat /\ n % Radix \in Byte /\ n = q * Radix + (n % Radix)
  BY Division
<1>2. Radix \in Nat /\ n % Radix \in Nat
  BY <1>1, FramingAssumption DEF Byte
<1> HIDE DEF q
<1>3. SUFFICES ASSUME m <= q PROVE FALSE
  BY <1>1 DEF q
<1>4. m * Radix <= q * Radix
  BY <1>1, <1>2, <1>3
<1>5. m * Radix \in Nat /\ q * Radix \in Nat
  BY <1>1, <1>2
<1> QED  BY <1>1, <1>2, <1>4, <1>5

LEMMA DigitLess ==
  ASSUME NEW h \in Nat, NEW d \in Byte, NEW m \in Nat, h < m
  PROVE  h * Radix + d \in Nat /\ h * Radix + d < m * Radix
<1>1. Radix \in Nat /\ d \in Nat /\ d < Radix /\ h + 1 <= m
  BY FramingAssumption DEF Byte
<1>2. (h + 1) * Radix <= m * Radix /\ (h + 1) * Radix = h * Radix + Radix
  BY <1>1
<1>3. h * Radix \in Nat /\ m * Radix \in Nat
  BY <1>1
<1> QED  BY <1>1, <1>2, <1>3

LEMMA HeaderType ==
  ASSUME NEW n \in Nat
  PROVE  Header(n) \in Seq(Byte) /\ Len(Header(n)) = HeaderSize
<1> DEFINE a == n \div Radix
           b == a \div Radix
           c == b \div Radix
<1>1. a \in Nat /\ n % Radix \in Byte
  BY Division
<1> HIDE DEF a
<1>2. b \in Nat /\ a % Radix \in Byte
  BY <1>1, Division
<1> HIDE DEF b
<1>3. c \in Nat /\ b % Radix \in Byte
  BY <1>2, Division
<1> HIDE DEF c
<1>4. c % Radix \in Byte
  BY <1>3, Division
<1>5. Header(n) = <<c % Radix, b % Radix, a % Radix, n % Radix>>
  BY DEF Header, a, b, c
<1> QED  BY <1>1, <1>2, <1>3, <1>4, <1>5 DEF HeaderSize

\* The reader finds the length that the writer has put there.
LEMMA LengthOfHeader ==
  ASSUME NEW n \in Lengths, NEW h, \A i \in 1..HeaderSize : h[i] = Header(n)[i]
  PROVE  Length(h) = n
<1> DEFINE a == n \div Radix
           b == a \div Radix
           c == b \div Radix
<1>1. n \in Nat /\ Radix \in Nat /\ n < ((Radix * Radix) * Radix) * Radix
  BY FramingAssumption DEF Lengths
<1>2. Radix * Radix \in Nat /\ (Radix * Radix) * Radix \in Nat
  BY <1>1
<1>3. a \in Nat /\ n = a * Radix + (n % Radix) /\ a < (Radix * Radix) * Radix
  BY <1>1, <1>2, Division, DivisionLess
<1>4. Header(n) = <<c % Radix, b % Radix, a % Radix, n % Radix>>
  BY DEF Header
<1> HIDE DEF a
<1>5. b \in Nat /\ a = b * Radix + (a % Radix) /\ b < Radix * Radix
  BY <1>2, <1>3, Division, DivisionLess
<1> HIDE DEF b
<1>6. c \in Nat /\ b = c * Radix + (b % Radix) /\ c < Radix
  BY <1>1, <1>5, Division, DivisionLess
<1> HIDE DEF c
<1>7. c % Radix = c
  BY <1>1, <1>6, FramingAssumption
<1>8. h[1] = c /\ h[2] = b % Radix /\ h[3] = a % Radix /\ h[4] = n % Radix
  <2>1. 1 \in 1..HeaderSize /\ 2 \in 1..HeaderSize /\ 3 \in 1..HeaderSize /\ 4 \in 1..HeaderSize
    BY DEF HeaderSize
  <2> QED  BY <1>4, <1>7, <2>1
<1> QED  BY <1>3, <1>5, <1>6, <1>8 DEF Length

\* Any four bytes are a length.
LEMMA LengthType ==
  ASSUME NEW h \in [1..HeaderSize -> Byte]
  PROVE  Length(h) \in Lengths
<1> DEFINE c == h[1]
           b == c * Radix + h[2]
           a == b * Radix + h[3]
           n == a * Radix + h[4]
<1>1. h[1] \in Byte /\ h[2] \in Byte /\ h[3] \in Byte /\ h[4] \in Byte
  BY DEF HeaderSize
<1>2. Radix \in Nat /\ c \in Nat /\ c < Radix /\ Radix * Radix \in Nat
      /\ (Radix * Radix) * Radix \in Nat /\ ((Radix * Radix) * Radix) * Radix \in Nat
  BY <1>1, FramingAssumption DEF Byte
<1> HIDE DEF c
<1>3. b \in Nat /\ b < Radix * Radix
  BY <1>1, <1>2, DigitLess
<1> HIDE DEF b
<1>4. a \in Nat /\ a < (Radix * Radix) * Radix
  BY <1>1, <1>2, <1>3, DigitLess
<1> HIDE DEF a
<1>5. n \in Nat /\ n < ((Radix * Radix) * Radix) * Radix
  BY <1>1, <1>2, <1>4, DigitLess
<1>6. Length(h) = n
  BY DEF Length, a, b, c
<1> HIDE DEF n
<1> QED  BY <1>2, <1>5, <1>6 DEF Lengths

-----------------------------------------------------------------------------
(* Types. *)

LEMMA Cut ==
  ASSUME NEW T, NEW s \in Seq(T), NEW n \in 1..Len(s)
  PROVE  /\ SubSeq(s, 1, n) \in Seq(T) /\ Len(SubSeq(s, 1, n)) = n
         /\ \A i \in 1..n : SubSeq(s, 1, n)[i] = s[i]
         /\ SubSeq(s, n + 1, Len(s)) \in Seq(T)
         /\ Len(SubSeq(s, n + 1, Len(s))) = Len(s) - n
         /\ \A i \in 1..(Len(s) - n) : SubSeq(s, n + 1, Len(s))[i] = s[n + i]
<1> DEFINE k == Len(s)
<1>1. k \in Nat /\ n \in 1..k /\ n \in Int /\ k \in Int /\ n + 1 \in Int
  BY LenProperties
<1>2. \A i \in 1..k : s[i] \in T
  BY ElementOfSeq
<1> HIDE DEF k
<1>3. (\A i \in 1..n : s[i] \in T) /\ (\A i \in (n + 1)..k : s[i] \in T)
  BY <1>1, <1>2
<1>4. /\ SubSeq(s, 1, n) \in Seq(T) /\ Len(SubSeq(s, 1, n)) = n
      /\ \A i \in 1..n : SubSeq(s, 1, n)[i] = s[i]
  <2> DEFINE p == SubSeq(s, 1, n)
  <2>1. /\ p \in Seq(T) /\ Len(p) = IF 1 <= n THEN n - 1 + 1 ELSE 0
        /\ \A i \in 1..(n - 1 + 1) : p[i] = s[1 + i - 1]
    BY <1>1, <1>3, SubSeqProperties
  <2> HIDE DEF p
  <2>2. n - 1 + 1 = n /\ 1 <= n /\ \A i \in 1..n : 1 + i - 1 = i
    BY <1>1
  <2>3. p \in Seq(T) /\ Len(p) = n /\ \A i \in 1..n : p[i] = s[i]
    BY <2>1, <2>2
  <2> QED  BY <2>3 DEF p
<1>5. /\ SubSeq(s, n + 1, k) \in Seq(T) /\ Len(SubSeq(s, n + 1, k)) = k - n
      /\ \A i \in 1..(k - n) : SubSeq(s, n + 1, k)[i] = s[n + i]
  <2> DEFINE p == SubSeq(s, n + 1, k)
  <2>1. /\ p \in Seq(T) /\ Len(p) = IF n + 1 <= k THEN k - (n + 1) + 1 ELSE 0
        /\ \A i \in 1..(k - (n + 1) + 1) : p[i] = s[(n + 1) + i - 1]
    BY <1>1, <1>3, SubSeqProperties
  <2> HIDE DEF p
  <2>2. /\ k - (n + 1) + 1 = k - n /\ (n + 1 <= k \/ k - n = 0)
        /\ \A i \in 1..(k - n) : (n + 1) + i - 1 = n + i
    BY <1>1
  <2>3. Len(p) = k - n
    BY <2>1, <2>2
  <2>4. \A i \in 1..(k - n) : p[i] = s[n + i]
    BY <2>1, <2>2
  <2> QED  BY <2>1, <2>3, <2>4 DEF p
<1> QED  BY <1>4, <1>5 DEF k

LEMMA InitType == Init => TypeOK
<1> SUFFICES ASSUME Init PROVE TypeOK
  OBVIOUS
<1>1. /\ <<>> \in Seq(Byte) /\ <<>> \in Seq(Payloads) /\ <<>> \in Seq(Seq(Byte))
      /\ Len(<<>>) = 0
  BY EmptySeq
<1>2. 0 \in Byte
  BY FramingAssumption DEF Byte
<1>3. ReadLength \in [kind : {"ReadLength"}, buf : [1..HeaderSize -> Byte], pos : 0..1]
  BY <1>2 DEF ReadLength
<1> QED  BY <1>1, <1>3 DEF Init, TypeOK

LEMMA SendFrameType ==
  ASSUME TypeOK, SendFrame
  PROVE  TypeOK'
<1>1. PICK f \in Payloads :
        /\ writeBuffer' = writeBuffer \o Header(Len(f)) \o f
        /\ sent' = Append(sent, f)
  BY DEF SendFrame
<1>2. f \in Seq(Byte) /\ Len(f) \in Nat
  BY LenProperties, FramingAssumption
<1>3. Header(Len(f)) \in Seq(Byte)
  BY <1>2, HeaderType
<1>4. writeBuffer \o Header(Len(f)) \in Seq(Byte)
  BY <1>3, ConcatProperties DEF TypeOK
<1>5. writeBuffer' \in Seq(Byte)
  BY <1>1, <1>2, <1>4, ConcatProperties
<1>6. sent' \in Seq(Payloads)
  BY <1>1, AppendProperties DEF TypeOK
<1> QED  BY <1>5, <1>6 DEF SendFrame, TypeOK, reader

LEMMA WriterType ==
  ASSUME TypeOK, Drain \/ RawWrite \/ Close \/ DropWriter
  PROVE  TypeOK'
<1>1. CASE Drain
  <2>1. PICK n \in 1..Len(writeBuffer) :
          /\ wire' = wire \o SubSeq(writeBuffer, 1, n)
          /\ writeBuffer' = SubSeq(writeBuffer, n + 1, Len(writeBuffer))
    BY <1>1 DEF Drain
  <2>2. /\ SubSeq(writeBuffer, 1, n) \in Seq(Byte)
        /\ SubSeq(writeBuffer, n + 1, Len(writeBuffer)) \in Seq(Byte)
    BY Cut DEF TypeOK
  <2>3. wire' \in Seq(Byte) /\ writeBuffer' \in Seq(Byte)
    BY <2>1, <2>2, ConcatProperties DEF TypeOK
  <2> QED  BY <1>1, <2>3 DEF Drain, TypeOK, reader
<1>2. CASE RawWrite
  <2>1. wire' \in Seq(Byte) /\ rawSent' \in Seq(Byte)
    BY <1>2, AppendProperties DEF RawWrite, TypeOK
  <2> QED  BY <1>2, <2>1 DEF RawWrite, TypeOK, reader
<1>3. CASE Close \/ DropWriter
  <2>1. <<>> \in Seq(Byte)
    BY EmptySeq
  <2> QED  BY <1>3, <2>1 DEF Close, DropWriter, TypeOK, reader
<1> QED  BY <1>1, <1>2, <1>3

LEMMA ReadLengthType ==
    ReadLength \in [kind : {"ReadLength"}, buf : [1..HeaderSize -> Byte], pos : 0..1]
<1>1. 0 \in Byte
  BY FramingAssumption DEF Byte
<1> QED  BY <1>1 DEF ReadLength

\* A step of the reader keeps these.
LEMMA ReaderType ==
  ASSUME TypeOK, UNCHANGED <<writer, end, handedOff, rawReceived>>, wire' \in Seq(Byte),
         delivered' \in Seq(Seq(Byte)), readBuffer' \in Seq(Byte),
         \/ /\ readState' \in [kind : {"ReadLength"}, buf : [1..HeaderSize -> Byte], pos : 0..1]
            /\ readBuffer' = <<>>
         \/ /\ readState' \in [kind : {"ReadData"}, len : Lengths \ {0}, pos : Nat]
            /\ readState'.pos < readState'.len /\ Len(readBuffer') = readState'.len
  PROVE  TypeOK'
BY DEF TypeOK, writer

\* The bytes of a buffer behind the first `pos' are read.
Filled(b, pos, n, size) ==
    [i \in 1..size |-> IF i \in (pos + 1)..(pos + n) THEN wire[i - pos] ELSE b[i]]

LEMMA FilledType ==
  ASSUME TypeOK, NEW size \in Nat, NEW b \in [1..size -> Byte], NEW pos \in Nat,
         NEW n \in 1..Len(wire)
  PROVE  /\ Filled(b, pos, n, size) \in [1..size -> Byte]
         /\ Filled(b, pos, n, size) \in Seq(Byte) /\ Len(Filled(b, pos, n, size)) = size
         /\ \A i \in 1..size :
              Filled(b, pos, n, size)[i] =
                IF i \in (pos + 1)..(pos + n) THEN wire[i - pos] ELSE b[i]
<1>1. Len(wire) \in Nat /\ \A i \in 1..Len(wire) : wire[i] \in Byte
  BY LenProperties, ElementOfSeq DEF TypeOK
<1>2. ASSUME NEW i \in 1..size
      PROVE  (IF i \in (pos + 1)..(pos + n) THEN wire[i - pos] ELSE b[i]) \in Byte
  <2>1. CASE i \in (pos + 1)..(pos + n)
    <3>1. i - pos \in 1..Len(wire)
      BY <1>1, <2>1
    <3> QED  BY <1>1, <2>1, <3>1
  <2> QED  BY <2>1
<1>3. Filled(b, pos, n, size) \in [1..size -> Byte]
  BY <1>2 DEF Filled
<1>4. Filled(b, pos, n, size) \in Seq(Byte) /\ Len(Filled(b, pos, n, size)) = size
  BY <1>3
<1> QED  BY <1>3, <1>4 DEF Filled

LEMMA ReadHeaderType ==
  ASSUME TypeOK, ReadHeader
  PROVE  TypeOK'
<1>1. readState \in [kind : {"ReadLength"}, buf : [1..HeaderSize -> Byte], pos : 0..1]
      /\ readBuffer = <<>>
  BY DEF ReadHeader, TypeOK
<1> DEFINE p == readState.pos
           b == readState.buf
<1>2. b \in [1..HeaderSize -> Byte] /\ p \in 0..1 /\ p \in Nat /\ HeaderSize \in Nat
  BY <1>1 DEF HeaderSize
<1>3. PICK n \in 1..Len(wire) :
        LET buf == Filled(b, p, n, HeaderSize)
            len == Length(buf)
        IN /\ p + n \in HeaderCuts \cup {HeaderSize}
           /\ wire' = SubSeq(wire, n + 1, Len(wire))
           /\ \/ /\ p + n <= 1
                 /\ readState' = [readState EXCEPT !.buf = buf, !.pos = p + n]
                 /\ UNCHANGED <<readBuffer, delivered>>
              \/ /\ p + n > 1 /\ len >= 1
                 /\ readState' = [kind |-> "ReadData", len |-> len, pos |-> 0]
                 /\ readBuffer' = [i \in 1..len |-> 0]
                 /\ UNCHANGED delivered
              \/ /\ p + n > 1 /\ len = 0
                 /\ readState' = ReadLength
                 /\ delivered' = Append(delivered, <<>>)
                 /\ UNCHANGED readBuffer
  BY DEF ReadHeader, Filled
<1> DEFINE buf == Filled(b, p, n, HeaderSize)
           len == Length(buf)
<1>4. buf \in [1..HeaderSize -> Byte]
  BY <1>2, FilledType
<1>5. len \in Lengths
  BY <1>4, LengthType
<1>6. wire' \in Seq(Byte) /\ n \in Nat /\ n # 0
  <2>1. wire \in Seq(Byte) /\ Len(wire) \in Nat
    BY LenProperties DEF TypeOK
  <2>2. SubSeq(wire, n + 1, Len(wire)) \in Seq(Byte)
    BY <2>1, Cut
  <2> QED  BY <1>3, <2>1, <2>2
<1>7. UNCHANGED <<writer, end, handedOff, rawReceived>>
  BY DEF ReadHeader
<1> HIDE DEF len
<1>8. CASE p + n <= 1 /\ readState' = [readState EXCEPT !.buf = buf, !.pos = p + n]
           /\ UNCHANGED <<readBuffer, delivered>>
  <2>1. p + n \in 0..1
    BY <1>2, <1>6, <1>8
  <2> HIDE DEF buf, p
  <2>2. readState' \in [kind : {"ReadLength"}, buf : [1..HeaderSize -> Byte], pos : 0..1]
    BY <1>1, <1>4, <1>8, <2>1
  <2> QED  BY <1>1, <1>6, <1>7, <1>8, <2>2, ReaderType DEF TypeOK
<1>9. CASE len >= 1 /\ readState' = [kind |-> "ReadData", len |-> len, pos |-> 0]
           /\ readBuffer' = [i \in 1..len |-> 0] /\ UNCHANGED delivered
  <2>1. len \in Lengths \ {0} /\ len \in Nat /\ 0 < len
    BY <1>5, <1>9, FramingAssumption DEF Lengths
  <2>2. readBuffer' \in Seq(Byte) /\ Len(readBuffer') = len
    <3>1. 0 \in Byte
      BY FramingAssumption DEF Byte
    <3> QED  BY <1>9, <2>1, <3>1
  <2>3. readState' \in [kind : {"ReadData"}, len : Lengths \ {0}, pos : Nat]
        /\ readState'.pos < readState'.len /\ Len(readBuffer') = readState'.len
    BY <1>9, <2>1, <2>2
  <2> QED  BY <1>6, <1>7, <1>9, <2>2, <2>3, ReaderType DEF TypeOK
<1>10. CASE readState' = ReadLength /\ delivered' = Append(delivered, <<>>)
            /\ UNCHANGED readBuffer
  <2>1. delivered' \in Seq(Seq(Byte))
    BY <1>10, EmptySeq, AppendProperties DEF TypeOK
  <2> QED  BY <1>1, <1>6, <1>7, <1>10, <2>1, ReadLengthType, ReaderType DEF TypeOK
<1> QED  BY <1>3, <1>8, <1>9, <1>10 DEF len

LEMMA ReadDataType ==
  ASSUME TypeOK, ReadData
  PROVE  TypeOK'
<1>1. /\ readState \in [kind : {"ReadData"}, len : Lengths \ {0}, pos : Nat]
      /\ readState.pos < readState.len /\ Len(readBuffer) = readState.len
      /\ readBuffer \in Seq(Byte)
  BY DEF ReadData, TypeOK
<1> DEFINE p == readState.pos
           l == readState.len
<1>2. p \in Nat /\ l \in Nat /\ l \in Lengths \ {0} /\ readBuffer \in [1..l -> Byte]
  <2>1. p \in Nat /\ l \in Lengths \ {0}
    BY <1>1
  <2>2. readBuffer \in [1..Len(readBuffer) -> Byte]
    BY <1>1, LenProperties
  <2> QED  BY <1>1, <2>1, <2>2, FramingAssumption DEF Lengths
<1>3. PICK n \in 1..Len(wire) :
        LET filled == Filled(readBuffer, p, n, l)
        IN /\ p + n <= l
           /\ wire' = SubSeq(wire, n + 1, Len(wire))
           /\ \/ /\ p + n < l
                 /\ readState' = [readState EXCEPT !.pos = p + n]
                 /\ readBuffer' = filled
                 /\ UNCHANGED delivered
              \/ /\ p + n = l
                 /\ readState' = ReadLength
                 /\ readBuffer' = <<>>
                 /\ delivered' = Append(delivered, filled)
  BY DEF ReadData, Filled
<1> DEFINE filled == Filled(readBuffer, p, n, l)
<1>4. filled \in Seq(Byte) /\ Len(filled) = l
  BY <1>2, FilledType
<1>5. wire' \in Seq(Byte) /\ n \in Nat
  <2>1. wire \in Seq(Byte) /\ Len(wire) \in Nat
    BY LenProperties DEF TypeOK
  <2>2. SubSeq(wire, n + 1, Len(wire)) \in Seq(Byte)
    BY <2>1, Cut
  <2> QED  BY <1>3, <2>1, <2>2
<1>6. UNCHANGED <<writer, end, handedOff, rawReceived>>
  BY DEF ReadData
<1>7. CASE p + n < l /\ readState' = [readState EXCEPT !.pos = p + n]
           /\ readBuffer' = filled /\ UNCHANGED delivered
  <2>1. p + n \in Nat
    BY <1>2, <1>5
  <2> HIDE DEF filled
  <2>2. /\ readState' \in [kind : {"ReadData"}, len : Lengths \ {0}, pos : Nat]
        /\ readState'.pos = p + n /\ readState'.len = l
    BY <1>1, <1>7, <2>1
  <2> QED  BY <1>4, <1>5, <1>6, <1>7, <2>2, ReaderType DEF TypeOK
<1>8. CASE readState' = ReadLength /\ readBuffer' = <<>>
           /\ delivered' = Append(delivered, filled)
  <2>1. delivered' \in Seq(Seq(Byte)) /\ <<>> \in Seq(Byte)
    BY <1>4, <1>8, EmptySeq, AppendProperties DEF TypeOK
  <2> QED  BY <1>5, <1>6, <1>8, <2>1, ReadLengthType, ReaderType
<1> QED  BY <1>3, <1>7, <1>8

LEMMA EndType ==
  ASSUME TypeOK, ReadEOF \/ IntoInner \/ RawRead
  PROVE  TypeOK'
<1>1. CASE ReadEOF \/ IntoInner
  BY <1>1 DEF ReadEOF, IntoInner, TypeOK, writer
<1>2. CASE RawRead
  <2>1. wire' \in Seq(Byte) /\ rawReceived' \in Seq(Byte)
    BY <1>2, HeadTailProperties, AppendProperties DEF RawRead, TypeOK
  <2> QED  BY <1>2, <2>1 DEF RawRead, TypeOK, writer
<1> QED  BY <1>1, <1>2

LEMMA NextType == TypeOK /\ [Next]_vars => TypeOK'
<1> SUFFICES ASSUME TypeOK, [Next]_vars PROVE TypeOK'
  OBVIOUS
<1>1. CASE UNCHANGED vars
  BY <1>1 DEF TypeOK, vars
<1> QED  BY <1>1, SendFrameType, WriterType, ReadHeaderType, ReadDataType, EndType
         DEF Next, ReaderStep, Finished

\* Every variable keeps its type, wherever headers are cut: the reader's buffer
\* is as long as the length it has parsed, and its cursor inside.
THEOREM TypeCorrect == Spec => []TypeOK
BY InitType, NextType, PTL DEF Spec

-----------------------------------------------------------------------------
(* What the writer has put on the stream. *)

\* The bytes S are the frames, of which the i-th ends at at[i], and then `raw'.
Layout(S, at, frames, raw) ==
    /\ S \in Seq(Byte) /\ at \in [0..Len(frames) -> Nat] /\ at[0] = 0
    /\ \A i \in 1..Len(frames) :
         /\ at[i] = at[i - 1] + HeaderSize + Len(frames[i])
         /\ \A j \in 1..HeaderSize : S[at[i - 1] + j] = Header(Len(frames[i]))[j]
         /\ \A j \in 1..Len(frames[i]) : S[at[i - 1] + HeaderSize + j] = frames[i][j]
    /\ \A i, j \in 0..Len(frames) : i < j => at[i] + HeaderSize <= at[j]
    /\ Len(S) = at[Len(frames)] + Len(raw)
    /\ \A j \in 1..Len(raw) : S[at[Len(frames)] + j] = raw[j]

\* A frame at the end of a buffer.
LEMMA Extend ==
  ASSUME NEW s \in Seq(Byte), NEW h \in Seq(Byte), NEW f \in Seq(Byte)
  PROVE  LET e == s \o h \o f
         IN /\ e \in Seq(Byte) /\ Len(e) = Len(s) + Len(h) + Len(f)
            /\ \A i \in 1..Len(s) : e[i] = s[i]
            /\ \A i \in 1..Len(h) : e[Len(s) + i] = h[i]
            /\ \A i \in 1..Len(f) : e[Len(s) + Len(h) + i] = f[i]
<1> DEFINE sh == s \o h
           e == sh \o f
<1>1. Len(s) \in Nat /\ Len(h) \in Nat /\ Len(f) \in Nat
  BY LenProperties
<1>2. /\ sh \in Seq(Byte) /\ Len(sh) = Len(s) + Len(h)
      /\ \A i \in 1..(Len(s) + Len(h)) : sh[i] = IF i <= Len(s) THEN s[i] ELSE h[i - Len(s)]
  BY ConcatProperties
<1> HIDE DEF sh
<1>3. /\ e \in Seq(Byte) /\ Len(e) = Len(sh) + Len(f)
      /\ \A i \in 1..(Len(sh) + Len(f)) : e[i] = IF i <= Len(sh) THEN sh[i] ELSE f[i - Len(sh)]
  <2>1. sh \in Seq(Byte)
    BY <1>2
  <2> QED  BY ONLY <2>1, f \in Seq(Byte), ConcatProperties
<1> HIDE DEF e
<1>4. ASSUME NEW i \in 1..(Len(s) + Len(h))  PROVE  e[i] = sh[i]
  BY <1>1, <1>2, <1>3
<1>5. ASSUME NEW i \in 1..Len(s)  PROVE  e[i] = s[i]
  <2>1. i \in 1..(Len(s) + Len(h)) /\ i <= Len(s)
    BY <1>1
  <2> QED  BY <1>2, <1>4, <2>1
<1>6. ASSUME NEW i \in 1..Len(h)  PROVE  e[Len(s) + i] = h[i]
  <2> DEFINE j == Len(s) + i
  <2>1. j \in 1..(Len(s) + Len(h)) /\ ~(j <= Len(s)) /\ j - Len(s) = i
    BY <1>1
  <2> HIDE DEF j
  <2>2. e[j] = h[i]
    BY <1>2, <1>4, <2>1
  <2> QED  BY <2>2 DEF j
<1>7. ASSUME NEW i \in 1..Len(f)  PROVE  e[Len(s) + Len(h) + i] = f[i]
  <2> DEFINE j == Len(s) + Len(h) + i
  <2>1. j \in 1..(Len(sh) + Len(f)) /\ ~(j <= Len(sh)) /\ j - Len(sh) = i
    BY <1>1, <1>2
  <2> HIDE DEF j
  <2>2. e[j] = f[i]
    BY <1>3, <2>1
  <2> QED  BY <2>2 DEF j
<1> QED  BY <1>2, <1>3, <1>5, <1>6, <1>7 DEF e, sh

\* Where frames begin and end.
LEMMA LayoutBounds ==
  ASSUME NEW S, NEW at, NEW frames \in Seq(Payloads), NEW raw \in Seq(Byte),
         Layout(S, at, frames, raw)
  PROVE  /\ Len(frames) \in Nat /\ Len(raw) \in Nat /\ Len(S) \in Nat
         /\ \A i \in 0..Len(frames) : at[i] \in Nat /\ at[i] <= Len(S) - Len(raw)
         /\ \A i \in 1..Len(frames) : Len(frames[i]) \in Nat
<1>1. Len(frames) \in Nat /\ Len(raw) \in Nat /\ Len(S) \in Nat
  BY LenProperties DEF Layout
<1>2. ASSUME NEW i \in 0..Len(frames)
      PROVE  at[i] \in Nat /\ at[i] <= Len(S) - Len(raw)
  <2>1. at[i] \in Nat /\ at[Len(frames)] \in Nat /\ Len(frames) \in 0..Len(frames)
    <3>1. at \in [0..Len(frames) -> Nat] /\ Len(frames) \in 0..Len(frames)
      BY <1>1 DEF Layout
    <3> QED  BY <3>1
  <2>2. Len(S) = at[Len(frames)] + Len(raw)
    BY DEF Layout
  <2>3. i = Len(frames) \/ (i < Len(frames) /\ at[i] + HeaderSize <= at[Len(frames)])
    <3>1. \A j, l \in 0..Len(frames) : j < l => at[j] + HeaderSize <= at[l]
      BY DEF Layout
    <3>2. i = Len(frames) \/ i < Len(frames)
      BY <1>1
    <3> QED  BY <2>1, <3>1, <3>2
  <2> QED  BY <1>1, <2>1, <2>2, <2>3 DEF HeaderSize
<1>3. \A i \in 1..Len(frames) : frames[i] \in Seq(Byte)
  BY ElementOfSeq, FramingAssumption
<1> QED  BY <1>1, <1>2, <1>3, LenProperties

LEMMA LayoutFrame ==
  ASSUME NEW S, NEW at, NEW frames \in Seq(Payloads), NEW f \in Payloads,
         Layout(S, at, frames, <<>>)
  PROVE  LET more == Append(frames, f)
             end1 == S \o Header(Len(f)) \o f
         IN \E to : /\ Layout(end1, to, more, <<>>)
                    /\ \A i \in 0..Len(frames) : to[i] = at[i]
<1> DEFINE k == Len(frames)
           n == Len(f)
           more == Append(frames, f)
           E == S \o Header(n) \o f
           last == at[k] + HeaderSize + n
           to == [i \in 0..(k + 1) |-> IF i = k + 1 THEN last ELSE at[i]]
<1>1. f \in Seq(Byte) /\ n \in Nat /\ Header(n) \in Seq(Byte) /\ Len(Header(n)) = HeaderSize
  BY FramingAssumption, LenProperties, HeaderType
<1>2. /\ k \in Nat /\ Len(<<>>) = 0 /\ Len(S) = at[k] /\ S \in Seq(Byte) /\ at[k] \in Nat
      /\ at \in [0..k -> Nat] /\ at[0] = 0
      /\ \A i \in 0..k : at[i] \in Nat /\ at[i] <= at[k]
      /\ \A i \in 1..k : Len(frames[i]) \in Nat
  <2>1. /\ k \in Nat /\ Len(S) \in Nat /\ \A i \in 1..k : Len(frames[i]) \in Nat
        /\ \A i \in 0..k : at[i] \in Nat /\ at[i] <= Len(S) - Len(<<>>)
    BY LayoutBounds, EmptySeq
  <2>2. Len(S) = at[k] + Len(<<>>) /\ Len(<<>>) = 0
    BY EmptySeq DEF Layout
  <2>3. k \in 0..k
    BY <2>1
  <2>4. Len(S) = at[k]
    BY <2>1, <2>2, <2>3
  <2> QED  BY <2>1, <2>2, <2>3, <2>4 DEF Layout
<1>3. /\ E \in Seq(Byte) /\ Len(E) = at[k] + HeaderSize + n
      /\ \A i \in 1..at[k] : E[i] = S[i]
      /\ \A i \in 1..HeaderSize : E[at[k] + i] = Header(n)[i]
      /\ \A i \in 1..n : E[at[k] + HeaderSize + i] = f[i]
  <2> DEFINE h == Header(n)
  <2>1. h \in Seq(Byte) /\ Len(h) = HeaderSize
    BY <1>1
  <2> HIDE DEF h, n
  <2>2. /\ S \o h \o f \in Seq(Byte) /\ Len(S \o h \o f) = Len(S) + Len(h) + Len(f)
        /\ \A i \in 1..Len(S) : (S \o h \o f)[i] = S[i]
        /\ \A i \in 1..Len(h) : (S \o h \o f)[Len(S) + i] = h[i]
        /\ \A i \in 1..Len(f) : (S \o h \o f)[Len(S) + Len(h) + i] = f[i]
    <3>1. S \in Seq(Byte) /\ f \in Seq(Byte)
      BY <1>1, <1>2
    <3> QED  BY ONLY <2>1, <3>1, Extend
  <2> QED  BY <1>2, <2>1, <2>2 DEF h, n
<1>4. /\ Len(more) = k + 1 /\ more[k + 1] = f /\ \A i \in 1..k : more[i] = frames[i]
  BY AppendProperties
<1>5. /\ \A i \in 1..k :
           /\ at[i] = at[i - 1] + HeaderSize + Len(frames[i])
           /\ \A j \in 1..HeaderSize : S[at[i - 1] + j] = Header(Len(frames[i]))[j]
           /\ \A j \in 1..Len(frames[i]) : S[at[i - 1] + HeaderSize + j] = frames[i][j]
      /\ \A i, j \in 0..k : i < j => at[i] + HeaderSize <= at[j]
  BY DEF Layout
<1>6. /\ to \in [0..(k + 1) -> Nat] /\ to[k + 1] = last
      /\ \A i \in 0..k : to[i] = at[i]
  <2>1. last \in Nat
    BY <1>1, <1>2 DEF HeaderSize
  <2> HIDE DEF last
  <2> QED  BY <1>2, <2>1
<1>n. n = Len(f)
  OBVIOUS
<1> HIDE DEF k, n, more, E, to
<1>7. ASSUME NEW i \in 1..(k + 1)
      PROVE  /\ to[i] = to[i - 1] + HeaderSize + Len(more[i])
             /\ \A j \in 1..HeaderSize : E[to[i - 1] + j] = Header(Len(more[i]))[j]
             /\ \A j \in 1..Len(more[i]) : E[to[i - 1] + HeaderSize + j] = more[i][j]
  <2>1. CASE i = k + 1
    <3>1. i - 1 = k /\ k \in 0..k
      BY <1>2, <2>1
    <3> QED  BY <1>3, <1>4, <1>6, <1>n, <2>1, <3>1
  <2>2. CASE i # k + 1
    <3>1. i \in 1..k /\ i \in 0..k /\ i - 1 \in 0..k
      BY <1>2, <2>2
    <3>2. to[i] = at[i] /\ to[i - 1] = at[i - 1] /\ more[i] = frames[i]
      BY <1>4, <1>6, <3>1
    <3> DEFINE a == at[i - 1]
               m == Len(frames[i])
    <3>3. at[i] = a + HeaderSize + m /\ a \in Nat /\ m \in Nat /\ at[i] \in Nat
          /\ at[i] <= at[k]
      BY <1>2, <1>5, <3>1
    <3> HIDE DEF a, m
    <3>4. /\ \A j \in 1..HeaderSize : a + j \in 1..at[k]
          /\ \A j \in 1..m : a + HeaderSize + j \in 1..at[k]
      BY <1>2, <3>3 DEF HeaderSize
    <3>5. /\ \A j \in 1..HeaderSize : S[a + j] = Header(m)[j]
          /\ \A j \in 1..m : S[a + HeaderSize + j] = frames[i][j]
      BY <1>5, <3>1 DEF a, m
    <3>6. /\ \A j \in 1..HeaderSize : E[a + j] = Header(m)[j]
          /\ \A j \in 1..m : E[a + HeaderSize + j] = frames[i][j]
      BY <1>3, <3>4, <3>5
    <3> QED  BY <3>2, <3>3, <3>6 DEF a, m
  <2> QED  BY <2>1, <2>2
<1>8. ASSUME NEW i \in 0..(k + 1), NEW j \in 0..(k + 1), i < j
      PROVE  to[i] + HeaderSize <= to[j]
  <2>1. i \in 0..k /\ to[i] = at[i] /\ at[i] \in Nat /\ at[i] <= at[k]
    BY <1>2, <1>6, <1>8
  <2>2. CASE j = k + 1
    BY <1>1, <1>2, <1>6, <2>1, <2>2 DEF HeaderSize
  <2>3. CASE j # k + 1
    <3>1. j \in 0..k
      BY <1>2, <2>3
    <3> QED  BY <1>5, <1>6, <1>8, <2>1, <3>1
  <2> QED  BY <2>2, <2>3
<1>9. Len(E) = to[k + 1] + Len(<<>>) /\ to[0] = 0
  <2>1. 0 \in 0..k
    BY <1>2
  <2> QED  BY <1>1, <1>2, <1>3, <1>6, <2>1 DEF HeaderSize
<1>10. Layout(E, to, more, <<>>)
  BY <1>2, <1>3, <1>4, <1>6, <1>7, <1>8, <1>9 DEF Layout
<1> QED  BY <1>6, <1>10 DEF E, more, k, n

LEMMA LayoutRaw ==
  ASSUME NEW S, NEW at, NEW frames \in Seq(Payloads), NEW raw \in Seq(Byte), NEW b \in Byte,
         Layout(S, at, frames, raw)
  PROVE  Layout(Append(S, b), at, frames, Append(raw, b))
<1> DEFINE k == Len(frames)
           E == Append(S, b)
<1>1. /\ k \in Nat /\ Len(raw) \in Nat /\ Len(S) \in Nat
      /\ \A i \in 0..k : at[i] \in Nat /\ at[i] <= Len(S) - Len(raw)
      /\ \A i \in 1..k : Len(frames[i]) \in Nat
  BY LayoutBounds
<1>2. /\ S \in Seq(Byte) /\ at \in [0..k -> Nat] /\ at[0] = 0
      /\ \A i \in 1..k :
           /\ at[i] = at[i - 1] + HeaderSize + Len(frames[i])
           /\ \A j \in 1..HeaderSize : S[at[i - 1] + j] = Header(Len(frames[i]))[j]
           /\ \A j \in 1..Len(frames[i]) : S[at[i - 1] + HeaderSize + j] = frames[i][j]
      /\ \A i, j \in 0..k : i < j => at[i] + HeaderSize <= at[j]
      /\ Len(S) = at[k] + Len(raw) /\ \A j \in 1..Len(raw) : S[at[k] + j] = raw[j]
  BY DEF Layout
<1>3. /\ E \in Seq(Byte) /\ Len(E) = Len(S) + 1 /\ E[Len(S) + 1] = b
      /\ \A i \in 1..Len(S) : E[i] = S[i]
      /\ Append(raw, b) \in Seq(Byte) /\ Len(Append(raw, b)) = Len(raw) + 1
      /\ Append(raw, b)[Len(raw) + 1] = b
      /\ \A i \in 1..Len(raw) : Append(raw, b)[i] = raw[i]
  BY <1>2, AppendProperties
<1> HIDE DEF k, E
<1>4. ASSUME NEW i \in 1..k
      PROVE  /\ at[i] = at[i - 1] + HeaderSize + Len(frames[i])
             /\ \A j \in 1..HeaderSize : E[at[i - 1] + j] = Header(Len(frames[i]))[j]
             /\ \A j \in 1..Len(frames[i]) : E[at[i - 1] + HeaderSize + j] = frames[i][j]
  <2> DEFINE a == at[i - 1]
             m == Len(frames[i])
  <2>1. i \in 0..k /\ i - 1 \in 0..k
    BY <1>1
  <2>2. /\ at[i] = a + HeaderSize + m /\ a \in Nat /\ m \in Nat /\ at[i] \in Nat
        /\ at[i] <= Len(S)
    BY <1>1, <1>2, <2>1
  <2>3. /\ \A j \in 1..HeaderSize : S[a + j] = Header(m)[j]
        /\ \A j \in 1..m : S[a + HeaderSize + j] = frames[i][j]
    BY <1>2
  <2> HIDE DEF a, m
  <2>4. /\ \A j \in 1..HeaderSize : a + j \in 1..Len(S)
        /\ \A j \in 1..m : a + HeaderSize + j \in 1..Len(S)
    BY <1>1, <2>2 DEF HeaderSize
  <2>5. /\ \A j \in 1..HeaderSize : E[a + j] = Header(m)[j]
        /\ \A j \in 1..m : E[a + HeaderSize + j] = frames[i][j]
    BY <1>3, <2>3, <2>4
  <2> QED  BY <2>2, <2>5 DEF a, m
<1>5. ASSUME NEW j \in 1..(Len(raw) + 1)
      PROVE  E[at[k] + j] = Append(raw, b)[j]
  <2>1. k \in 0..k /\ at[k] \in Nat
    BY <1>1
  <2>2. CASE j = Len(raw) + 1
    <3>1. at[k] + j = Len(S) + 1
      BY <1>1, <1>2, <2>1, <2>2
    <3> QED  BY <1>3, <2>2, <3>1
  <2>3. CASE j # Len(raw) + 1
    <3>1. j \in 1..Len(raw) /\ at[k] + j \in 1..Len(S)
      <4>1. j \in Nat /\ 1 <= j /\ j <= Len(raw)
        BY <1>1, <2>3
      <4>2. Len(S) = at[k] + Len(raw)
        BY <1>2
      <4> QED  BY <1>1, <2>1, <4>1, <4>2
    <3> QED  BY <1>2, <1>3, <3>1
  <2> QED  BY <2>2, <2>3
<1>6. Len(E) = at[k] + Len(Append(raw, b))
  <2>1. k \in 0..k /\ at[k] \in Nat
    BY <1>1
  <2> QED  BY <1>1, <1>2, <1>3, <2>1
<1>7. Layout(E, at, frames, Append(raw, b))
  BY <1>2, <1>3, <1>4, <1>5, <1>6 DEF Layout, k
<1> QED  BY <1>7 DEF E

-----------------------------------------------------------------------------
(* The inductive invariant. *)

\* The reader has consumed c of the bytes S.  The next ones are on the wire and
\* in the write buffer, and no others unless dropping the writer has lost some.
Transit(S, c) ==
    /\ c \in Nat /\ c + Len(wire) + Len(writeBuffer) <= Len(S)
    /\ closed # "drop" \/ rawSent # <<>> =>
         c + Len(wire) + Len(writeBuffer) = Len(S)
    /\ \A i \in 1..Len(wire) : wire[i] = S[c + i]
    /\ \A i \in 1..Len(writeBuffer) : writeBuffer[i] = S[c + Len(wire) + i]

\* It is where the frames delivered end, or as far behind as its state says.
AtHeader(S, at, c) ==
    /\ readState.kind = "ReadLength"
    /\ c = at[Len(delivered)] + readState.pos + Len(rawReceived)
    /\ readState.pos = 0 => readState = ReadLength
    /\ readState.pos = 1 =>
         Len(delivered) < Len(sent) /\ readState.buf[1] = S[at[Len(delivered)] + 1]

InFrame(at, c) ==
    /\ readState.kind = "ReadData" /\ Len(delivered) < Len(sent)
    /\ c = at[Len(delivered)] + HeaderSize + readState.pos
    /\ readState.len = Len(sent[Len(delivered) + 1])
    /\ \A j \in 1..readState.pos : readBuffer[j] = sent[Len(delivered) + 1][j]

Place(S, at, c) == AtHeader(S, at, c) \/ InFrame(at, c)

WriterOrder ==
    /\ Len(sent) <= FrameCount
    /\ \A i \in 1..Len(sent) : Len(sent[i]) <= MaxFrame
    /\ rawSent # <<>> => Len(sent) = FrameCount /\ writeBuffer = <<>>
    /\ closed # "open" => writeBuffer = <<>>

ReaderOrder ==
    /\ end # "open" => closed # "open"
    /\ handedOff => Len(delivered) = FrameCount /\ readState = ReadLength
    /\ ~handedOff => rawReceived = <<>>
    /\ Len(rawReceived) <= Len(rawSent)
    /\ \A i \in 1..Len(rawReceived) : rawReceived[i] = rawSent[i]

Stream(S, at, c) == Layout(S, at, sent, rawSent) /\ Transit(S, c) /\ Place(S, at, c)

IInv ==
    /\ TypeOK /\ WriterOrder /\ ReaderOrder /\ FramesIntact /\ CleanEnd
    /\ \E S, at, c : Stream(S, at, c)

LEMMA InitInv == Init => IInv
<1> SUFFICES ASSUME Init PROVE IInv
  OBVIOUS
<1>1. /\ writeBuffer = <<>> /\ wire = <<>> /\ closed = "open" /\ readState = ReadLength
      /\ sent = <<>> /\ delivered = <<>> /\ rawSent = <<>> /\ rawReceived = <<>>
      /\ end = "open" /\ handedOff = FALSE
  BY DEF Init
<1>2. Len(<<>>) = 0 /\ <<>> \in Seq(Byte) /\ 1..0 = {} /\ 0..0 = {0} /\ 0 + 0 = 0
  BY EmptySeq
<1>3. Layout(<<>>, [i \in {0} |-> 0], sent, rawSent)
  <2> DEFINE at == [i \in {0} |-> 0]
  <2>1. at \in [{0} -> Nat] /\ at[0] = 0
    OBVIOUS
  <2> HIDE DEF at
  <2>2. \A i, j \in {0} : ~(i < j)
    OBVIOUS
  <2>3. Layout(<<>>, at, sent, rawSent)
    BY <1>1, <1>2, <2>1, <2>2 DEF Layout
  <2> QED  BY <2>3 DEF at
<1>4. Transit(<<>>, 0)
  BY <1>1, <1>2 DEF Transit
<1>5. Place(<<>>, [i \in {0} |-> 0], 0)
  <2>1. ReadLength.kind = "ReadLength" /\ ReadLength.pos = 0
    BY DEF ReadLength
  <2> QED  BY <1>1, <1>2, <2>1 DEF Place, AtHeader
<1>6. WriterOrder /\ ReaderOrder /\ FramesIntact /\ CleanEnd
  BY <1>1, <1>2, FramingAssumption DEF WriterOrder, ReaderOrder, FramesIntact, CleanEnd
<1> QED  BY <1>3, <1>4, <1>5, <1>6, InitType DEF IInv, Stream

LEMMA BufferLengths ==
  ASSUME TypeOK
  PROVE  /\ Len(wire) \in Nat /\ Len(writeBuffer) \in Nat /\ Len(sent) \in Nat
         /\ Len(delivered) \in Nat /\ Len(rawSent) \in Nat /\ Len(rawReceived) \in Nat
BY LenProperties DEF TypeOK

\* What holds of the reader as long as only the writer moves and does not close.
LEMMA ReaderKept ==
  ASSUME TypeOK, ReaderOrder, CleanEnd, UNCHANGED reader, closed = "open",
         \/ sent' = sent /\ rawSent' = rawSent
         \/ sent' = sent /\ \E b : rawSent' = Append(rawSent, b)
         \/ (\E f : sent' = Append(sent, f)) /\ rawSent' = rawSent
  PROVE  ReaderOrder' /\ CleanEnd'
<1>1. end' = "open" /\ end = "open"
  BY DEF ReaderOrder, reader
<1>2. CleanEnd'
  BY <1>1 DEF CleanEnd
<1>3. /\ Len(rawReceived) <= Len(rawSent')
      /\ \A i \in 1..Len(rawReceived) : rawReceived[i] = rawSent'[i]
  <2>1. CASE rawSent' = rawSent
    BY <2>1 DEF ReaderOrder
  <2>2. ASSUME NEW b, rawSent' = Append(rawSent, b)
        PROVE  /\ Len(rawReceived) <= Len(rawSent')
               /\ \A i \in 1..Len(rawReceived) : rawReceived[i] = rawSent'[i]
    <3>1. rawSent \in Seq(Byte \cup {b}) /\ b \in Byte \cup {b}
      BY SeqMonotonic DEF TypeOK
    <3>2. /\ Len(rawSent') = Len(rawSent) + 1
          /\ \A i \in 1..Len(rawSent) : rawSent'[i] = rawSent[i]
      BY <2>2, <3>1, AppendProperties
    <3> QED  BY <3>2, BufferLengths DEF ReaderOrder
  <2> QED  BY <2>1, <2>2
<1>4. ReaderOrder'
  BY <1>1, <1>3 DEF ReaderOrder, reader
<1> QED  BY <1>2, <1>4

LEMMA SendFrameInv ==
  ASSUME IInv, SendFrame
  PROVE  IInv'
<1>1. PICK S, at, c : Stream(S, at, c)
  BY DEF IInv
<1>2. PICK f \in Payloads :
        /\ Len(f) <= MaxFrame
        /\ writeBuffer' = writeBuffer \o Header(Len(f)) \o f
        /\ sent' = Append(sent, f)
  BY DEF SendFrame
<1>3. /\ closed = "open" /\ closed' = "open" /\ Len(sent) < FrameCount
      /\ UNCHANGED <<wire, rawSent, reader>>
  BY DEF SendFrame
<1>4. /\ TypeOK /\ TypeOK' /\ WriterOrder /\ ReaderOrder /\ FramesIntact /\ CleanEnd
      /\ sent \in Seq(Payloads)
  BY SendFrameType DEF IInv, TypeOK
<1>5. rawSent = <<>> /\ Len(sent) + 1 <= FrameCount /\ FrameCount \in Nat
  BY <1>3, <1>4, BufferLengths, FramingAssumption DEF WriterOrder
<1> DEFINE n == Len(f)
           h == Header(n)
           E == S \o h \o f
           W == writeBuffer \o h \o f
           k == Len(sent)
           w == Len(writeBuffer)
<1>6. f \in Seq(Byte) /\ n \in Nat /\ h \in Seq(Byte) /\ Len(h) = HeaderSize
  BY FramingAssumption, LenProperties, HeaderType
<1>7. /\ k \in Nat /\ w \in Nat /\ Len(wire) \in Nat /\ Len(delivered) \in Nat
      /\ S \in Seq(Byte) /\ Len(S) \in Nat
  BY <1>1, <1>4, BufferLengths, LenProperties DEF Stream, Layout
<1>8. PICK to : Layout(E, to, Append(sent, f), <<>>) /\ \A i \in 0..k : to[i] = at[i]
  BY <1>1, <1>4, <1>5, LayoutFrame DEF Stream
<1> HIDE DEF n, h
<1>9. /\ Len(E) = Len(S) + HeaderSize + n
      /\ \A i \in 1..Len(S) : E[i] = S[i]
      /\ \A i \in 1..HeaderSize : E[Len(S) + i] = h[i]
      /\ \A i \in 1..n : E[Len(S) + HeaderSize + i] = f[i]
  <2>1. S \in Seq(Byte)
    BY <1>7
  <2>2. /\ Len(S \o h \o f) = Len(S) + Len(h) + Len(f)
        /\ \A i \in 1..Len(S) : (S \o h \o f)[i] = S[i]
        /\ \A i \in 1..Len(h) : (S \o h \o f)[Len(S) + i] = h[i]
        /\ \A i \in 1..Len(f) : (S \o h \o f)[Len(S) + Len(h) + i] = f[i]
    <3>1. h \in Seq(Byte) /\ f \in Seq(Byte)
      BY <1>6
    <3> QED  BY ONLY <2>1, <3>1, Extend
  <2> QED  BY <1>6, <2>2 DEF n
<1>10. /\ Len(W) = w + HeaderSize + n
       /\ \A i \in 1..w : W[i] = writeBuffer[i]
       /\ \A i \in 1..HeaderSize : W[w + i] = h[i]
       /\ \A i \in 1..n : W[w + HeaderSize + i] = f[i]
  <2>1. writeBuffer \in Seq(Byte)
    BY <1>4 DEF TypeOK
  <2> DEFINE B == writeBuffer
  <2>2. B \in Seq(Byte)
    BY <2>1
  <2> HIDE DEF B
  <2>3. /\ Len(B \o h \o f) = Len(B) + Len(h) + Len(f)
        /\ \A i \in 1..Len(B) : (B \o h \o f)[i] = B[i]
        /\ \A i \in 1..Len(h) : (B \o h \o f)[Len(B) + i] = h[i]
        /\ \A i \in 1..Len(f) : (B \o h \o f)[Len(B) + Len(h) + i] = f[i]
    BY ONLY <1>6, <2>2, Extend
  <2> QED  BY <1>6, <2>3 DEF n, B
<1>11. writeBuffer' = W
  BY <1>2 DEF h, n
<1> HIDE DEF E, W, w, k
<1>12. /\ c \in Nat /\ c + Len(wire) + w = Len(S)
       /\ \A i \in 1..Len(wire) : wire[i] = S[c + i]
       /\ \A i \in 1..w : writeBuffer[i] = S[c + Len(wire) + i]
  BY <1>1, <1>3 DEF Stream, Transit, w
<1>13. Transit(E, c)'
  <2> DEFINE l == Len(wire)
  <2>1. l \in Nat /\ c + l + w = Len(S)
    BY <1>7, <1>12
  <2>6. \A i \in 1..l : wire[i] = S[c + i]
    BY <1>12
  <2> HIDE DEF l
  <2>2. ASSUME NEW i \in 1..l  PROVE  wire[i] = E[c + i]
    <3>1. c + i \in 1..Len(S)
      BY <1>7, <1>12, <2>1
    <3> QED  BY <1>9, <2>6, <3>1
  <2>3. c + l + Len(W) = Len(E)
    <3>1. Len(W) = w + HeaderSize + n /\ Len(E) = Len(S) + HeaderSize + n
      BY <1>9, <1>10
    <3>2. HeaderSize \in Nat /\ c \in Nat /\ w \in Nat /\ n \in Nat /\ l \in Nat
      BY <1>6, <1>7, <1>12, <2>1 DEF HeaderSize
    <3> QED  BY <2>1, <3>1, <3>2
  <2>4. ASSUME NEW i \in 1..Len(W)  PROVE  W[i] = E[c + l + i]
    <3>1. i \in Nat /\ 1 <= i /\ i <= w + HeaderSize + n
      BY <1>6, <1>7, <1>10 DEF HeaderSize
    <3>2. CASE i <= w
      <4>1. i \in 1..w /\ c + l + i \in 1..Len(S)
        BY <1>7, <1>12, <2>1, <3>1, <3>2
      <4> QED  BY <1>9, <1>10, <1>12, <4>1 DEF l
    <3>3. CASE w < i /\ i <= w + HeaderSize
      <4> DEFINE j == i - w
      <4>1. j \in 1..HeaderSize /\ w + j = i /\ Len(S) + j = c + l + i
        <5>1. HeaderSize = 4 /\ c \in Nat /\ l \in Nat /\ w \in Nat /\ Len(S) = c + l + w
          BY <1>7, <1>12, <2>1 DEF HeaderSize
        <5> QED  BY <3>1, <3>3, <5>1
      <4> HIDE DEF j
      <4>2. W[w + j] = h[j] /\ E[Len(S) + j] = h[j]
        BY <1>9, <1>10, <4>1
      <4> QED  BY <4>1, <4>2
    <3>4. CASE w + HeaderSize < i
      <4> DEFINE j == i - (w + HeaderSize)
      <4>1. j \in 1..n /\ w + HeaderSize + j = i /\ Len(S) + HeaderSize + j = c + l + i
        <5>1. HeaderSize = 4 /\ c \in Nat /\ l \in Nat /\ w \in Nat /\ n \in Nat
              /\ Len(S) = c + l + w
          BY <1>6, <1>7, <1>12, <2>1 DEF HeaderSize
        <5> QED  BY <3>1, <3>4, <5>1
      <4> HIDE DEF j
      <4>2. W[w + HeaderSize + j] = f[j] /\ E[Len(S) + HeaderSize + j] = f[j]
        BY <1>9, <1>10, <4>1
      <4> QED  BY <4>1, <4>2
    <3> QED  BY <1>7, <3>1, <3>2, <3>3, <3>4 DEF HeaderSize
  <2>5. Len(W) \in Nat /\ c + l + Len(W) <= Len(E)
    BY <1>6, <1>7, <1>10, <1>12, <2>1, <2>3 DEF HeaderSize
  <2> QED  BY <1>3, <1>11, <1>12, <2>2, <2>3, <2>4, <2>5 DEF Transit, l
<1>14. /\ k + 1 = Len(sent') /\ sent'[k + 1] = f /\ \A i \in 1..k : sent'[i] = sent[i]
  BY <1>2, <1>4, AppendProperties DEF k
<1>15. Len(delivered) <= k /\ \A i \in 1..Len(delivered) : delivered[i] = sent[i]
  BY <1>4 DEF FramesIntact, k
<1>16. Place(E, to, c)'
  <2> DEFINE d == Len(delivered)
  <2>1. d \in 0..k /\ to[d] = at[d] /\ d \in Nat
    BY <1>7, <1>8, <1>15
  <2>2. delivered' = delivered /\ readState' = readState /\ rawReceived' = rawReceived
        /\ readBuffer' = readBuffer
    BY <1>3 DEF reader
  <2> HIDE DEF d
  <2>3. CASE AtHeader(S, at, c)
    <3>1. ASSUME readState.pos = 1
          PROVE  d < Len(sent') /\ readState.buf[1] = E[at[d] + 1]
      <4>1. d < k /\ readState.buf[1] = S[at[d] + 1]
        BY <2>3, <3>1 DEF AtHeader, d, k
      <4>2. at[d] \in Nat
        BY <1>1, <2>1 DEF Stream, Layout, k
      <4>3. c = at[d] + 1 + Len(rawReceived) /\ Len(rawReceived) \in Nat
        BY <1>4, <2>3, <3>1, BufferLengths DEF AtHeader, d
      <4>4. at[d] + 1 \in 1..Len(S)
        <5> DEFINE a == at[d]
                   r == Len(rawReceived)
                   m == Len(S)
                   l == Len(wire)
        <5>1. /\ a \in Nat /\ r \in Nat /\ m \in Nat /\ l \in Nat /\ w \in Nat
              /\ (a + 1 + r) + l + w = m
          BY <1>7, <1>12, <4>2, <4>3
        <5> HIDE DEF a, r, m, l
        <5>2. a + 1 \in 1..m
          BY <5>1
        <5> QED  BY <5>2 DEF a, m
      <4> QED  BY <1>7, <1>9, <1>14, <2>1, <4>1, <4>4
    <3> QED  BY <2>1, <2>2, <2>3, <3>1 DEF Place, AtHeader, d
  <2>4. CASE InFrame(at, c)
    <3>1. d < k /\ d + 1 \in 1..k
      BY <1>7, <2>1, <2>4 DEF InFrame, d, k
    <3>2. d < Len(sent') /\ sent'[d + 1] = sent[d + 1]
      BY <1>7, <1>14, <2>1, <3>1
    <3> QED  BY <2>1, <2>2, <2>4, <3>2 DEF Place, InFrame, d
  <2> QED  BY <1>1, <2>3, <2>4 DEF Stream, Place
<1>17. WriterOrder'
  <2>1. \A i \in 1..Len(sent') : Len(sent'[i]) <= MaxFrame
    <3>1. \A i \in 1..Len(sent') : i \in 1..k \/ i = k + 1
      BY <1>7, <1>14
    <3> QED  BY <1>2, <1>4, <1>14, <3>1 DEF WriterOrder, k
  <2> QED  BY <1>3, <1>5, <1>14, <2>1 DEF WriterOrder, k
<1>18. FramesIntact'
  <2>1. Len(delivered) <= k + 1 /\ \A i \in 1..Len(delivered) : i \in 1..k
    BY <1>7, <1>15
  <2> QED  BY <1>3, <1>14, <1>15, <2>1 DEF FramesIntact, reader
<1>19. ReaderOrder' /\ CleanEnd'
  BY <1>2, <1>3, <1>4, ReaderKept
<1>20. Stream(E, to, c)'
  BY <1>2, <1>3, <1>5, <1>8, <1>13, <1>16 DEF Stream
<1> QED  BY <1>4, <1>17, <1>18, <1>19, <1>20 DEF IInv

\* Bytes that go from the front of one buffer to the end of another stay in order.
LEMMA Moved ==
  ASSUME NEW S, NEW c \in Nat, NEW a \in Seq(Byte), NEW b \in Seq(Byte), NEW n \in 1..Len(b),
         \A i \in 1..Len(a) : a[i] = S[c + i],
         \A i \in 1..Len(b) : b[i] = S[c + Len(a) + i]
  PROVE  LET more == a \o SubSeq(b, 1, n)
             rest == SubSeq(b, n + 1, Len(b))
         IN /\ Len(more) = Len(a) + n /\ Len(rest) = Len(b) - n
            /\ \A i \in 1..Len(more) : more[i] = S[c + i]
            /\ \A i \in 1..Len(rest) : rest[i] = S[c + Len(more) + i]
<1> DEFINE p == SubSeq(b, 1, n)
           rest == SubSeq(b, n + 1, Len(b))
           more == a \o p
           k == Len(a)
<1>1. k \in Nat /\ Len(b) \in Nat /\ n \in Nat
  BY LenProperties
<1>2. /\ p \in Seq(Byte) /\ Len(p) = n /\ \A i \in 1..n : p[i] = b[i]
      /\ Len(rest) = Len(b) - n /\ \A i \in 1..(Len(b) - n) : rest[i] = b[n + i]
  BY Cut
<1> HIDE DEF p, rest
<1>3. /\ Len(more) = k + n
      /\ \A i \in 1..(k + n) : more[i] = IF i <= k THEN a[i] ELSE p[i - k]
  <2>1. /\ Len(a \o p) = Len(a) + Len(p)
        /\ \A i \in 1..(Len(a) + Len(p)) :
             (a \o p)[i] = IF i <= Len(a) THEN a[i] ELSE p[i - Len(a)]
    BY ONLY <1>2, a \in Seq(Byte), ConcatProperties
  <2> QED  BY <1>2, <2>1
<1> HIDE DEF more
<1>4. (\A i \in 1..k : a[i] = S[c + i]) /\ \A i \in 1..Len(b) : b[i] = S[c + k + i]
  OBVIOUS
<1> HIDE DEF k
<1>5. ASSUME NEW i \in 1..(k + n)  PROVE  more[i] = S[c + i]
  <2>1. CASE i <= k
    <3>1. i \in 1..k
      BY <1>1, <2>1
    <3> QED  BY <1>3, <1>4, <2>1, <3>1
  <2>2. CASE ~(i <= k)
    <3> DEFINE j == i - k
    <3>1. j \in 1..n /\ j \in 1..Len(b) /\ c + k + j = c + i
      BY <1>1, <2>2
    <3>2. more[i] = p[j]
      BY <1>3, <2>2
    <3> HIDE DEF j
    <3>3. p[j] = b[j] /\ b[j] = S[c + k + j]
      BY <1>2, <1>4, <3>1
    <3> QED  BY <3>1, <3>2, <3>3
  <2> QED  BY <2>1, <2>2
<1>6. ASSUME NEW i \in 1..(Len(b) - n)  PROVE  rest[i] = S[c + (k + n) + i]
  <2>1. n + i \in 1..Len(b) /\ c + k + (n + i) = c + (k + n) + i
    BY <1>1
  <2> QED  BY <1>2, <1>4, <2>1
<1>7. /\ \A i \in 1..Len(more) : more[i] = S[c + i]
      /\ \A i \in 1..Len(rest) : rest[i] = S[c + Len(more) + i]
  BY <1>2, <1>3, <1>5, <1>6
<1> QED  BY <1>2, <1>3, <1>7 DEF k, more, p, rest

\* Nor does the writer move the reader when it moves its bytes.
LEMMA PlaceKept ==
  ASSUME NEW S, NEW at, NEW c, Place(S, at, c), UNCHANGED <<sent, reader>>
  PROVE  Place(S, at, c)'
BY DEF Place, AtHeader, InFrame, reader

LEMMA DrainInv ==
  ASSUME IInv, Drain
  PROVE  IInv'
<1>1. PICK S, at, c : Stream(S, at, c)
  BY DEF IInv
<1>2. PICK n \in 1..Len(writeBuffer) :
        /\ wire' = wire \o SubSeq(writeBuffer, 1, n)
        /\ writeBuffer' = SubSeq(writeBuffer, n + 1, Len(writeBuffer))
  BY DEF Drain
<1>3. closed = "open" /\ UNCHANGED <<closed, sent, rawSent, reader>>
  BY DEF Drain
<1>4. TypeOK /\ TypeOK' /\ WriterOrder /\ ReaderOrder /\ FramesIntact /\ CleanEnd
  BY WriterType DEF IInv
<1>5. /\ Len(wire) \in Nat /\ Len(writeBuffer) \in Nat /\ n \in Nat /\ n # 0
      /\ wire \in Seq(Byte) /\ writeBuffer \in Seq(Byte)
  <2>1. Len(wire) \in Nat /\ Len(writeBuffer) \in Nat
    BY <1>4, BufferLengths
  <2> QED  BY <1>4, <2>1 DEF TypeOK
<1>6. /\ c \in Nat /\ c + Len(wire) + Len(writeBuffer) = Len(S)
      /\ \A i \in 1..Len(wire) : wire[i] = S[c + i]
      /\ \A i \in 1..Len(writeBuffer) : writeBuffer[i] = S[c + Len(wire) + i]
  BY <1>1, <1>3 DEF Stream, Transit
<1>7. /\ Len(wire') = Len(wire) + n /\ Len(writeBuffer') = Len(writeBuffer) - n
      /\ \A i \in 1..Len(wire') : wire'[i] = S[c + i]
      /\ \A i \in 1..Len(writeBuffer') : writeBuffer'[i] = S[c + Len(wire') + i]
  <2> DEFINE more == wire \o SubSeq(writeBuffer, 1, n)
             rest == SubSeq(writeBuffer, n + 1, Len(writeBuffer))
  <2>1. c \in Nat /\ n \in 1..Len(writeBuffer)
    BY <1>6
  <2>2. /\ Len(more) = Len(wire) + n /\ Len(rest) = Len(writeBuffer) - n
        /\ \A i \in 1..Len(more) : more[i] = S[c + i]
        /\ \A i \in 1..Len(rest) : rest[i] = S[c + Len(more) + i]
    BY ONLY <1>5, <1>6, <2>1, Moved
  <2>3. wire' = more /\ writeBuffer' = rest
    BY <1>2
  <2> HIDE DEF more, rest
  <2> QED  BY <2>2, <2>3
<1>8. Len(S) \in Nat /\ c + Len(wire') + Len(writeBuffer') = Len(S)
  <2>1. Len(wire') = Len(wire) + n /\ Len(writeBuffer') = Len(writeBuffer) - n
    BY <1>7
  <2>2. /\ c \in Nat /\ c + Len(wire) + Len(writeBuffer) = Len(S)
        /\ Len(wire) \in Nat /\ Len(writeBuffer) \in Nat /\ n \in Nat
    BY <1>5, <1>6
  <2> QED  BY <2>1, <2>2
<1>9. Transit(S, c)'
  BY <1>6, <1>7, <1>8 DEF Transit
<1>10. Stream(S, at, c)'
  <2>1. Layout(S, at, sent, rawSent)' /\ Place(S, at, c)'
    BY <1>1, <1>3, PlaceKept DEF Stream
  <2> QED  BY <1>9, <2>1 DEF Stream
<1>11. WriterOrder'
  <2>1. rawSent = <<>>
    <3>1. writeBuffer # <<>>
      BY <1>5, EmptySeq
    <3> QED  BY <1>4, <3>1 DEF WriterOrder
  <2> QED  BY <1>3, <1>4, <2>1 DEF WriterOrder
<1>12. ReaderOrder' /\ CleanEnd'
  BY <1>3, <1>4, ReaderKept
<1>13. FramesIntact'
  BY <1>3, <1>4 DEF FramesIntact, reader
<1> QED  BY <1>4, <1>10, <1>11, <1>12, <1>13 DEF IInv

LEMMA RawWriteInv ==
  ASSUME IInv, RawWrite
  PROVE  IInv'
<1>1. PICK S, at, c : Stream(S, at, c)
  BY DEF IInv
<1>2. PICK b \in Byte : wire' = Append(wire, b) /\ rawSent' = Append(rawSent, b)
  BY DEF RawWrite
<1>3. /\ closed = "open" /\ Len(sent) = FrameCount /\ writeBuffer = <<>>
      /\ UNCHANGED <<writeBuffer, closed, sent, reader>>
  BY DEF RawWrite
<1>4. TypeOK /\ TypeOK' /\ WriterOrder /\ ReaderOrder /\ FramesIntact /\ CleanEnd
  BY WriterType DEF IInv
<1>5. /\ wire \in Seq(Byte) /\ rawSent \in Seq(Byte) /\ sent \in Seq(Payloads)
      /\ Len(wire) \in Nat /\ Len(delivered) \in Nat /\ Len(sent) \in Nat
      /\ Len(rawReceived) \in Nat
  BY <1>4, BufferLengths DEF TypeOK
<1>6. Layout(S, at, sent, rawSent) /\ S \in Seq(Byte) /\ Len(S) \in Nat
  BY <1>1, LenProperties DEF Stream, Layout
<1> DEFINE E == Append(S, b)
<1>7. Len(E) = Len(S) + 1 /\ E[Len(S) + 1] = b /\ \A i \in 1..Len(S) : E[i] = S[i]
  BY <1>6, AppendProperties
<1>8. Layout(E, at, sent, Append(rawSent, b))
  BY <1>5, <1>6, LayoutRaw
<1> HIDE DEF E
<1>9. /\ c \in Nat /\ c + Len(wire) = Len(S)
      /\ \A i \in 1..Len(wire) : wire[i] = S[c + i]
  <2>1. /\ c \in Nat /\ c + Len(wire) + Len(writeBuffer) = Len(S)
        /\ \A i \in 1..Len(wire) : wire[i] = S[c + i]
    BY <1>1, <1>3 DEF Stream, Transit
  <2>2. Len(writeBuffer) = 0
    BY <1>3
  <2> QED  BY <1>5, <2>1, <2>2
<1>10. Transit(E, c)'
  <2>1. /\ Len(wire') = Len(wire) + 1 /\ wire'[Len(wire) + 1] = b
        /\ \A i \in 1..Len(wire) : wire'[i] = wire[i]
    BY <1>2, <1>5, AppendProperties
  <2>2. ASSUME NEW i \in 1..Len(wire')  PROVE  wire'[i] = E[c + i]
    <3>1. CASE i = Len(wire) + 1
      <4>1. c + i = Len(S) + 1
        <5>1. c + Len(wire) = Len(S) /\ c \in Nat /\ Len(wire) \in Nat
          BY <1>5, <1>9
        <5> QED  BY <3>1, <5>1
      <4> QED  BY <1>7, <2>1, <3>1, <4>1
    <3>2. CASE i # Len(wire) + 1
      <4>1. i \in 1..Len(wire) /\ c + i \in 1..Len(S)
        BY <1>5, <1>9, <2>1, <3>2
      <4> QED  BY <1>7, <1>9, <2>1, <4>1
    <3> QED  BY <3>1, <3>2
  <2>3. Len(writeBuffer') = 0 /\ c + Len(wire') + 0 = Len(E)
    <3>1. c + Len(wire) = Len(S) /\ c \in Nat /\ Len(wire) \in Nat
      BY <1>5, <1>9
    <3>2. Len(writeBuffer') = 0 /\ Len(wire') = Len(wire) + 1 /\ Len(E) = Len(S) + 1
      BY <1>3, <1>7, <2>1
    <3> QED  BY <3>1, <3>2
  <2>4. Len(E) <= Len(E) /\ Len(E) \in Nat /\ 1..0 = {}
    BY <1>6, <1>7
  <2> QED  BY <1>9, <2>2, <2>3, <2>4 DEF Transit
<1>11. Place(E, at, c)'
  <2>1. Len(delivered) \in 0..Len(sent)
    BY <1>4, <1>5 DEF FramesIntact
  <2>2. at[Len(delivered)] \in Nat
    BY <1>6, <2>1 DEF Layout
  <2>3. ASSUME AtHeader(S, at, c), readState.pos = 1
        PROVE  readState.buf[1] = E[at[Len(delivered)] + 1]
    <3>1. c = at[Len(delivered)] + 1 + Len(rawReceived)
          /\ readState.buf[1] = S[at[Len(delivered)] + 1]
      BY <2>3 DEF AtHeader
    <3>2. at[Len(delivered)] + 1 \in 1..Len(S)
      <4>1. c + Len(wire) = Len(S) /\ Len(wire) \in Nat
        BY <1>5, <1>9
      <4> DEFINE l == at[Len(delivered)]
                 r == Len(rawReceived)
                 w == Len(wire)
                 m == Len(S)
      <4>2. l \in Nat /\ r \in Nat /\ w \in Nat /\ m \in Nat /\ l + 1 + r + w = m
        BY <1>5, <1>6, <2>2, <3>1, <4>1
      <4> HIDE DEF l, r, w, m
      <4>3. l + 1 \in 1..m
        BY <4>2
      <4> QED  BY <4>3 DEF l, m
    <3> QED  BY <1>7, <3>1, <3>2
  <2>4. Place(E, at, c)
    BY <1>1, <2>3 DEF Stream, Place, AtHeader
  <2> QED  BY <1>3, <2>4, PlaceKept
<1>12. Stream(E, at, c)'
  BY <1>2, <1>3, <1>8, <1>10, <1>11 DEF Stream
<1>13. ReaderOrder' /\ CleanEnd'
  BY <1>2, <1>3, <1>4, ReaderKept
<1>14. WriterOrder' /\ FramesIntact'
  BY <1>3, <1>4 DEF WriterOrder, FramesIntact, reader
<1> QED  BY <1>4, <1>12, <1>13, <1>14 DEF IInv

LEMMA CloseInv ==
  ASSUME IInv, Close \/ DropWriter
  PROVE  IInv'
<1>1. PICK S, at, c : Stream(S, at, c)
  BY DEF IInv
<1>2. /\ closed = "open" /\ closed' \in {"close", "drop"} /\ writeBuffer' = <<>>
      /\ closed' = "close" => writeBuffer = <<>>
      /\ UNCHANGED <<wire, sent, rawSent, reader>>
  BY DEF Close, DropWriter
<1>3. TypeOK /\ TypeOK' /\ WriterOrder /\ ReaderOrder /\ FramesIntact /\ CleanEnd
  BY WriterType DEF IInv
<1>4. ReaderOrder' /\ CleanEnd'
  BY <1>2, <1>3 DEF ReaderOrder, CleanEnd, reader
<1>5. WriterOrder' /\ FramesIntact'
  BY <1>2, <1>3 DEF WriterOrder, FramesIntact, reader
<1>6. Transit(S, c)'
  <2>1. /\ c \in Nat /\ c + Len(wire) + Len(writeBuffer) = Len(S)
        /\ \A i \in 1..Len(wire) : wire[i] = S[c + i]
    BY <1>1, <1>2 DEF Stream, Transit
  <2>2. Len(wire) \in Nat /\ Len(writeBuffer) \in Nat /\ Len(writeBuffer') = 0 /\ 1..0 = {}
    BY <1>2, <1>3, BufferLengths
  <2>3. c + Len(wire') + Len(writeBuffer') <= Len(S)
    BY <1>2, <2>1, <2>2
  <2>4. ASSUME closed' # "drop" \/ rawSent' # <<>>
        PROVE  c + Len(wire') + Len(writeBuffer') = Len(S)
    <3>1. writeBuffer = <<>>
      BY <1>2, <1>3, <2>4 DEF WriterOrder
    <3> QED  BY <1>2, <2>1, <3>1
  <2> QED  BY <1>2, <2>1, <2>2, <2>3, <2>4 DEF Transit
<1>7. Stream(S, at, c)'
  <2>1. Layout(S, at, sent, rawSent)' /\ Place(S, at, c)'
    BY <1>1, <1>2, PlaceKept DEF Stream
  <2> QED  BY <1>6, <2>1 DEF Stream
<1> QED  BY <1>3, <1>4, <1>5, <1>7 DEF IInv

\* The reader takes n bytes from the transport.
LEMMA Advance ==
  ASSUME TypeOK, NEW S, NEW c, NEW n \in 1..Len(wire), Transit(S, c),
         wire' = SubSeq(wire, n + 1, Len(wire)), UNCHANGED writer
  PROVE  /\ Transit(S, c + n)'
         /\ c \in Nat /\ n \in Nat /\ c + n <= Len(S)
         /\ \A i \in 1..n : wire[i] = S[c + i]
<1>1. /\ wire \in Seq(Byte) /\ Len(wire) \in Nat /\ Len(writeBuffer) \in Nat /\ n \in Nat
      /\ n <= Len(wire)
  BY BufferLengths DEF TypeOK
<1>2. /\ writeBuffer' = writeBuffer /\ closed' = closed /\ rawSent' = rawSent
  BY DEF writer
<1>3. Len(wire') = Len(wire) - n /\ \A i \in 1..(Len(wire) - n) : wire'[i] = wire[n + i]
  BY <1>1, Cut
<1>4. /\ c \in Nat /\ c + Len(wire) + Len(writeBuffer) <= Len(S)
      /\ closed # "drop" \/ rawSent # <<>> => c + Len(wire) + Len(writeBuffer) = Len(S)
      /\ \A i \in 1..Len(wire) : wire[i] = S[c + i]
      /\ \A i \in 1..Len(writeBuffer) : writeBuffer[i] = S[c + Len(wire) + i]
  BY DEF Transit
<1> DEFINE w == Len(wire)
           v == Len(wire')
           b == Len(writeBuffer)
<1>5. w \in Nat /\ b \in Nat /\ v = w - n /\ n \in Nat /\ n <= w /\ c \in Nat
  BY <1>1, <1>3, <1>4
<1>6. /\ \A i \in 1..w : wire[i] = S[c + i]
      /\ \A i \in 1..(w - n) : wire'[i] = wire[n + i]
      /\ \A i \in 1..b : writeBuffer[i] = S[c + w + i]
      /\ c + w + b <= Len(S)
      /\ closed # "drop" \/ rawSent # <<>> => c + w + b = Len(S)
  BY <1>3, <1>4
<1> HIDE DEF w, b, v
<1>7. (c + n) + v = c + w /\ c + n \in Nat /\ (c + n) + v + b = c + w + b
  BY <1>5
<1>8. ASSUME NEW i \in 1..v  PROVE  wire'[i] = S[(c + n) + i]
  <2>1. i \in 1..(w - n) /\ n + i \in 1..w /\ c + (n + i) = (c + n) + i
    BY <1>5
  <2> QED  BY <1>6, <2>1
<1>9. \A i \in 1..b : writeBuffer[i] = S[(c + n) + v + i]
  BY <1>6, <1>7
<1>10. Transit(S, c + n)'
  BY <1>2, <1>6, <1>7, <1>8, <1>9 DEF Transit, v, b
<1>11. /\ \A i \in 1..n : i \in 1..w
  BY <1>5
<1>12. c + n <= Len(S)
  <2>1. c + w + b \in Nat /\ c + n <= c + w + b
    BY <1>5
  <2> QED  BY <1>5, <1>6, <2>1
<1> QED  BY <1>5, <1>6, <1>10, <1>11, <1>12

\* What no step of an open reader disturbs.
LEMMA ReadingKept ==
  ASSUME Reading, WriterOrder, ReaderOrder,
         UNCHANGED <<writer, end, handedOff, rawReceived>>
  PROVE  WriterOrder' /\ ReaderOrder' /\ CleanEnd'
BY DEF Reading, WriterOrder, ReaderOrder, CleanEnd, writer

\* The reader has the next frame.
LEMMA Complete ==
  ASSUME TypeOK, FramesIntact, NEW S, NEW at, NEW e, Layout(S, at, sent, rawSent),
         Len(delivered) < Len(sent), rawReceived = <<>>,
         e = at[Len(delivered)] + HeaderSize + Len(sent[Len(delivered) + 1]),
         delivered' = Append(delivered, sent[Len(delivered) + 1]),
         readState' = ReadLength, sent' = sent, rawReceived' = rawReceived
  PROVE  FramesIntact' /\ Place(S, at, e)'
<1> DEFINE d == Len(delivered)
           f == sent[d + 1]
<1>1. d \in Nat /\ Len(sent) \in Nat /\ d + 1 \in 1..Len(sent) /\ (d + 1) - 1 = d
  BY BufferLengths
<1>2. f \in Seq(Byte)
  BY <1>1, ElementOfSeq, FramingAssumption DEF TypeOK
<1> HIDE DEF f
<1>3. /\ Len(delivered') = d + 1 /\ delivered'[d + 1] = f
      /\ \A i \in 1..d : delivered'[i] = delivered[i]
  <2>1. delivered \in Seq(Seq(Byte)) /\ delivered' = Append(delivered, f)
    BY DEF TypeOK, f
  <2> QED  BY <1>2, <2>1, AppendProperties
<1> HIDE DEF d
<1>4. FramesIntact'
  <2>1. \A i \in 1..(d + 1) : i \in 1..d \/ i = d + 1
    BY <1>1
  <2>2. \A i \in 1..d : delivered[i] = sent[i]
    BY DEF FramesIntact, d
  <2>3. delivered'[d + 1] = sent[d + 1]
    BY <1>3 DEF f
  <2>4. \A i \in 1..(d + 1) : delivered'[i] = sent[i]
    BY <1>3, <2>1, <2>2, <2>3
  <2>5. d + 1 <= Len(sent)
    BY <1>1
  <2>6. sent' = sent
    OBVIOUS
  <2>7. Len(delivered') = d + 1
    BY <1>3
  <2>8. Len(delivered') <= Len(sent) /\ \A i \in 1..Len(delivered') : delivered'[i] = sent[i]
    BY <2>4, <2>5, <2>7
  <2> QED  BY <2>6, <2>8 DEF FramesIntact
<1>5. at[d + 1] = at[(d + 1) - 1] + HeaderSize + Len(sent[d + 1])
  BY <1>1 DEF Layout
<1>6. e = at[d + 1] + 0 + 0
  <2>1. d + 1 \in 0..Len(sent)
    BY <1>1
  <2>2. at[d + 1] \in Nat
    BY <2>1 DEF Layout
  <2> QED  BY <1>1, <1>5, <2>2 DEF d
<1>7. ReadLength.kind = "ReadLength" /\ ReadLength.pos = 0 /\ Len(<<>>) = 0
  BY EmptySeq DEF ReadLength
<1>8. AtHeader(S, at, e)'
  BY <1>3, <1>6, <1>7 DEF AtHeader
<1> QED  BY <1>4, <1>8 DEF Place

\* While the reader reads there is another frame for what is on the wire: raw
\* bytes only follow the last one.
LEMMA NextFrame ==
  ASSUME TypeOK, WriterOrder, FramesIntact, NEW S, NEW at, NEW c, Stream(S, at, c),
         rawReceived = <<>>, Len(delivered) < FrameCount, wire # <<>>
  PROVE  Len(delivered) < Len(sent)
<1> DEFINE d == Len(delivered)
           k == Len(sent)
<1>1. d \in Nat /\ k \in Nat /\ d <= k /\ Len(wire) \in Nat /\ Len(wire) # 0
      /\ Len(writeBuffer) \in Nat /\ FrameCount \in Nat
  BY BufferLengths, EmptySeq, FramingAssumption DEF FramesIntact, TypeOK
<1>2. Len(S) = at[k] + Len(rawSent) /\ at[k] \in Nat /\ Len(rawSent) \in Nat
  BY <1>1, BufferLengths DEF Stream, Layout
<1>3. c \in Nat /\ c + Len(wire) + Len(writeBuffer) <= Len(S)
  BY DEF Stream, Transit
<1>4. CASE rawSent # <<>>
  <2>1. k = FrameCount
    BY <1>4 DEF WriterOrder
  <2> QED  BY <2>1 DEF k
<1>5. CASE rawSent = <<>>
  <2>1. SUFFICES ASSUME d = k PROVE FALSE
    BY <1>1
  <2>2. Len(S) = at[d]
    BY <1>2, <1>5, <2>1, EmptySeq
  <2>3. c < at[d]
    BY <1>1, <1>2, <1>3, <2>1, <2>2
  <2>4. CASE AtHeader(S, at, c)
    <3>1. c = at[d] + readState.pos + 0 /\ readState.pos \in Nat
      <4>1. readState.kind = "ReadLength"
        BY <2>4 DEF AtHeader
      <4>2. readState.pos \in 0..1
        BY <4>1 DEF TypeOK
      <4>3. c = at[d] + readState.pos + Len(rawReceived) /\ Len(rawReceived) = 0
        BY <2>4, EmptySeq DEF AtHeader
      <4> QED  BY <4>2, <4>3
    <3> QED  BY <1>2, <2>1, <2>3, <3>1
  <2>5. CASE InFrame(at, c)
    BY <1>1, <2>1, <2>5 DEF InFrame
  <2> QED  BY <2>4, <2>5 DEF Stream, Place
<1> QED  BY <1>4, <1>5

LEMMA ReadHeaderInv ==
  ASSUME HeaderCuts \subseteq {1}, IInv, ReadHeader, Len(delivered) < FrameCount
  PROVE  IInv'
<1>1. PICK S, at, c : Stream(S, at, c)
  BY DEF IInv
<1>2. TypeOK /\ TypeOK' /\ WriterOrder /\ ReaderOrder /\ FramesIntact /\ CleanEnd
  BY ReadHeaderType DEF IInv
<1>3. /\ Reading /\ readState.kind = "ReadLength"
      /\ UNCHANGED <<writer, end, handedOff, rawReceived>>
  BY DEF ReadHeader
<1>4. WriterOrder' /\ ReaderOrder' /\ CleanEnd'
  BY <1>2, <1>3, ReadingKept
<1>5. rawReceived = <<>> /\ Len(rawReceived) = 0
  BY <1>2, <1>3, EmptySeq DEF Reading, ReaderOrder
<1>6. readState \in [kind : {"ReadLength"}, buf : [1..HeaderSize -> Byte], pos : 0..1]
      /\ readBuffer = <<>>
  BY <1>2, <1>3 DEF TypeOK
<1> DEFINE p == readState.pos
           b == readState.buf
           d == Len(delivered)
<1>7. b \in [1..HeaderSize -> Byte] /\ p \in 0..1 /\ p \in Nat /\ HeaderSize \in Nat
  BY <1>6 DEF HeaderSize
<1>8. PICK n \in 1..Len(wire) :
        LET buf == Filled(b, p, n, HeaderSize)
            len == Length(buf)
        IN /\ p + n \in HeaderCuts \cup {HeaderSize}
           /\ wire' = SubSeq(wire, n + 1, Len(wire))
           /\ \/ /\ p + n <= 1
                 /\ readState' = [readState EXCEPT !.buf = buf, !.pos = p + n]
                 /\ UNCHANGED <<readBuffer, delivered>>
              \/ /\ p + n > 1 /\ len >= 1
                 /\ readState' = [kind |-> "ReadData", len |-> len, pos |-> 0]
                 /\ readBuffer' = [i \in 1..len |-> 0]
                 /\ UNCHANGED delivered
              \/ /\ p + n > 1 /\ len = 0
                 /\ readState' = ReadLength
                 /\ delivered' = Append(delivered, <<>>)
                 /\ UNCHANGED readBuffer
  BY DEF ReadHeader, Filled
<1> DEFINE buf == Filled(b, p, n, HeaderSize)
           len == Length(buf)
<1>9. /\ Transit(S, c + n)' /\ c \in Nat /\ n \in Nat /\ c + n <= Len(S)
      /\ \A i \in 1..n : wire[i] = S[c + i]
  <2>1. Transit(S, c)
    BY <1>1 DEF Stream
  <2>2. wire' = SubSeq(wire, n + 1, Len(wire)) /\ n \in 1..Len(wire) /\ UNCHANGED writer
    BY <1>3, <1>8
  <2> QED  BY ONLY <1>2, <2>1, <2>2, Advance
<1>10. Layout(S, at, sent, rawSent) /\ Layout(S, at, sent, rawSent)' /\ sent' = sent
  BY <1>1, <1>3 DEF Stream, writer
<1>11. d \in Nat /\ Len(sent) \in Nat /\ d < Len(sent) /\ d + 1 \in 1..Len(sent)
       /\ d \in 0..Len(sent)
  <2>1. wire # <<>>
    BY <1>8, EmptySeq
  <2>2. d < Len(sent)
    BY <1>1, <1>2, <1>5, <2>1, NextFrame
  <2> QED  BY <1>2, <2>2, BufferLengths
<1> DEFINE a == at[d]
           m == Len(sent[d + 1])
<1>12. /\ a \in Nat
       /\ \A j \in 1..HeaderSize : S[a + j] = Header(m)[j]
  <2>1. (d + 1) - 1 = d
    BY <1>11
  <2> QED  BY <1>10, <1>11, <2>1 DEF Layout
<1>13. m \in Lengths /\ m \in Nat
  <2>1. m <= MaxFrame /\ m \in Nat
    <3>1. sent[d + 1] \in Seq(Byte)
      BY <1>2, <1>11, ElementOfSeq, FramingAssumption DEF TypeOK
    <3> QED  BY <1>2, <1>11, <3>1, LenProperties DEF WriterOrder
  <2> QED  BY <2>1, FramingAssumption DEF Lengths
<1>14. c = a + p /\ AtHeader(S, at, c)
  <2>1. AtHeader(S, at, c)
    BY <1>1, <1>3 DEF Stream, Place, InFrame
  <2>2. c = a + p + Len(rawReceived)
    BY <2>1 DEF AtHeader
  <2> QED  BY <1>5, <1>7, <1>12, <2>1, <2>2
<1>15. p + n = 1 \/ p + n = HeaderSize
  BY <1>8
<1>16. p = 1 => b[1] = S[a + 1]
  BY <1>14 DEF AtHeader
<1>17. /\ buf \in [1..HeaderSize -> Byte]
       /\ \A i \in 1..HeaderSize :
            buf[i] = IF i \in (p + 1)..(p + n) THEN wire[i - p] ELSE b[i]
  BY <1>2, <1>7, FilledType
<1> HIDE DEF p, b, d, a, m, buf, len
<1>18. ASSUME NEW j \in 1..HeaderSize, j <= p + n
       PROVE  buf[j] = S[a + j]
  <2>1. CASE j <= p
    <3>1. j = 1 /\ p = 1 /\ ~(j \in (p + 1)..(p + n))
      BY <1>7, <1>9, <2>1
    <3> QED  BY <1>16, <1>17, <3>1
  <2>2. CASE ~(j <= p)
    <3>1. j \in (p + 1)..(p + n) /\ j - p \in 1..n /\ c + (j - p) = a + j
      BY <1>7, <1>9, <1>12, <1>14, <1>18, <2>2 DEF HeaderSize
    <3> QED  BY <1>9, <1>17, <3>1
  <2> QED  BY <2>1, <2>2
<1>19. CASE p + n = 1 /\ UNCHANGED <<readBuffer, delivered>>
            /\ readState' = [readState EXCEPT !.buf = buf, !.pos = p + n]
  <2>1. readState'.kind = "ReadLength" /\ readState'.buf = buf /\ readState'.pos = 1
    BY <1>6, <1>19
  <2>2. 1 \in 1..HeaderSize /\ 1 <= p + n
    BY <1>19 DEF HeaderSize
  <2>3. readState'.buf[1] = S[a + 1]
    BY <1>18, <2>1, <2>2
  <2>4. c + n = a + 1 + 0
    BY <1>7, <1>9, <1>12, <1>14, <1>19
  <2>5. AtHeader(S, at, c + n)'
    BY <1>3, <1>5, <1>10, <1>11, <1>19, <2>1, <2>3, <2>4 DEF AtHeader, a, d
  <2>6. FramesIntact'
    BY <1>2, <1>10, <1>19 DEF FramesIntact
  <2> QED  BY <1>2, <1>4, <1>9, <1>10, <2>5, <2>6 DEF IInv, Stream, Place
<1>20. CASE p + n = HeaderSize
  <2>1. \A j \in 1..HeaderSize : buf[j] = S[a + j]
    BY <1>18, <1>20 DEF HeaderSize
  <2>2. len = m
    <3>1. \A j \in 1..HeaderSize : buf[j] = Header(m)[j]
      BY <1>12, <2>1
    <3> QED  BY <1>13, <3>1, LengthOfHeader DEF len
  <2>3. c + n = a + HeaderSize
    BY <1>7, <1>9, <1>12, <1>14, <1>20
  <2>4. CASE len >= 1 /\ readState' = [kind |-> "ReadData", len |-> len, pos |-> 0]
             /\ UNCHANGED delivered
    <3>1. readState'.kind = "ReadData" /\ readState'.len = m /\ readState'.pos = 0
      BY <2>2, <2>4
    <3>2. c + n = a + HeaderSize + 0
      BY <1>7, <1>12, <2>3
    <3>3. 1..0 = {}
      OBVIOUS
    <3>4. InFrame(at, c + n)'
      BY <1>10, <1>11, <2>4, <3>1, <3>2, <3>3 DEF InFrame, a, d, m
    <3>5. FramesIntact'
      BY <1>2, <1>10, <2>4 DEF FramesIntact
    <3> QED  BY <1>2, <1>4, <1>9, <1>10, <3>4, <3>5 DEF IInv, Stream, Place
  <2>5. CASE len = 0 /\ readState' = ReadLength /\ delivered' = Append(delivered, <<>>)
    <3>1. sent[d + 1] = <<>>
      <4>1. sent[d + 1] \in Seq(Byte) /\ Len(sent[d + 1]) = 0
        BY <1>2, <1>11, <2>2, <2>5, ElementOfSeq, FramingAssumption DEF TypeOK, m
      <4> QED  BY <4>1, EmptySeq
    <3>2. c + n = a + HeaderSize + m
      BY <1>7, <1>12, <2>2, <2>3, <2>5
    <3>3. FramesIntact' /\ Place(S, at, c + n)'
      BY <1>2, <1>3, <1>5, <1>10, <1>11, <2>5, <3>1, <3>2, Complete DEF d, a, m
    <3> QED  BY <1>2, <1>4, <1>9, <1>10, <3>3 DEF IInv, Stream
  <2> QED  BY <1>7, <1>8, <1>20, <2>4, <2>5 DEF HeaderSize, p, b, buf, len
<1> QED  BY <1>7, <1>8, <1>9, <1>15, <1>19, <1>20 DEF HeaderSize, p, b, buf, len

LEMMA ReadDataInv ==
  ASSUME IInv, ReadData, Len(delivered) < FrameCount
  PROVE  IInv'
<1>1. PICK S, at, c : Stream(S, at, c)
  BY DEF IInv
<1>2. TypeOK /\ TypeOK' /\ WriterOrder /\ ReaderOrder /\ FramesIntact /\ CleanEnd
  BY ReadDataType DEF IInv
<1>3. /\ Reading /\ readState.kind = "ReadData"
      /\ UNCHANGED <<writer, end, handedOff, rawReceived>>
  BY DEF ReadData
<1>4. WriterOrder' /\ ReaderOrder' /\ CleanEnd'
  BY <1>2, <1>3, ReadingKept
<1>5. rawReceived = <<>>
  BY <1>2, <1>3 DEF Reading, ReaderOrder
<1> DEFINE p == readState.pos
           l == readState.len
           d == Len(delivered)
<1>6. /\ readState \in [kind : {"ReadData"}, len : Lengths \ {0}, pos : Nat]
      /\ p < l /\ Len(readBuffer) = l /\ readBuffer \in Seq(Byte)
  BY <1>2, <1>3 DEF TypeOK
<1>7. p \in Nat /\ l \in Nat /\ readBuffer \in [1..l -> Byte]
  <2>1. p \in Nat /\ l \in Lengths \ {0}
    BY <1>6
  <2>2. readBuffer \in [1..Len(readBuffer) -> Byte]
    BY <1>6, LenProperties
  <2> QED  BY <1>6, <2>1, <2>2, FramingAssumption DEF Lengths
<1>8. PICK n \in 1..Len(wire) :
        LET filled == Filled(readBuffer, p, n, l)
        IN /\ p + n <= l
           /\ wire' = SubSeq(wire, n + 1, Len(wire))
           /\ \/ /\ p + n < l
                 /\ readState' = [readState EXCEPT !.pos = p + n]
                 /\ readBuffer' = filled
                 /\ UNCHANGED delivered
              \/ /\ p + n = l
                 /\ readState' = ReadLength
                 /\ readBuffer' = <<>>
                 /\ delivered' = Append(delivered, filled)
  BY DEF ReadData, Filled
<1> DEFINE filled == Filled(readBuffer, p, n, l)
<1>9. /\ Transit(S, c + n)' /\ c \in Nat /\ n \in Nat /\ c + n <= Len(S)
      /\ \A i \in 1..n : wire[i] = S[c + i]
  <2>1. Transit(S, c)
    BY <1>1 DEF Stream
  <2>2. wire' = SubSeq(wire, n + 1, Len(wire)) /\ n \in 1..Len(wire) /\ UNCHANGED writer
    BY <1>3, <1>8
  <2> QED  BY ONLY <1>2, <2>1, <2>2, Advance
<1>10. Layout(S, at, sent, rawSent) /\ Layout(S, at, sent, rawSent)' /\ sent' = sent
  BY <1>1, <1>3 DEF Stream, writer
<1> DEFINE a == at[d]
           f == sent[d + 1]
<1>11. /\ d \in Nat /\ Len(sent) \in Nat /\ d < Len(sent) /\ d + 1 \in 1..Len(sent)
       /\ d \in 0..Len(sent) /\ c = a + HeaderSize + p /\ l = Len(f)
       /\ \A j \in 1..p : readBuffer[j] = f[j]
  <2>1. InFrame(at, c)
    BY <1>1, <1>3 DEF Stream, Place, AtHeader
  <2> QED  BY <1>2, <2>1, BufferLengths DEF InFrame
<1>12. a \in Nat /\ f \in Seq(Byte) /\ \A j \in 1..l : S[a + HeaderSize + j] = f[j]
  <2>1. (d + 1) - 1 = d
    BY <1>11
  <2>2. f \in Seq(Byte)
    BY <1>2, <1>11, ElementOfSeq, FramingAssumption DEF TypeOK
  <2> QED  BY <1>10, <1>11, <2>1, <2>2 DEF Layout
<1>13. /\ filled \in Seq(Byte) /\ Len(filled) = l
       /\ \A i \in 1..l :
            filled[i] = IF i \in (p + 1)..(p + n) THEN wire[i - p] ELSE readBuffer[i]
  <2>1. TypeOK /\ n \in 1..Len(wire)
    BY <1>2
  <2> HIDE DEF p, l
  <2> QED  BY ONLY <1>7, <2>1, FilledType
<1> HIDE DEF p, l, d, a, f, filled
<1>14. ASSUME NEW j \in 1..(p + n), p + n <= l
       PROVE  filled[j] = f[j]
  <2>0. j \in 1..l
    BY <1>7, <1>9, <1>14
  <2>1. CASE j <= p
    <3>1. j \in 1..p /\ ~(j \in (p + 1)..(p + n))
      BY <1>7, <1>9, <2>1
    <3> QED  BY <1>11, <1>13, <2>0, <3>1
  <2>2. CASE ~(j <= p)
    <3>1. j \in (p + 1)..(p + n) /\ j - p \in 1..n /\ c + (j - p) = a + HeaderSize + j
      BY <1>7, <1>9, <1>11, <1>12, <2>2 DEF HeaderSize
    <3>2. filled[j] = wire[j - p] /\ wire[j - p] = S[c + (j - p)]
      BY <1>9, <1>13, <2>0, <3>1
    <3> QED  BY <1>12, <2>0, <3>1, <3>2
  <2> QED  BY <2>1, <2>2
<1>15. c + n = a + HeaderSize + (p + n)
  BY <1>7, <1>9, <1>11, <1>12 DEF HeaderSize
<1>16. CASE p + n <= l /\ readState' = [readState EXCEPT !.pos = p + n]
            /\ readBuffer' = filled /\ UNCHANGED delivered
  <2>1. readState'.kind = "ReadData" /\ readState'.len = l /\ readState'.pos = p + n
    BY <1>6, <1>16 DEF l
  <2>2. InFrame(at, c + n)'
    BY <1>10, <1>11, <1>14, <1>15, <1>16, <2>1 DEF InFrame, a, d, f
  <2>3. FramesIntact'
    BY <1>2, <1>10, <1>16 DEF FramesIntact
  <2> QED  BY <1>2, <1>4, <1>9, <1>10, <2>2, <2>3 DEF IInv, Stream, Place
<1>17. CASE p + n = l /\ readState' = ReadLength /\ delivered' = Append(delivered, filled)
  <2>1. filled = f
    <3>1. \A j \in 1..l : filled[j] = f[j]
      BY <1>7, <1>14, <1>17
    <3> QED  BY <1>11, <1>12, <1>13, <3>1, SeqEqual
  <2>2. c + n = a + HeaderSize + Len(f)
    BY <1>11, <1>15, <1>17
  <2>3. FramesIntact' /\ Place(S, at, c + n)'
    BY <1>2, <1>3, <1>5, <1>10, <1>11, <1>17, <2>1, <2>2, Complete DEF d, a, f
  <2> QED  BY <1>2, <1>4, <1>9, <1>10, <2>3 DEF IInv, Stream
<1> QED  BY <1>8, <1>16, <1>17 DEF p, l, filled

\* The clean end: at a header, with nothing left, all frames have arrived; inside
\* a frame, only dropping the writer can have lost the rest.
LEMMA EndOfStream ==
  ASSUME IInv, Reading, wire = <<>>, closed # "open", Len(delivered) < FrameCount
  PROVE  /\ readState = ReadLength /\ closed = "close" => delivered = sent
         /\ readState # ReadLength => closed = "drop" /\ Len(delivered) < Len(sent)
<1>1. PICK S, at, c : Stream(S, at, c)
  BY DEF IInv
<1>2. TypeOK /\ WriterOrder /\ ReaderOrder /\ FramesIntact
  BY DEF IInv
<1> DEFINE d == Len(delivered)
           k == Len(sent)
<1>3. /\ rawReceived = <<>> /\ Len(rawReceived) = 0 /\ Len(wire) = 0
      /\ writeBuffer = <<>> /\ Len(writeBuffer) = 0
  BY <1>2, EmptySeq DEF Reading, ReaderOrder, WriterOrder
<1>4. d \in Nat /\ k \in Nat /\ d <= k /\ Len(rawSent) \in Nat
  BY <1>2, BufferLengths DEF FramesIntact
<1>5. /\ Len(S) = at[k] + Len(rawSent) /\ at[k] \in Nat /\ at[d] \in Nat
      /\ \A i, j \in 0..k : i < j => at[i] + HeaderSize <= at[j]
  <2>1. d \in 0..k /\ k \in 0..k
    BY <1>4
  <2>2. Layout(S, at, sent, rawSent)
    BY <1>1 DEF Stream
  <2> QED  BY <2>1, <2>2 DEF Layout
<1>6. closed = "close" => c = Len(S)
  <2>1. /\ c \in Nat
        /\ closed = "close" => c + Len(wire) + Len(writeBuffer) = Len(S)
    BY <1>1 DEF Stream, Transit
  <2> QED  BY <1>3, <2>1
<1>7. d < k => at[d + 1] <= at[k] /\ at[d + 1] \in Nat
               /\ at[d + 1] = at[d] + HeaderSize + Len(sent[d + 1])
               /\ Len(sent[d + 1]) \in Nat
  <2>1. SUFFICES ASSUME d < k
        PROVE  /\ at[d + 1] <= at[k] /\ at[d + 1] \in Nat
               /\ at[d + 1] = at[d] + HeaderSize + Len(sent[d + 1])
               /\ Len(sent[d + 1]) \in Nat
    OBVIOUS
  <2>2. d + 1 \in 1..k /\ d + 1 \in 0..k /\ (d + 1) - 1 = d /\ k \in 0..k
    BY <1>4, <2>1
  <2>3. at[d + 1] \in Nat /\ at[d + 1] = at[d] + HeaderSize + Len(sent[d + 1])
    BY <1>1, <2>2 DEF Stream, Layout
  <2>4. at[d + 1] <= at[k]
    <3>1. d + 1 = k \/ d + 1 < k
      BY <1>4, <2>1
    <3>2. d + 1 < k => at[d + 1] + HeaderSize <= at[k]
      BY <1>5, <2>2
    <3> QED  BY <1>5, <2>3, <3>1, <3>2 DEF HeaderSize
  <2>5. Len(sent[d + 1]) \in Nat
    <3>1. sent[d + 1] \in Seq(Byte)
      BY <1>2, <2>2, ElementOfSeq, FramingAssumption DEF TypeOK
    <3> QED  BY <3>1, LenProperties
  <2> QED  BY <2>3, <2>4, <2>5
<1>8. ASSUME readState = ReadLength, closed = "close"
      PROVE  delivered = sent
  <2>1. c = at[d]
    <3>1. AtHeader(S, at, c) /\ readState.pos = 0
      BY <1>1, <1>8 DEF Stream, Place, InFrame, ReadLength
    <3> QED  BY <1>3, <1>5, <3>1 DEF AtHeader
  <2>2. ~(d < k)
    BY <1>4, <1>5, <1>6, <1>7, <1>8, <2>1 DEF HeaderSize
  <2>3. d = k
    BY <1>4, <2>2
  <2>4. delivered \in Seq(Seq(Byte)) /\ sent \in Seq(Seq(Byte))
    BY <1>2, SeqMonotonic, FramingAssumption DEF TypeOK
  <2> QED  BY <1>2, <2>3, <2>4, SeqEqual DEF FramesIntact
<1>9. ASSUME readState # ReadLength
      PROVE  closed = "drop" /\ d < k
  <2>1. CASE AtHeader(S, at, c)
    <3>1. readState.kind = "ReadLength" /\ readState.pos \in 0..1
      BY <1>2, <2>1 DEF AtHeader, TypeOK
    <3>2. readState.pos = 1
      BY <1>9, <2>1, <3>1 DEF AtHeader
    <3>3. d < k /\ c = at[d] + 1
      BY <1>3, <1>5, <2>1, <3>2 DEF AtHeader
    <3>4. closed # "close"
      <4> DEFINE a == at[d]
                 m == Len(sent[d + 1])
      <4>1. /\ a \in Nat /\ m \in Nat /\ HeaderSize = 4
            /\ c = a + 1 /\ at[d + 1] = a + HeaderSize + m
        BY <1>5, <1>7, <3>3 DEF HeaderSize
      <4> HIDE DEF a, m
      <4>2. c < at[d + 1]
        BY <4>1
      <4>3. Len(S) < at[d + 1] \/ closed # "close"
        BY <1>6, <4>2
      <4> QED  BY <1>4, <1>5, <1>7, <3>3, <4>3
    <3> QED  BY <1>2, <3>3, <3>4 DEF TypeOK
  <2>2. CASE InFrame(at, c)
    <3>1. /\ readState.kind = "ReadData" /\ d < k /\ c = at[d] + HeaderSize + readState.pos
          /\ readState.len = Len(sent[d + 1])
      BY <2>2 DEF InFrame
    <3>2. readState.pos \in Nat /\ readState.pos < readState.len
      BY <1>2, <3>1 DEF TypeOK
    <3>3. closed # "close"
      <4>1. Len(S) < at[d + 1] \/ closed # "close"
        <5> DEFINE a == at[d]
                   q == readState.pos
                   m == Len(sent[d + 1])
        <5>1. /\ a \in Nat /\ q \in Nat /\ m \in Nat /\ q < m /\ HeaderSize \in Nat
              /\ c = a + HeaderSize + q /\ at[d + 1] = a + HeaderSize + m
          BY <1>5, <1>7, <3>1, <3>2 DEF HeaderSize
        <5> HIDE DEF a, q, m
        <5>2. c < at[d + 1]
          BY <5>1
        <5> QED  BY <1>6, <5>2
      <4> QED  BY <1>4, <1>5, <1>7, <3>1, <4>1
    <3> QED  BY <1>2, <3>1, <3>3 DEF TypeOK
  <2> QED  BY <1>1, <2>1, <2>2 DEF Stream, Place
<1> QED  BY <1>8, <1>9

\* The reader has all frames: it is where the raw bytes begin, or as far behind
\* as the new owner has read.
LEMMA AllDelivered ==
  ASSUME IInv, Len(delivered) = FrameCount, NEW S, NEW at, NEW c, Stream(S, at, c)
  PROVE  /\ Len(sent) = FrameCount /\ delivered = sent
         /\ readState = ReadLength /\ readBuffer = <<>>
         /\ c = at[Len(sent)] + Len(rawReceived)
         /\ Len(rawReceived) + Len(wire) + Len(writeBuffer) <= Len(rawSent)
         /\ \A i \in 1..Len(wire) : wire[i] = rawSent[Len(rawReceived) + i]
<1> DEFINE k == Len(sent)
           r == Len(rawReceived)
           w == Len(wire)
           b == Len(writeBuffer)
           m == Len(rawSent)
<1>1. TypeOK /\ WriterOrder /\ ReaderOrder /\ FramesIntact
  BY DEF IInv
<1>2. /\ k \in Nat /\ r \in Nat /\ w \in Nat /\ b \in Nat /\ m \in Nat
      /\ k <= FrameCount /\ FrameCount <= k /\ FrameCount \in Nat
  BY <1>1, BufferLengths, FramingAssumption DEF WriterOrder, FramesIntact
<1>3. k = FrameCount
  BY <1>2
<1>4. delivered = sent
  <2>1. delivered \in Seq(Seq(Byte)) /\ sent \in Seq(Seq(Byte))
    BY <1>1, SeqMonotonic, FramingAssumption DEF TypeOK
  <2> QED  BY <1>1, <1>3, <2>1, SeqEqual DEF FramesIntact
<1>5. /\ at[k] \in Nat /\ Len(S) = at[k] + m
      /\ \A j \in 1..m : S[at[k] + j] = rawSent[j]
  <2>1. k \in 0..k
    BY <1>2
  <2> QED  BY <2>1 DEF Stream, Layout
<1>6. /\ c \in Nat /\ c + w + b <= Len(S) /\ \A i \in 1..w : wire[i] = S[c + i]
  BY DEF Stream, Transit
<1>7. AtHeader(S, at, c) /\ readState.kind = "ReadLength"
  <2>1. ~InFrame(at, c)
    BY <1>2 DEF InFrame
  <2> QED  BY <2>1 DEF Stream, Place, AtHeader
<1>8. readState.pos = 0 /\ readState = ReadLength /\ readBuffer = <<>>
  <2>1. readState.pos \in 0..1 /\ readBuffer = <<>>
    BY <1>1, <1>7 DEF TypeOK
  <2>2. readState.pos # 1
    BY <1>2, <1>7 DEF AtHeader
  <2> QED  BY <1>7, <2>1, <2>2 DEF AtHeader
<1>9. c = at[k] + r
  <2>1. c = at[k] + 0 + r
    BY <1>3, <1>7, <1>8 DEF AtHeader
  <2> QED  BY <1>2, <1>5, <2>1
<1> HIDE DEF r, w, b, m
<1>10. r + w + b <= m
  <2> DEFINE a == at[k]
  <2>1. a \in Nat /\ a + r + w + b <= a + m
    BY <1>5, <1>6, <1>9
  <2> HIDE DEF a
  <2> QED  BY <1>2, <2>1
<1>11. ASSUME NEW i \in 1..w  PROVE  wire[i] = rawSent[r + i]
  <2>1. r + i \in 1..m /\ at[k] + (r + i) = c + i
    BY <1>2, <1>5, <1>9, <1>10
  <2> QED  BY <1>5, <1>6, <2>1
<1> QED  BY <1>3, <1>4, <1>8, <1>9, <1>10, <1>11 DEF r, w, b, m

LEMMA ReadEOFInv ==
  ASSUME IInv, ReadEOF, Len(delivered) < FrameCount
  PROVE  IInv'
<1>1. PICK S, at, c : Stream(S, at, c)
  BY DEF IInv
<1>2. TypeOK /\ TypeOK' /\ WriterOrder /\ ReaderOrder /\ FramesIntact
  BY EndType DEF IInv
<1>3. /\ Reading /\ wire = <<>> /\ closed # "open"
      /\ end' = IF readState = ReadLength THEN "None" ELSE "UnexpectedEof"
      /\ UNCHANGED <<writer, wire, readState, readBuffer, handedOff, delivered, rawReceived>>
  BY DEF ReadEOF
<1>4. CleanEnd'
  BY <1>3, EndOfStream DEF CleanEnd, writer
<1>5. WriterOrder' /\ ReaderOrder' /\ FramesIntact'
  BY <1>2, <1>3 DEF WriterOrder, ReaderOrder, FramesIntact, writer
<1>6. Stream(S, at, c)'
  BY <1>1, <1>3 DEF Stream, Layout, Transit, Place, AtHeader, InFrame, writer
<1> QED  BY <1>2, <1>4, <1>5, <1>6 DEF IInv

LEMMA IntoInnerInv ==
  ASSUME IInv, IntoInner
  PROVE  IInv'
<1>1. PICK S, at, c : Stream(S, at, c)
  BY DEF IInv
<1>2. TypeOK /\ TypeOK' /\ WriterOrder /\ ReaderOrder /\ FramesIntact /\ CleanEnd
  BY EndType DEF IInv
<1>3. /\ Reading /\ Len(delivered) = FrameCount
      /\ UNCHANGED <<writer, wire, readState, readBuffer, end, delivered, rawReceived>>
  BY DEF IntoInner
<1>4. readState = ReadLength
  BY <1>1, <1>3, AllDelivered
<1>5. WriterOrder' /\ ReaderOrder' /\ FramesIntact' /\ CleanEnd'
  BY <1>2, <1>3, <1>4
     DEF WriterOrder, ReaderOrder, FramesIntact, CleanEnd, Reading, writer
<1>6. Stream(S, at, c)'
  BY <1>1, <1>3 DEF Stream, Layout, Transit, Place, AtHeader, InFrame, writer
<1> QED  BY <1>2, <1>5, <1>6 DEF IInv

LEMMA RawReadInv ==
  ASSUME IInv, RawRead
  PROVE  /\ IInv'
         /\ delivered = sent /\ Len(rawReceived) < Len(rawSent)
         /\ rawReceived' = Append(rawReceived, rawSent[Len(rawReceived) + 1])
<1>1. PICK S, at, c : Stream(S, at, c)
  BY DEF IInv
<1>2. TypeOK /\ TypeOK' /\ WriterOrder /\ ReaderOrder /\ FramesIntact /\ CleanEnd
  BY EndType DEF IInv
<1>3. /\ handedOff /\ wire # <<>> /\ wire' = Tail(wire)
      /\ rawReceived' = Append(rawReceived, Head(wire))
      /\ UNCHANGED <<writer, readState, readBuffer, end, handedOff, delivered>>
  BY DEF RawRead
<1> DEFINE r == Len(rawReceived)
           k == Len(sent)
<1>4. /\ wire \in Seq(Byte) /\ Len(wire) \in Nat /\ Len(wire) # 0 /\ 1 \in 1..Len(wire)
      /\ r \in Nat /\ k \in Nat /\ Len(rawSent) \in Nat /\ Len(writeBuffer) \in Nat
  BY <1>2, <1>3, BufferLengths, EmptySeq DEF TypeOK
<1>5. Len(delivered) = FrameCount /\ readState = ReadLength
  BY <1>2, <1>3 DEF ReaderOrder
<1>6. /\ k = FrameCount /\ delivered = sent /\ c = at[k] + r
      /\ r + Len(wire) + Len(writeBuffer) <= Len(rawSent)
      /\ wire[1] = rawSent[r + 1]
  BY <1>1, <1>4, <1>5, AllDelivered
<1>7. r < Len(rawSent)
  BY <1>4, <1>6
<1>8. rawReceived' = Append(rawReceived, rawSent[r + 1])
  BY <1>3, <1>4, <1>6
<1>9. /\ Len(rawReceived') = r + 1 /\ rawReceived'[r + 1] = rawSent[r + 1]
      /\ \A i \in 1..r : rawReceived'[i] = rawReceived[i]
  <2>1. rawSent[r + 1] \in Byte /\ rawReceived \in Seq(Byte)
    <3>1. r + 1 \in 1..Len(rawSent)
      BY <1>4, <1>7
    <3> QED  BY <1>2, <3>1, ElementOfSeq DEF TypeOK
  <2> QED  BY <1>8, <2>1, AppendProperties
<1>10. ReaderOrder'
  <2>1. r + 1 <= Len(rawSent)
    BY <1>4, <1>7
  <2>2. \A i \in 1..r : rawReceived[i] = rawSent[i]
    BY <1>2 DEF ReaderOrder
  <2> HIDE DEF r
  <2>3. \A i \in 1..(r + 1) : i \in 1..r \/ i = r + 1
    BY <1>4
  <2>4. \A i \in 1..(r + 1) : rawReceived'[i] = rawSent[i]
    BY <1>9, <2>2, <2>3
  <2>5. /\ Len(rawReceived') <= Len(rawSent)
        /\ \A i \in 1..Len(rawReceived') : rawReceived'[i] = rawSent[i]
    BY <1>9, <2>1, <2>4
  <2>6. rawSent' = rawSent /\ closed' = closed
    BY <1>3 DEF writer
  <2> QED  BY <1>2, <1>3, <2>5, <2>6 DEF ReaderOrder
<1>11. Transit(S, c + 1)' /\ c \in Nat
  <2>1. wire' = SubSeq(wire, 1 + 1, Len(wire))
    BY <1>3, <1>4, TailIsSubSeq
  <2> QED  BY <1>1, <1>2, <1>3, <1>4, <2>1, Advance DEF Stream
<1>12. Place(S, at, c + 1)'
  <2>1. ReadLength.kind = "ReadLength" /\ ReadLength.pos = 0
    BY DEF ReadLength
  <2>2. at[k] \in Nat
    <3>1. k \in 0..k
      BY <1>4
    <3> QED  BY <1>1, <3>1 DEF Stream, Layout
  <2>3. c + 1 = at[k] + 0 + (r + 1)
    <3> DEFINE a == at[k]
    <3>1. c = a + r /\ a \in Nat /\ r \in Nat
      BY <1>4, <1>6, <2>2
    <3> HIDE DEF a, r
    <3>2. c + 1 = a + 0 + (r + 1)
      BY <3>1
    <3> QED  BY <3>2 DEF a
  <2>4. c + 1 = at[Len(delivered)] + ReadLength.pos + Len(rawReceived')
    <3>1. Len(delivered) = k /\ Len(rawReceived') = r + 1
      BY <1>6, <1>9
    <3> HIDE DEF k, r
    <3> QED  BY <2>1, <2>3, <3>1
  <2> QED  BY <1>3, <1>5, <2>1, <2>4 DEF Place, AtHeader
<1>13. Layout(S, at, sent, rawSent)'
  BY <1>1, <1>3 DEF Stream, writer
<1>14. WriterOrder' /\ FramesIntact' /\ CleanEnd'
  BY <1>2, <1>3 DEF WriterOrder, FramesIntact, CleanEnd, writer
<1> QED  BY <1>2, <1>6, <1>7, <1>8, <1>10, <1>11, <1>12, <1>13, <1>14 DEF IInv, Stream

LEMMA NextInv ==
  ASSUME HeaderCuts \subseteq {1}, IInv, [Next]_vars
  PROVE  IInv'
<1>1. CASE UNCHANGED vars
  <2>1. PICK S, at, c : Stream(S, at, c)
    BY DEF IInv
  <2>2. Layout(S, at, sent, rawSent)' /\ Transit(S, c)'
    BY <1>1, <2>1 DEF Stream, Transit, vars
  <2>3. Place(S, at, c)'
    BY <1>1, <2>1, PlaceKept DEF Stream, vars, reader
  <2>4. TypeOK' /\ WriterOrder' /\ ReaderOrder' /\ FramesIntact' /\ CleanEnd'
    BY <1>1, NextType DEF IInv, WriterOrder, ReaderOrder, FramesIntact, CleanEnd, vars
  <2> QED  BY <2>2, <2>3, <2>4 DEF IInv, Stream
<1>2. CASE ReaderStep
  BY <1>2, ReadHeaderInv, ReadDataInv, ReadEOFInv, IntoInnerInv, RawReadInv DEF ReaderStep
<1> QED  BY <1>1, <1>2, SendFrameInv, DrainInv, RawWriteInv, CloseInv DEF Next, Finished

-----------------------------------------------------------------------------
(* What follows.  A reader that may be handed two or three bytes of a      *)
(* header parses them as the length, so that nothing below holds of it.    *)

LEMMA IInvHolds == HeaderCuts \subseteq {1} /\ Spec => []IInv
<1> SUFFICES ASSUME HeaderCuts \subseteq {1}  PROVE Spec => []IInv
  OBVIOUS
<1>1. IInv /\ [Next]_vars => IInv'
  BY NextInv
<1> QED  BY <1>1, InitInv, PTL DEF Spec

\* What is delivered is what was sent, frame by frame, however reads and writes
\* are cut.
THEOREM FramesIntactHolds == HeaderCuts \subseteq {1} /\ Spec => []FramesIntact
<1>1. IInv => FramesIntact
  BY DEF IInv
<1> QED  BY <1>1, IInvHolds, PTL

LEMMA HandOver == IInv => HandOverExact
<1> SUFFICES ASSUME IInv, handedOff
             PROVE  /\ readBuffer = <<>> /\ readState = ReadLength
                    /\ writeBuffer = <<>> /\ rawSent = rawReceived \o wire
  BY DEF HandOverExact
<1>1. PICK S, at, c : Stream(S, at, c)
  BY DEF IInv
<1>2. TypeOK /\ WriterOrder /\ ReaderOrder
  BY DEF IInv
<1>3. Len(delivered) = FrameCount
  BY <1>2 DEF ReaderOrder
<1> DEFINE r == Len(rawReceived)
           w == Len(wire)
           b == Len(writeBuffer)
           m == Len(rawSent)
<1>4. r \in Nat /\ w \in Nat /\ b \in Nat /\ m \in Nat
  BY <1>2, BufferLengths
<1>5. /\ readState = ReadLength /\ readBuffer = <<>> /\ c = at[Len(sent)] + r
      /\ r + w + b <= m /\ \A i \in 1..w : wire[i] = rawSent[r + i]
  BY <1>1, <1>3, AllDelivered
<1>6. at[Len(sent)] \in Nat /\ Len(S) = at[Len(sent)] + m
  <2>1. Len(sent) \in 0..Len(sent)
    BY <1>2, BufferLengths
  <2> QED  BY <1>1, <2>1 DEF Stream, Layout
<1>7. b = 0 /\ writeBuffer = <<>>
  <2>1. writeBuffer = <<>>
    <3>1. CASE rawSent # <<>>
      BY <1>2, <3>1 DEF WriterOrder
    <3>2. CASE rawSent = <<>>
      <4>1. b = 0
        BY <1>4, <1>5, <3>2, EmptySeq
      <4> QED  BY <1>2, <4>1, EmptySeq DEF TypeOK
    <3> QED  BY <3>1, <3>2
  <2> QED  BY <2>1, EmptySeq
<1>8. r + w = m
  <2>1. CASE rawSent # <<>>
    <3>1. c + w + b = Len(S)
      BY <1>1, <2>1 DEF Stream, Transit
    <3> QED  BY <1>4, <1>5, <1>6, <1>7, <3>1
  <2>2. CASE rawSent = <<>>
    BY <1>4, <1>5, <1>7, <2>2, EmptySeq
  <2> QED  BY <2>1, <2>2
<1>9. rawSent = rawReceived \o wire
  <2> DEFINE t == rawReceived \o wire
  <2>1. /\ rawReceived \in Seq(Byte) /\ wire \in Seq(Byte) /\ rawSent \in Seq(Byte)
    BY <1>2 DEF TypeOK
  <2>2. /\ t \in Seq(Byte) /\ Len(t) = r + w
        /\ \A i \in 1..(r + w) : t[i] = IF i <= r THEN rawReceived[i] ELSE wire[i - r]
    BY <2>1, ConcatProperties
  <2>3. \A i \in 1..r : rawReceived[i] = rawSent[i]
    BY <1>2 DEF ReaderOrder
  <2> HIDE DEF t, r, w, m
  <2>4. ASSUME NEW i \in 1..(r + w)  PROVE  t[i] = rawSent[i]
    <3>1. CASE i <= r
      <4>1. i \in 1..r
        BY <1>4, <3>1
      <4> QED  BY <2>2, <2>3, <3>1, <4>1
    <3>2. CASE ~(i <= r)
      <4>1. i - r \in 1..w /\ r + (i - r) = i
        BY <1>4, <3>2
      <4> QED  BY <1>5, <2>2, <3>2, <4>1
    <3> QED  BY <3>1, <3>2
  <2>5. Len(rawSent) = Len(t) /\ \A i \in 1..Len(t) : t[i] = rawSent[i]
    BY <1>8, <2>2, <2>4 DEF m
  <2>6. t = rawSent
    BY <2>1, <2>2, <2>5, SeqEqual
  <2> QED  BY <2>6 DEF t
<1> QED  BY <1>5, <1>7, <1>9

\* Whoever takes the socket back finds the first raw byte next, and no byte is
\* lost in a buffer.
THEOREM HandOverExactHolds == HeaderCuts \subseteq {1} /\ Spec => []HandOverExact
BY HandOver, IInvHolds, PTL

\* After poll_close a clean end has lost nothing, and a cut frame is an error.
THEOREM CleanEndHolds == HeaderCuts \subseteq {1} /\ Spec => []CleanEnd
<1>1. IInv => CleanEnd
  BY DEF IInv
<1> QED  BY <1>1, IInvHolds, PTL

\* A reader's step that completes a frame delivers the next one sent.
LEMMA Delivers ==
  ASSUME IInv, IInv', NEW f \in Seq(Byte), delivered' = Append(delivered, f),
         UNCHANGED <<sent, rawSent, rawReceived>>
  PROVE  Channel!Deliver
<1> DEFINE d == Len(delivered)
<1>1. /\ TypeOK /\ Len(delivered') <= Len(sent)
      /\ \A i \in 1..Len(delivered') : delivered'[i] = sent[i]
  BY DEF IInv, FramesIntact
<1>2. d \in Nat /\ Len(sent) \in Nat
  BY <1>1, BufferLengths
<1>3. Len(delivered') = d + 1 /\ delivered'[d + 1] = f
  BY <1>1, AppendProperties DEF TypeOK
<1>4. d < Len(sent) /\ d + 1 \in 1..Len(delivered')
  BY <1>1, <1>2, <1>3
<1>5. f = sent[d + 1]
  BY <1>1, <1>3, <1>4
<1> QED  BY <1>4, <1>5 DEF Channel!Deliver

LEMMA ChannelStep ==
  ASSUME IInv, IInv', [Next]_vars
  PROVE  [Channel!Next]_Channel!vars
<1> USE DEF Channel!vars
<1>1. TypeOK /\ WriterOrder
  BY DEF IInv
<1>2. CASE SendFrame
  <2>1. rawSent = <<>>
    <3>1. Len(sent) < FrameCount /\ Len(sent) \in Nat /\ FrameCount \in Nat
      BY <1>1, <1>2, BufferLengths, FramingAssumption DEF SendFrame
    <3> QED  BY <1>1, <3>1 DEF WriterOrder
  <2>2. PICK f \in Payloads : sent' = Append(sent, f)
    BY <1>2 DEF SendFrame
  <2>3. Channel!Send(f)
    BY <1>2, <2>1, <2>2 DEF SendFrame, Channel!Send, reader
  <2> QED  BY <2>3 DEF Channel!Next
<1>3. CASE Drain \/ Close \/ DropWriter
  BY <1>3 DEF Drain, Close, DropWriter, reader
<1>4. CASE RawWrite
  <2>1. PICK b \in Byte : rawSent' = Append(rawSent, b)
    BY <1>4 DEF RawWrite
  <2>2. Channel!SendRaw(b)
    BY <1>4, <2>1 DEF RawWrite, Channel!SendRaw, reader
  <2> QED  BY <2>2 DEF Channel!Next
<1>5. CASE ReadHeader
  <2>1. UNCHANGED <<sent, rawSent, rawReceived>>
    BY <1>5 DEF ReadHeader, writer
  <2>2. delivered' = delivered \/ delivered' = Append(delivered, <<>>)
    BY <1>5 DEF ReadHeader
  <2> QED  BY <2>1, <2>2, Delivers, EmptySeq DEF Channel!Next
<1>6. CASE ReadData
  <2>1. UNCHANGED <<sent, rawSent, rawReceived>>
    BY <1>6 DEF ReadData, writer
  <2>2. delivered' = delivered \/ \E f \in Seq(Byte) : delivered' = Append(delivered, f)
    <3>1. readState \in [kind : {"ReadData"}, len : Lengths \ {0}, pos : Nat]
          /\ Len(readBuffer) = readState.len /\ readBuffer \in Seq(Byte)
      BY <1>1, <1>6 DEF ReadData, TypeOK
    <3>2. readState.pos \in Nat /\ readState.len \in Nat
          /\ readBuffer \in [1..readState.len -> Byte]
      <4>1. readState.pos \in Nat /\ readState.len \in Lengths
        BY <3>1
      <4> QED  BY <3>1, <4>1, LenProperties, FramingAssumption DEF Lengths
    <3>3. delivered' = delivered \/ \E n \in 1..Len(wire) :
            delivered' = Append(delivered, Filled(readBuffer, readState.pos, n, readState.len))
      BY <1>6 DEF ReadData, Filled
    <3> QED  BY <1>1, <3>2, <3>3, FilledType
  <2> QED  BY <2>1, <2>2, Delivers DEF Channel!Next
<1>7. CASE ReadEOF \/ IntoInner
  BY <1>7 DEF ReadEOF, IntoInner, writer
<1>8. CASE RawRead
  <2>1. Channel!ReceiveRaw
    BY <1>8, RawReadInv DEF RawRead, Channel!ReceiveRaw, writer
  <2> QED  BY <2>1 DEF Channel!Next
<1>9. CASE Finished \/ UNCHANGED vars
  BY <1>9 DEF Finished, vars
<1> QED  BY <1>2, <1>3, <1>4, <1>5, <1>6, <1>7, <1>8, <1>9 DEF Next, ReaderStep

\* Two buffers, a transport that cuts what it carries and a parser make a channel
\* of whole frames, with raw bytes behind the last of them.
THEOREM ImplementsChannel == HeaderCuts \subseteq {1} /\ Spec => ChannelSpec
<1> SUFFICES ASSUME HeaderCuts \subseteq {1}  PROVE Spec => ChannelSpec
  OBVIOUS
<1>1. Init => Channel!Init
  BY DEF Init, Channel!Init
<1>2. IInv /\ IInv' /\ [Next]_vars => [Channel!Next]_Channel!vars
  BY ChannelStep
<1>3. Spec => []IInv
  BY IInvHolds
<1> QED  BY <1>1, <1>2, <1>3, PTL DEF Spec, ChannelSpec, Channel!Spec
=============================================================================
