-------------------------- MODULE QuicConnectionProofs --------------------------
(***************************************************************************)
(* Proofs about QuicConnection for any number of streams: types, and when  *)
(* a stored future can be found completed.                                 *)
(***************************************************************************)
EXTENDS QuicConnection, TLAPS

\* A completed future is left behind only by a call that returned an error.
LeftByError == \A c \in Call : slot[c] = "completed" => c \in errors

IInv == TypeOK /\ LeftByError /\ PanicsOnlyAfterError

-----------------------------------------------------------------------------
(* Facts about the streams quinn holds and the slots. *)

LEMMA HeadMoves ==
  ASSUME NEW S, NEW q \in Seq(S), NEW r \in Seq(S), q # <<>>
  PROVE  Append(r, Head(q)) \in Seq(S) /\ Tail(q) \in Seq(S)
OBVIOUS

LEMMA AppendType ==
  ASSUME NEW S, NEW q \in Seq(S), NEW x \in S PROVE Append(q, x) \in Seq(S)
OBVIOUS

\* One call writes its own slot, and completes it only with an error.
LEMMA SetSlot ==
  ASSUME IInv, NEW c \in Call, NEW v \in {"None", "waiting", "completed"},
         Set(c, v), errors' \subseteq Call, errors \subseteq errors',
         v = "completed" => c \in errors' /\ conn = "lost", conn' = conn
  PROVE  /\ slot' \in [Call -> {"None", "waiting", "completed"}] /\ LeftByError'
         /\ \A d \in Call : slot'[d] = "completed" => conn' = "lost"
<1>1. /\ slot \in [Call -> {"None", "waiting", "completed"}]
      /\ \A d \in Call : slot[d] = "completed" => d \in errors
      /\ \A d \in Call : slot[d] = "completed" => conn = "lost"
  BY DEF IInv, TypeOK, LeftByError
<1>2. slot' = [slot EXCEPT ![c] = v]
  BY DEF Set
<1>3. slot' \in [Call -> {"None", "waiting", "completed"}]
  BY <1>1, <1>2
<1>4. ASSUME NEW d \in Call, slot'[d] = "completed" PROVE d \in errors' /\ conn' = "lost"
  <2>1. CASE d = c
    BY <1>1, <1>2, <1>4, <2>1
  <2>2. CASE d # c
    BY <1>1, <1>2, <1>4, <2>2
  <2> QED  BY <2>1, <2>2
<1> QED  BY <1>3, <1>4 DEF LeftByError

-----------------------------------------------------------------------------
(* The invariant. *)

LEMMA InitInv == Init => IInv
<1> SUFFICES ASSUME Init PROVE IInv
  OBVIOUS
<1>1. queue \in Seq(1..MaxStreams) /\ accepted \in Seq(1..MaxStreams)
  BY DEF Init
<1>2. arrived \in 0..MaxStreams /\ permits \in 0..MaxStreams
  BY StreamsAssumption DEF Init
<1>3. slot \in [Call -> {"None", "waiting", "completed"}] /\ LeftByError
  BY DEF Init, LeftByError
<1>4. TypeOK
  BY <1>1, <1>2, <1>3 DEF Init, TypeOK
<1> QED  BY <1>3, <1>4 DEF Init, IInv, PanicsOnlyAfterError

\* The futures and what has gone wrong are as they were.
Calm == UNCHANGED <<slot, errors, panic>>

LEMMA CalmStep ==
  ASSUME IInv, Calm PROVE LeftByError' /\ PanicsOnlyAfterError'
BY DEF IInv, Calm, LeftByError, PanicsOnlyAfterError

LEMMA CallStep ==
  ASSUME IInv, NEW c \in Call, NEW v \in {"None", "waiting", "completed"}, Set(c, v),
         errors' = errors \/ errors' = errors \cup {c},
         v = "completed" => c \in errors' /\ conn = "lost",
         UNCHANGED <<connecting, remote, panic>>,
         permits' \in 0..MaxStreams,
         queue' \in Seq(1..MaxStreams), accepted' \in Seq(1..MaxStreams)
  PROVE  IInv'
<1>1. errors' \subseteq Call /\ errors \subseteq errors'
  BY DEF IInv, TypeOK
<1>2. /\ slot' \in [Call -> {"None", "waiting", "completed"}] /\ LeftByError'
      /\ \A d \in Call : slot'[d] = "completed" => conn' = "lost"
  BY <1>1, SetSlot DEF remote
<1>3. TypeOK'
  BY <1>1, <1>2 DEF IInv, TypeOK, connecting, remote
<1>4. PanicsOnlyAfterError'
  BY <1>1 DEF IInv, PanicsOnlyAfterError
<1> QED  BY <1>2, <1>3, <1>4 DEF IInv

LEMMA InvStep ==
  ASSUME IInv, Next PROVE IInv'
<1>1. TypeOK /\ LeftByError
  BY DEF IInv
<1>2. /\ queue \in Seq(1..MaxStreams) /\ accepted \in Seq(1..MaxStreams)
      /\ permits \in 0..MaxStreams /\ arrived \in 0..MaxStreams /\ MaxStreams \in Nat
  BY <1>1, StreamsAssumption DEF TypeOK
<1>3. {"inbound", "outbound", "close"} \subseteq Call
  BY DEF Call
<1>4. CASE Handshake \/ Expire \/ Lose \/ PollConnecting
  <2>1. Calm
    BY <1>4 DEF Handshake, Expire, Lose, PollConnecting, Calm
  <2>2. TypeOK'
    BY <1>1, <1>4 DEF TypeOK, Handshake, Expire, Lose, PollConnecting, connecting,
         remote
  <2> QED  BY <2>1, <2>2, CalmStep DEF IInv
<1>5. CASE RemoteOpens
  <2>1. Calm
    BY <1>5 DEF RemoteOpens, Calm
  <2>2. arrived + 1 \in 1..MaxStreams
    BY <1>2, <1>5 DEF RemoteOpens
  <2>3. queue' \in Seq(1..MaxStreams) /\ arrived' \in 0..MaxStreams
    BY <1>2, <1>5, <2>2, AppendType DEF RemoteOpens
  <2>4. TypeOK'
    BY <1>1, <1>5, <2>3 DEF TypeOK, RemoteOpens, connecting
  <2> QED  BY <2>1, <2>4, CalmStep DEF IInv
<1>6. CASE RemotePermits
  <2>1. Calm
    BY <1>6 DEF RemotePermits, Calm
  <2>2. permits' \in 0..MaxStreams
    BY <1>2, <1>6 DEF RemotePermits
  <2>3. TypeOK'
    BY <1>1, <1>6, <2>2 DEF TypeOK, RemotePermits, connecting, remote
  <2> QED  BY <2>1, <2>3, CalmStep DEF IInv
<1>7. ASSUME NEW c \in Call, CallFails(c), conn = "lost",
             UNCHANGED <<connecting, remote, panic>>
      PROVE IInv'
  BY <1>2, <1>7, CallStep DEF CallFails
<1>8. ASSUME NEW c \in Call, CallWaits(c), UNCHANGED <<connecting, remote, panic>>
      PROVE IInv'
  BY <1>2, <1>8, CallStep DEF CallWaits
<1>9. CASE PollInbound
  <2>1. UNCHANGED <<connecting, remote, panic>>
    BY <1>9 DEF PollInbound
  <2>2. CASE /\ queue # <<>>
             /\ accepted' = Append(accepted, Head(queue)) /\ queue' = Tail(queue)
             /\ Set("inbound", "None") /\ UNCHANGED <<permits, errors>>
    <3>1. queue' \in Seq(1..MaxStreams) /\ accepted' \in Seq(1..MaxStreams)
      BY <1>2, <2>2, HeadMoves
    <3> QED  BY <1>2, <1>3, <2>1, <2>2, <3>1, CallStep
  <2> QED  BY <1>3, <1>7, <1>8, <1>9, <2>1, <2>2 DEF PollInbound
<1>10. CASE PollOutbound
  <2>1. UNCHANGED <<connecting, remote, panic>>
    BY <1>10 DEF PollOutbound
  <2>2. CASE /\ permits > 0 /\ permits' = permits - 1
             /\ Set("outbound", "None") /\ UNCHANGED <<queue, accepted, errors>>
    <3>1. permits' \in 0..MaxStreams
      BY <1>2, <2>2
    <3> QED  BY <1>2, <1>3, <2>1, <2>2, <3>1, CallStep
  <2> QED  BY <1>3, <1>7, <1>8, <1>10, <2>1, <2>2 DEF PollOutbound
<1>11. CASE PollClose
  BY <1>3, <1>7, <1>8, <1>11 DEF PollClose
<1>12. ASSUME NEW c \in Call, Resume(c) PROVE IInv'
  <2>1. slot' = slot /\ errors' = errors /\ panic' = TRUE /\ slot[c] = "completed"
    BY <1>12 DEF Resume
  <2>2. c \in errors
    BY <1>1, <2>1 DEF LeftByError
  <2>3. LeftByError' /\ PanicsOnlyAfterError'
    BY <1>1, <2>1, <2>2 DEF LeftByError, PanicsOnlyAfterError
  <2>4. TypeOK'
    BY <1>1, <1>12 DEF TypeOK, Resume, connecting, remote
  <2> QED  BY <2>3, <2>4 DEF IInv
<1> QED  BY <1>4, <1>5, <1>6, <1>9, <1>10, <1>11, <1>12 DEF Next

LEMMA Invariance == Spec => []IInv
<1>1. IInv /\ [Next]_vars => IInv'
  <2> SUFFICES ASSUME IInv, [Next]_vars PROVE IInv'
    OBVIOUS
  <2>1. CASE Next
    BY <2>1, InvStep
  <2>2. CASE UNCHANGED vars
    BY <2>2 DEF vars, IInv, TypeOK, LeftByError, PanicsOnlyAfterError
  <2> QED  BY <2>1, <2>2
<1> QED  BY <1>1, InitInv, PTL DEF Spec

-----------------------------------------------------------------------------
(* Theorems. *)

\* The type invariant: no more permits and streams than the peer allows, and a
\* future left completed in its slot is one that found the connection lost.
THEOREM TypeCorrect == Spec => []TypeOK
<1>1. IInv => TypeOK
  BY DEF IInv
<1> QED  BY <1>1, Invariance, PTL

\* In whatever order the application calls the three polls, and whatever the
\* remote does between the calls, a stored future is found completed only when
\* an earlier call on this connection has returned an error.
THEOREM PanicsOnlyAfterErrorHolds == Spec => []PanicsOnlyAfterError
<1>1. IInv => PanicsOnlyAfterError
  BY DEF IInv
<1> QED  BY <1>1, Invariance, PTL
=============================================================================
