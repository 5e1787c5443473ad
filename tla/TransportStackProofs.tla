-------------------------- MODULE TransportStackProofs --------------------------
(***************************************************************************)
(* Proofs about TransportStack for every set of stacks of layers, every    *)
(* number of connections and every number of faults: types, that the       *)
(* layers agree, and that a stack implements ConnectionService.            *)
(***************************************************************************)
EXTENDS TransportStack, TLAPS

-----------------------------------------------------------------------------
(* Facts about stacks. *)

LEMMA StackFacts ==
  ASSUME stack \in Stacks
  PROVE  /\ Top \in Nat \ {0} /\ Layers = 1..Top
         /\ stack[1] \in Base
         /\ \A k \in Layers : k # 1 => stack[k] \in Combinator
<1>1. stack \in Seq(Base \cup Combinator) /\ stack # <<>>
  BY StacksAssumption
<1>2. Len(stack) \in Nat \ {0} /\ DOMAIN stack = 1..Len(stack)
  BY <1>1
<1> QED  BY <1>2, StacksAssumption DEF Layers, Top

\* What depends on the stack alone does not change.
LEMMA SameStack ==
  ASSUME UNCHANGED stack
  PROVE  Layers' = Layers /\ Top' = Top /\ Errors' = Errors
BY DEF Layers, Top, Errors, Wrapped, Wrapper

LEMMA RoleType == \A c \in Conn : Role(c) \in {"dialer", "listener"}
BY DEF Role

LEMMA HeadTail ==
  ASSUME NEW S, NEW q \in Seq(S), q # <<>>
  PROVE  /\ Head(q) \in S /\ Tail(q) \in Seq(S)
         /\ Head(q) = q[1] /\ Len(Tail(q)) = Len(q) - 1
         /\ \A i \in 1..Len(Tail(q)) : Tail(q)[i] = q[i + 1]
         /\ Len(q) \in Nat \ {0}
OBVIOUS

-----------------------------------------------------------------------------
(* Type correctness. *)

LEMMA InitType == Init => TypeOK
<1> SUFFICES ASSUME Init PROVE TypeOK
  OBVIOUS
<1>1. 1 \in Layers
  BY StackFacts DEF Init
<1>2. err \in [Conn -> Errors]
  BY DEF Init, Errors
<1>3. /\ level \in [Conn -> Layers]
      /\ args \in [Conn -> [Layers -> {"none", "dialer", "listener"}]]
      /\ calls \in [Conn -> [Layers -> Seq({"dialer", "listener"})]]
      /\ verdict \in [Conn -> [Layers -> {"none", "ok", "err"}]]
  BY <1>1 DEF Init
<1>4. (stack[1] # "quic") \in BOOLEAN
  OBVIOUS
<1>5. pendingEvent \in BOOLEAN
  BY <1>4 DEF Init
<1>6. /\ phase \in [Conn -> {"idle", "queued", "refused", "pending", "connected",
                            "failed", "panicked"}]
      /\ watch \in [Conn -> BOOLEAN] /\ faults \in 0..MaxFaults
  BY FaultsAssumption DEF Init
<1>7. backlog \in Seq(Inbound) /\ events \in Seq(Inbound \cup {"listened", "error"})
  BY DEF Init
<1>8. /\ stack \in Stacks /\ listener \in {"none", "live", "refused", "panicked"}
      /\ accept \in {"waiting", "completed"} /\ endpoint \in {"open", "lost"}
  BY DEF Init
<1>9. acceptWaker \in BOOLEAN /\ woken \subseteq Conn \cup {"server"}
  BY DEF Init
<1> QED  BY <1>2, <1>3, <1>5, <1>6, <1>7, <1>8, <1>9, Zenon DEF TypeOK

LEMMA BeginType ==
  ASSUME TypeOK, NEW c \in Conn, Begin(c)
  PROVE  /\ phase' \in [Conn -> {"idle", "queued", "refused", "pending", "connected",
                                 "failed", "panicked"}]
         /\ args' \in [Conn -> [Layers -> {"none", "dialer", "listener"}]]
<1>1. Kept(c) \in [Layers -> {"none", "dialer", "listener"}]
  BY RoleType DEF Kept
<1> QED  BY <1>1 DEF Begin, TypeOK

\* Only Ascend and Begin touch what the layers keep and were called with.
LEMMA AscendType == ASSUME TypeOK, NEW c \in Conn, Ascend(c) PROVE TypeOK'
<1> DEFINE k == level[c] + 1
<1>1. k \in Layers /\ UNCHANGED stack
  BY StackFacts DEF Ascend, TypeOK
<1>2. CASE ~HasArgs(k) /\ level' = [level EXCEPT ![c] = k] /\ UNCHANGED <<phase, args, calls>>
  BY <1>1, <1>2, SameStack DEF Ascend, TypeOK, serving
<1>3. CASE /\ HasArgs(k) /\ args[c][k] # "none"
           /\ level' = [level EXCEPT ![c] = k]
           /\ calls' = [calls EXCEPT ![c][k] = Append(@, args[c][k])]
           /\ args' = [args EXCEPT ![c][k] = "none"]
           /\ UNCHANGED phase
  <2>1. args[c][k] \in {"dialer", "listener"} /\ calls[c][k] \in Seq({"dialer", "listener"})
    BY <1>1, <1>3 DEF TypeOK
  <2>2. Append(calls[c][k], args[c][k]) \in Seq({"dialer", "listener"})
    BY <2>1
  <2>3. calls' \in [Conn -> [Layers -> Seq({"dialer", "listener"})]]
    BY <2>2, <1>1, <1>3 DEF TypeOK
  <2>4. args' \in [Conn -> [Layers -> {"none", "dialer", "listener"}]]
    BY <1>1, <1>3 DEF TypeOK
  <2>5. level' \in [Conn -> Layers]
    BY <1>1, <1>3 DEF TypeOK
  <2> QED  BY <2>3, <2>4, <2>5, <1>1, <1>3, SameStack
           DEF Ascend, TypeOK, serving
<1>4. CASE phase' = [phase EXCEPT ![c] = "panicked"] /\ UNCHANGED <<level, args, calls>>
  BY <1>1, <1>4, SameStack DEF Ascend, TypeOK, serving
<1> QED  BY <1>2, <1>3, <1>4 DEF Ascend

LEMMA PollType == ASSUME TypeOK, NEW c \in Conn, Poll(c) PROVE TypeOK'
<1> USE SameStack DEF TypeOK, serving, connecting
<1>1. CASE Ascend(c)
  BY <1>1, AscendType
<1>2. CASE Complete(c)
  BY <1>2 DEF Complete
<1>3. CASE Fail(c)
  <2>1. Wrapped(level[c]) \in Errors
    BY DEF Errors
  <2> QED  BY <1>3, <2>1 DEF Fail
<1>4. CASE Wait(c)
  BY <1>4 DEF Wait
<1> QED  BY <1>1, <1>2, <1>3, <1>4 DEF Poll

LEMMA PollNextType == ASSUME TypeOK, PollNext PROVE TypeOK'
<1> USE SameStack DEF TypeOK, serving, connecting
<1>1. CASE Listened
  <2>1. events' \in Seq(Inbound \cup {"listened", "error"})
    BY <1>1 DEF Listened, Yield
  <2> QED  BY <1>1, <2>1 DEF Listened
<1>2. CASE Incoming
  <2>1. Head(backlog) \in Inbound /\ Tail(backlog) \in Seq(Inbound) /\ Head(backlog) \in Conn
    BY <1>2, HeadTail DEF Incoming, Conn
  <2>2. Begin(Head(backlog))
    BY <1>2 DEF Incoming
  <2>3. events' \in Seq(Inbound \cup {"listened", "error"})
    BY <1>2, <2>1 DEF Incoming, Yield
  <2> QED  BY <1>2, <2>1, <2>2, <2>3, BeginType DEF Incoming
<1>3. CASE AcceptError
  <2>1. Head(backlog) \in Inbound /\ Tail(backlog) \in Seq(Inbound) /\ Head(backlog) \in Conn
    BY <1>3, HeadTail DEF AcceptError, Conn
  <2>2. events' \in Seq(Inbound \cup {"listened", "error"})
    BY <1>3 DEF AcceptError, Yield
  <2>3. backlog' \in Seq(Inbound)
    BY <1>3, <2>1 DEF AcceptError
  <2>5. faults' \in 0..MaxFaults
    BY <1>3, FaultsAssumption DEF AcceptError
  <2>4. phase' \in [Conn -> {"idle", "queued", "refused", "pending", "connected",
                             "failed", "panicked"}]
    BY <1>3, <2>1 DEF AcceptError
  <2> QED  BY <1>3, <2>2, <2>3, <2>4, <2>5 DEF AcceptError
<1>4. CASE AcceptPending
  BY <1>4 DEF AcceptPending
<1>5. CASE AcceptNone
  BY <1>5 DEF AcceptNone
<1>6. CASE ResumeAccept
  BY <1>6 DEF ResumeAccept
<1> QED  BY <1>1, <1>2, <1>3, <1>4, <1>5, <1>6 DEF PollNext

LEMMA DecideType ==
  ASSUME TypeOK, NEW c \in Conn, NEW k \in Layers, NEW v \in {"ok", "err"},
         Decide(c, k, v)
  PROVE  TypeOK'
BY SameStack DEF Decide, TypeOK, serving, connecting

LEMMA FirstLayer == TypeOK => 1 \in Layers /\ Wrapped(1) \in Errors
<1> SUFFICES ASSUME stack \in Stacks PROVE 1 \in Layers /\ Wrapped(1) \in Errors
  BY DEF TypeOK
<1>1. 1 \in Layers
  BY StackFacts
<1> QED  BY <1>1 DEF Errors

LEMMA VerdictType ==
  ASSUME TypeOK, NEW c \in Conn, Answer(c) \/ Expire(c)
  PROVE  TypeOK'
<1>1. CASE Answer(c)
  <2>1. PICK k \in Layers, v \in {"ok", "err"} : Decide(c, k, v)
    BY <1>1 DEF Answer
  <2> QED  BY <2>1, DecideType
<1>2. CASE Expire(c)
  <2>1. 1 \in Layers /\ Decide(c, 1, "err")
    BY <1>2, FirstLayer DEF Expire
  <2> QED  BY <2>1, DecideType
<1> QED  BY <1>1, <1>2

LEMMA OutsideType ==
  ASSUME TypeOK,
         \/ Listen \/ LoseEndpoint
         \/ \E c \in Inbound : Come(c)
         \/ \E c \in Outbound : Dial(c)
         \/ \E c \in Conn : Answer(c) \/ Expire(c)
  PROVE  TypeOK'
<1> USE SameStack DEF TypeOK, serving, connecting
<1>1. CASE Listen
  BY <1>1 DEF Listen
<1>2. CASE LoseEndpoint
  BY <1>2 DEF LoseEndpoint
<1>3. ASSUME NEW c \in Inbound, Come(c) PROVE TypeOK'
  <2>1. Append(backlog, c) \in Seq(Inbound) /\ c \in Conn
    BY <1>3 DEF Conn
  <2> QED  BY <1>3, <2>1 DEF Come
<1>4. ASSUME NEW c \in Outbound, Dial(c) PROVE TypeOK'
  <2>1. c \in Conn /\ Wrapped(1) \in Errors
    BY FirstLayer DEF Conn
  <2>2. CASE Begin(c) /\ woken' = woken \cup {c} /\ UNCHANGED err
    BY <1>4, <2>1, <2>2, BeginType DEF Dial
  <2>3. CASE /\ phase' = [phase EXCEPT ![c] = "failed"]
             /\ err' = [err EXCEPT ![c] = Wrapped(1)]
             /\ UNCHANGED <<args, woken>>
    BY <1>4, <2>1, <2>3 DEF Dial
  <2> QED  BY <1>4, <2>2, <2>3 DEF Dial
<1> QED  BY <1>1, <1>2, <1>3, <1>4, VerdictType

LEMMA NextType == TypeOK /\ [Next]_vars => TypeOK'
<1>1. ASSUME TypeOK, UNCHANGED vars PROVE TypeOK'
  BY <1>1, SameStack DEF TypeOK, vars
<1> QED  BY <1>1, OutsideType, PollType, PollNextType DEF Next

\* Every variable of TransportStack keeps its type.
THEOREM TypeCorrect == Spec => []TypeOK
BY InitType, NextType, PTL DEF Spec

-----------------------------------------------------------------------------
(* The inductive invariant. *)

\* The connections that wait to be accepted are different, and all "queued".
Queued ==
    \A i \in 1..Len(backlog) :
        /\ phase[backlog[i]] = "queued"
        /\ \A j \in 1..Len(backlog) : i # j => backlog[i] # backlog[j]

\* A connection starts in its first layer and passes those the other end has
\* agreed to; only a layer with a future of its own waits, or fails.
InStep ==
    \A c \in Conn :
        /\ phase[c] \in {"idle", "queued"} => level[c] = 1
        /\ phase[c] = "pending" => \A i \in Layers : i < level[c] => verdict[c][i] = "ok"
        /\ \A k \in Layers : verdict[c][k] # "ok" => HasFuture(c, k)

\* The pending event is the first one, if there is any.
Announced == pendingEvent <=> (stack[1] # "quic" /\ events = <<>>)

IInv == TypeOK /\ Queued /\ InStep /\ Announced /\ LayersAgree

\* Once it has yielded something, a listener has announced its address.
LEMMA AppendNotEmpty ==
  ASSUME NEW S, NEW q \in Seq(S), NEW x \in S
  PROVE  Append(q, x) # <<>>
<1>1. Len(Append(q, x)) = Len(q) + 1 /\ Len(q) \in Nat
  OBVIOUS
<1>2. Len(<<>>) = 0
  OBVIOUS
<1> QED  BY <1>1, <1>2

LEMMA Yielded ==
  ASSUME TypeOK, NEW e \in Inbound \cup {"listened", "error"},
         events' = Append(events, e), ~pendingEvent'
  PROVE  Announced'
<1>1. events \in Seq(Inbound \cup {"listened", "error"})
  BY DEF TypeOK
<1>2. events' # <<>>
  BY <1>1, AppendNotEmpty
<1> QED  BY <1>2 DEF Announced

-----------------------------------------------------------------------------
(* The invariant holds initially, and what leaves it alone keeps it. *)

LEMMA InitInv == Init => IInv
<1> SUFFICES ASSUME Init PROVE IInv
  OBVIOUS
<1>1. TypeOK
  BY InitType
<1>2. Queued
  BY DEF Init, Queued
<1>3. InStep
  BY DEF Init, InStep
<1>4. Announced
  BY DEF Init, Announced
<1>5. 1 \in Layers /\ Layers \subseteq Nat \ {0}
  BY <1>1, StackFacts DEF TypeOK
<1>6. LayersAgree
  BY <1>5 DEF Init, LayersAgree
<1> QED  BY <1>1, <1>2, <1>3, <1>4, <1>6 DEF IInv

\* Steps that touch none of the variables the invariant speaks of.
LEMMA AsideInv ==
  ASSUME IInv, TypeOK',
         UNCHANGED <<stack, pendingEvent, backlog, events, connecting, verdict>>
  PROVE  IInv'
<1>1. UNCHANGED <<phase, level, args, calls, err>> /\ Layers' = Layers
  BY SameStack DEF connecting
<1>2. Queued'
  BY <1>1 DEF IInv, Queued
<1>3. InStep'
  BY <1>1 DEF IInv, InStep, HasFuture
<1>4. Announced'
  BY DEF IInv, Announced
<1>5. LayersAgree'
  BY <1>1 DEF IInv, LayersAgree, HasArgs
<1> QED  BY <1>2, <1>3, <1>4, <1>5 DEF IInv

-----------------------------------------------------------------------------
(* The steps outside the application. *)

LEMMA DecideInv ==
  ASSUME IInv, TypeOK', NEW c \in Conn, NEW k \in Layers, NEW v \in {"ok", "err"},
         verdict[c][k] = "none", Decide(c, k, v)
  PROVE  IInv'
<1>1. /\ UNCHANGED <<phase, level, args, calls, err, stack, pendingEvent, backlog, events>>
      /\ Layers' = Layers
  BY SameStack DEF Decide, connecting, serving
<1>2. Queued' /\ Announced' /\ LayersAgree'
  BY <1>1 DEF IInv, Queued, Announced, LayersAgree, HasArgs
<1>3. InStep'
  <2> SUFFICES ASSUME NEW d \in Conn
      PROVE  /\ phase[d] \in {"idle", "queued"} => level[d] = 1
             /\ phase[d] = "pending" =>
                  \A i \in Layers : i < level[d] => verdict'[d][i] = "ok"
             /\ \A i \in Layers : verdict'[d][i] # "ok" => HasFuture(d, i)
    BY <1>1 DEF InStep, HasFuture
  <2>1. \A i \in Layers : verdict'[d][i] = verdict[d][i] \/ (d = c /\ i = k)
    BY DEF Decide, IInv, TypeOK
  <2> QED  BY <2>1 DEF IInv, InStep
<1> QED  BY <1>2, <1>3 DEF IInv

LEMMA ComeInv == ASSUME IInv, TypeOK', NEW c \in Inbound, Come(c) PROVE IInv'
<1>1. /\ UNCHANGED <<level, args, calls, err, stack, pendingEvent, events, verdict>>
      /\ Layers' = Layers /\ c \in Conn /\ phase[c] = "idle"
      /\ phase' = [phase EXCEPT ![c] = "queued"] /\ backlog' = Append(backlog, c)
  BY SameStack DEF Come, Conn
<1>2. \A d \in Conn : phase'[d] = IF d = c THEN "queued" ELSE phase[d]
  BY <1>1 DEF IInv, TypeOK
<1>3. backlog \in Seq(Inbound) /\ Inbound \subseteq Conn
  BY DEF IInv, TypeOK, Conn
<1>4. Queued'
  <2>1. \A i \in 1..Len(backlog) : backlog[i] # c /\ backlog[i] \in Conn
    BY <1>1, <1>3 DEF IInv, Queued
  <2>2. /\ Len(backlog') = Len(backlog) + 1 /\ Len(backlog) \in Nat
        /\ \A i \in 1..Len(backlog) : backlog'[i] = backlog[i]
        /\ backlog'[Len(backlog) + 1] = c
    BY <1>1, <1>3
  <2>3. \A i \in 1..Len(backlog') : i \in 1..Len(backlog) \/ i = Len(backlog) + 1
    BY <2>2
  <2> QED  BY <1>1, <1>2, <2>1, <2>2, <2>3 DEF IInv, Queued
<1>5. InStep'
  BY <1>1, <1>2 DEF IInv, InStep, HasFuture
<1>6. Announced' /\ LayersAgree'
  BY <1>1, <1>2 DEF IInv, Announced, LayersAgree, HasArgs
<1> QED  BY <1>4, <1>5, <1>6 DEF IInv

LEMMA DialInv == ASSUME IInv, TypeOK', NEW c \in Outbound, Dial(c) PROVE IInv'
<1>1. /\ UNCHANGED <<level, calls, stack, pendingEvent, backlog, events, verdict>>
      /\ Layers' = Layers /\ c \in Conn /\ phase[c] = "idle"
      /\ phase' \in {[phase EXCEPT ![c] = "pending"], [phase EXCEPT ![c] = "failed"]}
  BY SameStack DEF Dial, Begin, serving, Conn
<1>2. \A d \in Conn : d # c => phase'[d] = phase[d]
  BY <1>1 DEF IInv, TypeOK
<1>3. phase'[c] \in {"pending", "failed"} /\ level[c] = 1
  BY <1>1 DEF IInv, TypeOK, InStep
<1>4. Queued'
  <2>1. backlog \in Seq(Inbound) /\ Inbound \subseteq Conn
    BY DEF IInv, TypeOK, Conn
  <2>2. \A i \in 1..Len(backlog) : backlog[i] # c /\ backlog[i] \in Conn
    BY <1>1, <2>1 DEF IInv, Queued
  <2> QED  BY <1>1, <1>2, <2>2 DEF IInv, Queued
<1>5. InStep'
  <2>1. Layers \subseteq Nat \ {0}
    BY StackFacts DEF IInv, TypeOK
  <2>2. \A i \in Layers : ~ (i < level[c])
    BY <1>3, <2>1
  <2> QED  BY <1>1, <1>2, <1>3, <2>2 DEF IInv, InStep, HasFuture
<1>6. Announced'
  BY <1>1 DEF IInv, Announced
<1>7. LayersAgree'
  <2>1. \A d \in Conn : d # c => args'[d] = args[d]
    BY DEF Dial, Begin, IInv, TypeOK
  <2>2. phase'[c] = "pending" => \A k \in Layers : HasArgs(k) => args'[c][k] = Role(c)
    BY <1>1 DEF Dial, Begin, Kept, IInv, TypeOK
  <2> QED  BY <1>1, <1>2, <1>3, <2>1, <2>2 DEF IInv, LayersAgree, HasArgs, Role
<1> QED  BY <1>4, <1>5, <1>6, <1>7 DEF IInv

-----------------------------------------------------------------------------
(* The steps of the listener. *)

LEMMA ListenedInv == ASSUME IInv, TypeOK', Listened PROVE IInv'
<1>1. /\ UNCHANGED <<phase, level, args, calls, stack, backlog, verdict>>
      /\ Layers' = Layers
  BY SameStack DEF Listened, connecting
<1>2. Queued' /\ InStep' /\ LayersAgree'
  BY <1>1 DEF IInv, Queued, InStep, LayersAgree, HasFuture, HasArgs
<1>3. Announced'
  BY Yielded DEF Listened, Yield, IInv
<1> QED  BY <1>2, <1>3 DEF IInv

\* The connection in front leaves the backlog, and no other is it.
LEMMA FrontLeaves ==
  ASSUME IInv, backlog # <<>>
  PROVE  /\ Head(backlog) \in Inbound /\ Head(backlog) \in Conn
         /\ phase[Head(backlog)] = "queued" /\ level[Head(backlog)] = 1
         /\ Len(Tail(backlog)) = Len(backlog) - 1 /\ Len(backlog) \in Nat \ {0}
         /\ \A i \in 1..Len(Tail(backlog)) :
              /\ Tail(backlog)[i] = backlog[i + 1] /\ Tail(backlog)[i] \in Conn
              /\ Tail(backlog)[i] # Head(backlog)
<1>1. backlog \in Seq(Inbound) /\ Inbound \subseteq Conn
  BY DEF IInv, TypeOK, Conn
<1>2. /\ Head(backlog) \in Inbound /\ Head(backlog) = backlog[1]
      /\ Len(Tail(backlog)) = Len(backlog) - 1 /\ Len(backlog) \in Nat \ {0}
      /\ \A i \in 1..Len(Tail(backlog)) : Tail(backlog)[i] = backlog[i + 1]
  BY <1>1, HeadTail
<1>3. \A i \in 1..Len(backlog) : backlog[i] \in Inbound
  BY <1>1
<1>4. phase[Head(backlog)] = "queued"
  BY <1>2 DEF IInv, Queued
<1>5. \A i \in 1..Len(Tail(backlog)) : i + 1 \in 1..Len(backlog) /\ i + 1 # 1
  BY <1>2
<1>6. \A i \in 1..Len(Tail(backlog)) : backlog[i + 1] # backlog[1]
  BY <1>2, <1>5 DEF IInv, Queued
<1>7. level[Head(backlog)] = 1
  BY <1>1, <1>2, <1>4 DEF IInv, InStep
<1> QED  BY <1>1, <1>2, <1>3, <1>4, <1>5, <1>6, <1>7

LEMMA TailQueued ==
  ASSUME IInv, backlog # <<>>, backlog' = Tail(backlog),
         \A d \in Conn : d # Head(backlog) => phase'[d] = phase[d]
  PROVE  Queued'
<1>1. \A i \in 1..Len(backlog') :
        /\ backlog'[i] = backlog[i + 1] /\ i + 1 \in 1..Len(backlog)
        /\ phase'[backlog'[i]] = phase[backlog[i + 1]]
  BY FrontLeaves
<1> QED  BY <1>1 DEF IInv, Queued

LEMMA IncomingInv == ASSUME IInv, TypeOK', Incoming PROVE IInv'
<1> DEFINE c == Head(backlog)
<1>1. /\ UNCHANGED <<level, calls, stack, pendingEvent, verdict>>
      /\ Layers' = Layers /\ backlog # <<>> /\ backlog' = Tail(backlog)
      /\ phase' = [phase EXCEPT ![c] = "pending"]
      /\ args' = [args EXCEPT ![c] = Kept(c)]
      /\ events' = Append(events, c) /\ ~pendingEvent
  BY SameStack DEF Incoming, Accepting, Begin, Yield
<1>2. c \in Conn /\ level[c] = 1
  BY <1>1, FrontLeaves
<1> HIDE DEF c
<1>3. \A d \in Conn : phase'[d] = IF d = c THEN "pending" ELSE phase[d]
  BY <1>1, <1>2 DEF IInv, TypeOK
<1>4. Queued'
  BY <1>1, <1>3, TailQueued DEF c
<1>5. InStep'
  <2>1. Layers \subseteq Nat \ {0}
    BY StackFacts DEF IInv, TypeOK
  <2>2. \A i \in Layers : ~ (i < level[c])
    BY <1>2, <2>1
  <2> QED  BY <1>1, <1>2, <1>3, <2>2 DEF IInv, InStep, HasFuture
<1>6. Announced'
  BY <1>1, Yielded, FrontLeaves DEF IInv, c
<1>7. LayersAgree'
  <2>1. \A d \in Conn : d # c => args'[d] = args[d]
    BY <1>1 DEF IInv, TypeOK
  <2>2. \A k \in Layers : HasArgs(k) => args'[c][k] = Role(c)
    BY <1>1, <1>2 DEF Kept, IInv, TypeOK
  <2> QED  BY <1>1, <1>2, <1>3, <2>1, <2>2 DEF IInv, LayersAgree, HasArgs, Role
<1> QED  BY <1>4, <1>5, <1>6, <1>7 DEF IInv

LEMMA AcceptErrorInv == ASSUME IInv, TypeOK', AcceptError PROVE IInv'
<1> DEFINE c == Head(backlog)
<1>1. /\ UNCHANGED <<level, args, calls, stack, pendingEvent, verdict>>
      /\ Layers' = Layers /\ backlog # <<>> /\ ~pendingEvent
      /\ events' = Append(events, "error")
      /\ \/ backlog' = Tail(backlog) /\ phase' = [phase EXCEPT ![c] = "refused"]
         \/ UNCHANGED <<backlog, phase>>
  BY SameStack DEF AcceptError, Accepting, Yield
<1>2. c \in Conn
  BY <1>1, FrontLeaves
<1> HIDE DEF c
<1>3. \A d \in Conn : phase'[d] = phase[d] \/ (d = c /\ phase'[d] = "refused")
  BY <1>1, <1>2 DEF IInv, TypeOK
<1>4. Queued'
  <2>1. CASE backlog' = Tail(backlog) /\ phase' = [phase EXCEPT ![c] = "refused"]
    BY <1>1, <1>3, <2>1, TailQueued DEF c
  <2>2. CASE UNCHANGED <<backlog, phase>>
    BY <2>2 DEF IInv, Queued
  <2> QED  BY <1>1, <2>1, <2>2
<1>5. InStep'
  BY <1>1, <1>3 DEF IInv, InStep, HasFuture
<1>6. Announced'
  BY <1>1, Yielded DEF IInv
<1>7. LayersAgree'
  BY <1>1, <1>3 DEF IInv, LayersAgree, HasArgs
<1> QED  BY <1>4, <1>5, <1>6, <1>7 DEF IInv

-----------------------------------------------------------------------------
(* The steps of the futures of a connection. *)

\* A function that is due has its arguments: the panicking branch of Ascend is
\* never taken.
LEMMA AscendCases ==
  ASSUME IInv, NEW c \in Conn, Ascend(c)
  PROVE  LET k == level[c] + 1 IN
         /\ k \in Layers /\ k # 1 /\ phase[c] = "pending" /\ verdict[c][level[c]] = "ok"
         /\ UNCHANGED phase /\ level' = [level EXCEPT ![c] = k]
         /\ \/ ~HasArgs(k) /\ UNCHANGED <<args, calls>>
            \/ /\ HasArgs(k)
               /\ calls' = [calls EXCEPT ![c][k] = <<Role(c)>>]
               /\ args' = [args EXCEPT ![c][k] = "none"]
<1> DEFINE k == level[c] + 1
<1>1. k \in Layers /\ k # 1 /\ level[c] < k /\ ~ (k <= level[c])
  BY StackFacts DEF Ascend, IInv, TypeOK
<1>2. phase[c] = "pending" /\ verdict[c][level[c]] = "ok"
  BY DEF Ascend, Polled, Verdict
<1>3. ASSUME HasArgs(k)
      PROVE  /\ calls[c][k] = <<>> /\ args[c][k] = Role(c) /\ args[c][k] # "none"
             /\ Append(calls[c][k], args[c][k]) = <<Role(c)>>
  <2>1. calls[c][k] = <<>> /\ args[c][k] = Role(c)
    BY <1>1, <1>2, <1>3 DEF IInv, LayersAgree
  <2> QED  BY <2>1 DEF Role
<1>4. \/ ~HasArgs(k) /\ level' = [level EXCEPT ![c] = k] /\ UNCHANGED <<phase, args, calls>>
      \/ /\ HasArgs(k) /\ args[c][k] # "none"
         /\ level' = [level EXCEPT ![c] = k]
         /\ calls' = [calls EXCEPT ![c][k] = Append(@, args[c][k])]
         /\ args' = [args EXCEPT ![c][k] = "none"]
         /\ UNCHANGED phase
      \/ HasArgs(k) /\ args[c][k] = "none"
  BY DEF Ascend
<1> QED  BY <1>1, <1>2, <1>3, <1>4

LEMMA AscendInv == ASSUME IInv, TypeOK', NEW c \in Conn, Ascend(c) PROVE IInv'
<1> DEFINE k == level[c] + 1
<1>a. /\ UNCHANGED <<stack, pendingEvent, backlog, events, verdict, phase>>
      /\ Layers' = Layers
  BY SameStack, AscendCases DEF Ascend, serving
<1>b. stack \in Stacks /\ level[c] \in Layers
  BY DEF IInv, TypeOK
<1>c. \A i \in Layers : i \in Nat
  BY <1>b, StackFacts
<1>1. /\ UNCHANGED <<stack, pendingEvent, backlog, events, verdict, phase>>
      /\ Layers' = Layers /\ level[c] \in Layers /\ level[c] \in Nat
      /\ \A i \in Layers : i \in Nat
  BY <1>a, <1>b, <1>c
<1>2. /\ k \in Layers /\ k # 1 /\ phase[c] = "pending" /\ verdict[c][level[c]] = "ok"
      /\ level' = [level EXCEPT ![c] = k]
      /\ \/ ~HasArgs(k) /\ UNCHANGED <<args, calls>>
         \/ /\ HasArgs(k)
            /\ calls' = [calls EXCEPT ![c][k] = <<Role(c)>>]
            /\ args' = [args EXCEPT ![c][k] = "none"]
  BY AscendCases
<1>3. \A d \in Conn : level'[d] = IF d = c THEN k ELSE level[d]
  BY <1>2 DEF IInv, TypeOK
<1>4. Queued' /\ Announced'
  BY <1>1 DEF IInv, Queued, Announced
<1>5. InStep'
  <2>1. \A i \in Layers : i < k => i < level[c] \/ i = level[c]
    BY <1>1
  <2> QED  BY <1>1, <1>2, <1>3, <2>1 DEF IInv, InStep, HasFuture
<1>6. LayersAgree'
  <2>1. \A d \in Conn, i \in Layers :
          d # c \/ i # k => calls'[d][i] = calls[d][i] /\ args'[d][i] = args[d][i]
    <3>1. /\ calls \in [Conn -> [Layers -> Seq({"dialer", "listener"})]]
          /\ args \in [Conn -> [Layers -> {"none", "dialer", "listener"}]]
      BY DEF IInv, TypeOK
    <3>2. CASE UNCHANGED <<args, calls>>
      BY <3>2
    <3>3. CASE /\ calls' = [calls EXCEPT ![c][k] = <<Role(c)>>]
               /\ args' = [args EXCEPT ![c][k] = "none"]
      BY <3>1, <3>3
    <3> QED  BY <1>2, <3>2, <3>3
  <2>2. HasArgs(k) => calls'[c][k] = <<Role(c)>>
    <3>1. calls \in [Conn -> [Layers -> Seq({"dialer", "listener"})]]
      BY DEF IInv, TypeOK
    <3> QED  BY <1>2, <3>1
  <2>3. \A i \in Layers : i # k => (i <= k <=> i <= level[c]) /\ (i > k => i > level[c])
    BY <1>1
  <2> SUFFICES ASSUME NEW d \in Conn
      PROVE  /\ phase[d] # "panicked"
             /\ \A i \in Layers \ {1} : HasArgs(i) =>
                  /\ calls'[d][i] = IF i <= level'[d] THEN <<Role(d)>> ELSE <<>>
                  /\ phase[d] = "pending" /\ i > level'[d] => args'[d][i] = Role(d)
    BY <1>1 DEF LayersAgree, HasArgs, Role
  <2>4. CASE d # c
    BY <1>3, <2>1, <2>4 DEF IInv, LayersAgree
  <2>5. CASE d = c
    <3> SUFFICES ASSUME NEW i \in Layers \ {1}, HasArgs(i)
        PROVE  /\ calls'[c][i] = IF i <= k THEN <<Role(c)>> ELSE <<>>
               /\ i > k => args'[c][i] = Role(c)
      BY <1>2, <1>3, <2>5
    <3>1. CASE i = k
      BY <1>1, <2>2, <3>1
    <3>2. CASE i # k
      BY <1>2, <2>1, <2>3, <3>2 DEF IInv, LayersAgree
    <3> QED  BY <3>1, <3>2
  <2> QED  BY <2>4, <2>5
<1> QED  BY <1>4, <1>5, <1>6 DEF IInv

\* A connection that ends keeps what its layers were called with.
LEMMA EndInv ==
  ASSUME IInv, TypeOK', NEW c \in Conn, phase[c] = "pending",
         NEW p \in {"connected", "failed"}, phase' = [phase EXCEPT ![c] = p],
         UNCHANGED <<stack, pendingEvent, backlog, events, level, args, calls, verdict>>
  PROVE  IInv'
<1>1. \A d \in Conn : phase'[d] = IF d = c THEN p ELSE phase[d]
  BY DEF IInv, TypeOK
<1>2. Queued'
  <2>1. backlog \in Seq(Inbound) /\ Inbound \subseteq Conn
    BY DEF IInv, TypeOK, Conn
  <2>2. \A i \in 1..Len(backlog) : backlog[i] # c /\ backlog[i] \in Conn
    BY <2>1 DEF IInv, Queued
  <2> QED  BY <1>1, <2>2 DEF IInv, Queued
<1>3. InStep' /\ Announced' /\ LayersAgree'
  BY <1>1, SameStack DEF IInv, InStep, Announced, LayersAgree, HasFuture, HasArgs
<1> QED  BY <1>2, <1>3 DEF IInv

LEMMA PollInv == ASSUME IInv, TypeOK', NEW c \in Conn, Poll(c) PROVE IInv'
<1>1. CASE Ascend(c)
  BY <1>1, AscendInv
<1>2. CASE Complete(c)
  BY <1>2, EndInv DEF Complete, Polled, serving
<1>3. CASE Fail(c)
  BY <1>3, EndInv DEF Fail, Polled, serving
<1>4. CASE Wait(c)
  BY <1>4, AsideInv DEF Wait, serving
<1> QED  BY <1>1, <1>2, <1>3, <1>4 DEF Poll

-----------------------------------------------------------------------------
(* The invariant is inductive. *)

LEMMA VerdictInv ==
  ASSUME IInv, TypeOK', NEW c \in Conn, Answer(c) \/ Expire(c)
  PROVE  IInv'
<1>1. CASE Answer(c)
  <2>1. PICK k \in Layers, v \in {"ok", "err"} : verdict[c][k] = "none" /\ Decide(c, k, v)
    BY <1>1 DEF Answer
  <2> QED  BY <2>1, DecideInv
<1>2. CASE Expire(c)
  <2>1. 1 \in Layers /\ verdict[c][1] = "none" /\ Decide(c, 1, "err")
    BY <1>2, FirstLayer DEF Expire, IInv
  <2> QED  BY <2>1, DecideInv
<1> QED  BY <1>1, <1>2

LEMMA NextInv == IInv /\ [Next]_vars => IInv'
<1> SUFFICES ASSUME IInv, [Next]_vars PROVE IInv'
  OBVIOUS
<1>1. TypeOK'
  BY NextType DEF IInv
<1>2. CASE UNCHANGED vars
  BY <1>1, <1>2, AsideInv DEF vars, connecting
<1>3. CASE Listen \/ LoseEndpoint \/ AcceptPending \/ AcceptNone \/ ResumeAccept
  BY <1>1, <1>3, AsideInv
     DEF Listen, LoseEndpoint, AcceptPending, AcceptNone, ResumeAccept, connecting
<1>4. CASE Listened \/ Incoming \/ AcceptError
  BY <1>1, <1>4, ListenedInv, IncomingInv, AcceptErrorInv
<1>5. CASE (\E c \in Inbound : Come(c)) \/ (\E c \in Outbound : Dial(c))
  BY <1>1, <1>5, ComeInv, DialInv
<1>6. CASE \E c \in Conn : Answer(c) \/ Expire(c) \/ Poll(c)
  BY <1>1, <1>6, VerdictInv, PollInv
<1> QED  BY <1>2, <1>3, <1>4, <1>5, <1>6 DEF Next, PollNext

LEMMA InvHolds == Spec => []IInv
BY InitInv, NextInv, PTL DEF Spec

\* The function of each layer is called once, in the role of its connection, and
\* no `expect` on the arguments fails.
THEOREM LayersAgreeHolds == Spec => []LayersAgree
<1>1. IInv => LayersAgree
  BY DEF IInv
<1> QED  BY <1>1, InvHolds, PTL

-----------------------------------------------------------------------------
(* The wrappers of an error tell its stage. *)

LEMMA FromBelow ==
  ASSUME NEW j, NEW k, j # k PROVE Wrapper(j, k) \notin Own
BY DEF Wrapper, Own

LEMMA OwnError ==
  ASSUME NEW k, stack[k] \in {"and_then", "with_upgrade"} PROVE Wrapper(k, k) \in Own
BY DEF Wrapper, Own

LEMMA BaseError == ASSUME NEW k, stack[k] \in Base PROVE Wrapper(k, k) \notin Own
BY DEF Wrapper, Own, Base

LEMMA StageTold ==
  ASSUME stack \in Stacks, NEW k \in Layers,
         k = 1 \/ stack[k] \in {"and_then", "with_upgrade"}
  PROVE  Stage(Wrapped(k)) = k
<1> DEFINE e == Wrapped(k)
<1>1. /\ Top \in Nat \ {0} /\ Layers = 1..Top /\ k \in 1..Top /\ stack[1] \in Base
      /\ DOMAIN e = k..Top /\ \A j \in DOMAIN e : e[j] = Wrapper(j, k)
  BY StackFacts DEF Wrapped
<1>2. \A j \in DOMAIN e : j # k => e[j] \notin Own
  BY <1>1, FromBelow
<1>3. k \in DOMAIN e /\ \A j \in DOMAIN e : j # k => j > k
  BY <1>1
<1>4. CASE stack[k] \in {"and_then", "with_upgrade"}
  <2>1. e[k] \in Own
    BY <1>1, <1>3, <1>4, OwnError
  <2>2. \A j \in DOMAIN e : e[j] \in Own <=> j = k
    BY <1>2, <2>1
  <2>3. k \in DOMAIN e /\ e[k] \in Own /\ \A i \in DOMAIN e : i > k => e[i] \notin Own
    BY <1>2, <1>3, <2>1, <1>1
  <2> HIDE DEF e
  <2>4. k = CHOOSE j \in DOMAIN e : /\ e[j] \in Own
                                    /\ \A i \in DOMAIN e : i > j => e[i] \notin Own
    BY <2>2, <2>3
  <2> QED  BY <2>3, <2>4 DEF Stage, e
<1>5. CASE k = 1 /\ stack[k] \notin {"and_then", "with_upgrade"}
  <2>1. e[k] \notin Own
    BY <1>1, <1>3, <1>5, BaseError
  <2>2. ~ \E j \in DOMAIN e : e[j] \in Own
    BY <1>2, <2>1
  <2> HIDE DEF e
  <2> QED  BY <2>2, <1>5 DEF Stage, e
<1> QED  BY <1>4, <1>5

\* A layer that fails has a future of its own.
LEMMA FailingLayer ==
  ASSUME IInv, NEW c \in Conn, NEW k \in Layers, verdict[c][k] = "err"
  PROVE  Stage(Wrapped(k)) = k
<1>1. stack \in Stacks /\ HasFuture(c, k)
  BY DEF IInv, TypeOK, InStep
<1>2. k # 1 => stack[k] \in Combinator
  BY <1>1, StackFacts
<1>3. k = 1 \/ stack[k] \in {"and_then", "with_upgrade"}
  BY <1>1, <1>2 DEF HasFuture, Combinator
<1> QED  BY <1>1, <1>3, StageTold

-----------------------------------------------------------------------------
(* The refinement. *)

\* How a change of phase looks to the application.
LEMMA Becomes ==
  ASSUME TypeOK, NEW c \in Conn, NEW p,
         phase' = [phase EXCEPT ![c] = p], p # "failed", UNCHANGED err
  PROVE  Outcome' = [Outcome EXCEPT ![c] = <<p>>]
<1>1. \A d \in Conn : phase'[d] = IF d = c THEN p ELSE phase[d]
  BY DEF TypeOK
<1>2. [Outcome EXCEPT ![c] = <<p>>] = [d \in Conn |-> IF d = c THEN <<p>> ELSE Outcome[d]]
  BY DEF Outcome
<1>3. \A d \in Conn : Outcome'[d] = IF d = c THEN <<p>> ELSE Outcome[d]
  BY <1>1 DEF Outcome
<1>4. Outcome' = [d \in Conn |-> Outcome'[d]]
  BY DEF Outcome
<1> QED  BY <1>2, <1>3, <1>4

LEMMA BecomesFailed ==
  ASSUME TypeOK, NEW c \in Conn, NEW k \in Layers, Stage(Wrapped(k)) = k,
         phase' = [phase EXCEPT ![c] = "failed"], err' = [err EXCEPT ![c] = Wrapped(k)]
  PROVE  Outcome' = [Outcome EXCEPT ![c] = <<"failed", k>>]
<1>1. \A d \in Conn : /\ phase'[d] = IF d = c THEN "failed" ELSE phase[d]
                      /\ err'[d] = IF d = c THEN Wrapped(k) ELSE err[d]
  BY DEF TypeOK
<1>2. [Outcome EXCEPT ![c] = <<"failed", k>>]
      = [d \in Conn |-> IF d = c THEN <<"failed", k>> ELSE Outcome[d]]
  BY DEF Outcome
<1>3. \A d \in Conn : Outcome'[d] = IF d = c THEN <<"failed", k>> ELSE Outcome[d]
  BY <1>1 DEF Outcome
<1>4. Outcome' = [d \in Conn |-> Outcome'[d]]
  BY DEF Outcome
<1> QED  BY <1>2, <1>3, <1>4

LEMMA OutcomeIs ==
  ASSUME NEW c \in Conn, phase[c] # "failed" PROVE Outcome[c] = <<phase[c]>>
BY DEF Outcome

LEMMA Invisible ==
  ASSUME UNCHANGED <<stack, backlog, events, verdict, phase, err>>
  PROVE  UNCHANGED Service!vars
BY DEF Service!vars, Outcome

LEMMA InitService == Init => Service!Init
<1> SUFFICES ASSUME Init PROVE Service!Init
  OBVIOUS
<1>1. Outcome = [c \in Conn |-> <<"idle">>]
  BY DEF Init, Outcome
<1> QED  BY <1>1 DEF Init, Service!Init, Conn

LEMMA ComeService ==
  ASSUME IInv, NEW c \in Inbound, Come(c) PROVE Service!Next
<1>1. c \in Conn /\ phase[c] = "idle" /\ phase' = [phase EXCEPT ![c] = "queued"]
  BY DEF Come, Conn
<1>2. Outcome' = [Outcome EXCEPT ![c] = <<"queued">>] /\ Outcome[c] = <<"idle">>
  BY <1>1, Becomes, OutcomeIs DEF IInv, Come
<1>3. Service!Come(c)
  BY <1>2 DEF Come, Service!Come, Service!Become
<1> QED  BY <1>3 DEF Service!Next

LEMMA DialService ==
  ASSUME IInv, NEW c \in Outbound, Dial(c) PROVE Service!Next
<1>1. c \in Conn /\ phase[c] = "idle" /\ UNCHANGED <<stack, backlog, events, verdict>>
  BY DEF Dial, Conn, serving
<1>2. Outcome[c] = <<"idle">>
  BY <1>1, OutcomeIs
<1>3. CASE Begin(c) /\ UNCHANGED err
  <2>1. Outcome' = [Outcome EXCEPT ![c] = <<"pending">>]
    BY <1>1, <1>3, Becomes DEF IInv, Begin
  <2> QED  BY <1>1, <1>2, <2>1 DEF Service!Dial, Service!Become, Service!Next
<1>4. CASE /\ phase' = [phase EXCEPT ![c] = "failed"]
           /\ err' = [err EXCEPT ![c] = Wrapped(1)]
  <2>1. stack \in Stacks /\ 1 \in Layers
    BY FirstLayer DEF IInv, TypeOK
  <2>2. Stage(Wrapped(1)) = 1
    BY <2>1, StageTold
  <2>3. Outcome' = [Outcome EXCEPT ![c] = <<"failed", 1>>]
    BY <1>1, <1>4, <2>1, <2>2, BecomesFailed DEF IInv
  <2> QED  BY <1>1, <1>2, <2>3 DEF Service!Dial, Service!Become, Service!Next
<1> QED  BY <1>3, <1>4 DEF Dial

LEMMA DecideService ==
  ASSUME IInv, NEW c \in Conn, NEW k \in Layers, NEW v \in {"ok", "err"},
         verdict[c][k] = "none", Decide(c, k, v)
  PROVE  Service!Next
<1>1. /\ UNCHANGED <<stack, backlog, events, phase, err>>
      /\ verdict' = [verdict EXCEPT ![c][k] = v]
  BY DEF Decide, serving, connecting
<1>2. Outcome' = Outcome
  BY <1>1 DEF Outcome
<1>3. k \in DOMAIN verdict[c]
  BY DEF IInv, TypeOK
<1>4. Service!Decide(c)
  BY <1>1, <1>2, <1>3 DEF Service!Decide
<1> QED  BY <1>4 DEF Service!Next, Conn

\* The listener yields only behind its announcement.
LEMMA OpenWhenAccepting ==
  ASSUME IInv, ~pendingEvent PROVE Service!Open
BY DEF IInv, Announced, Service!Open

LEMMA ListenerService ==
  ASSUME IInv, Listened \/ Incoming \/ AcceptError
  PROVE  Service!Next
<1>1. CASE Listened
  <2>1. /\ UNCHANGED <<stack, backlog, verdict, phase, err>>
        /\ stack[1] # "quic" /\ events = <<>> /\ events' = Append(events, "listened")
    BY <1>1 DEF IInv, Announced, Listened, Yield, connecting
  <2>2. Outcome' = Outcome /\ events' = <<"listened">>
    BY <2>1 DEF Outcome
  <2> QED  BY <2>1, <2>2 DEF Service!Announce, Service!Next
<1>2. CASE Incoming
  <2>1. backlog # <<>> /\ ~pendingEvent /\ Head(backlog) \in Conn
    BY <1>2, FrontLeaves DEF Incoming, Accepting
  <2>2. Outcome' = [Outcome EXCEPT ![Head(backlog)] = <<"pending">>]
    BY <1>2, <2>1, Becomes DEF Incoming, Begin, IInv
  <2>3. Service!Open
    BY <2>1, OpenWhenAccepting
  <2> QED  BY <1>2, <2>1, <2>2, <2>3
           DEF Incoming, Yield, Service!Offer, Service!Become, Service!Next
<1>3. CASE AcceptError
  <2>1. backlog # <<>> /\ ~pendingEvent /\ Head(backlog) \in Conn
    BY <1>3, FrontLeaves DEF AcceptError, Accepting
  <2>2. Service!Open
    BY <2>1, OpenWhenAccepting
  <2>3. UNCHANGED <<stack, verdict, err>> /\ events' = Append(events, "error")
    BY <1>3 DEF AcceptError, Yield
  <2>4. CASE backlog' = Tail(backlog) /\ phase' = [phase EXCEPT ![Head(backlog)] = "refused"]
    <3>1. Outcome' = [Outcome EXCEPT ![Head(backlog)] = <<"refused">>]
      BY <2>1, <2>3, <2>4, Becomes DEF IInv
    <3> QED  BY <2>1, <2>2, <2>3, <2>4, <3>1
             DEF Service!Report, Service!Become, Service!Next
  <2>5. CASE UNCHANGED <<backlog, phase>>
    <3>1. Outcome' = Outcome
      BY <2>3, <2>5 DEF Outcome
    <3> QED  BY <2>2, <2>3, <2>5, <3>1 DEF Service!Report, Service!Next
  <2> QED  BY <1>3, <2>4, <2>5 DEF AcceptError
<1> QED  BY <1>1, <1>2, <1>3

LEMMA PollService ==
  ASSUME IInv, NEW c \in Conn, Poll(c) PROVE Service!Next \/ UNCHANGED Service!vars
<1>1. CASE Ascend(c) \/ Wait(c)
  <2>1. UNCHANGED <<stack, backlog, events, verdict, phase, err>>
    BY <1>1, AscendCases DEF Ascend, Wait, serving, connecting
  <2> QED  BY <2>1, Invisible
<1>2. CASE Complete(c)
  <2>1. /\ phase[c] = "pending" /\ verdict[c][level[c]] = "ok" /\ level[c] = Top
        /\ phase' = [phase EXCEPT ![c] = "connected"]
        /\ UNCHANGED <<stack, backlog, events, verdict, err>>
    BY <1>2 DEF Complete, Polled, Verdict, serving
  <2>2. Outcome' = [Outcome EXCEPT ![c] = <<"connected">>] /\ Outcome[c] = <<"pending">>
    BY <2>1, Becomes, OutcomeIs DEF IInv
  <2>3. \A k \in DOMAIN verdict[c] : verdict[c][k] = "ok"
    <3>1. DOMAIN verdict[c] = Layers /\ stack \in Stacks
      BY DEF IInv, TypeOK
    <3>2. \A k \in Layers : k < level[c] \/ k = level[c]
      BY <2>1, <3>1, StackFacts
    <3> QED  BY <2>1, <3>1, <3>2 DEF IInv, InStep
  <2>4. Service!Connect(c)
    BY <2>1, <2>2, <2>3 DEF Service!Connect, Service!Become
  <2> QED  BY <2>4 DEF Service!Next, Conn
<1>3. CASE Fail(c)
  <2>1. /\ phase[c] = "pending" /\ verdict[c][level[c]] = "err" /\ level[c] \in Layers
        /\ phase' = [phase EXCEPT ![c] = "failed"]
        /\ err' = [err EXCEPT ![c] = Wrapped(level[c])]
        /\ UNCHANGED <<stack, backlog, events, verdict>>
    BY <1>3 DEF Fail, Polled, Verdict, serving, IInv, TypeOK
  <2>2. Outcome' = [Outcome EXCEPT ![c] = <<"failed", level[c]>>] /\ Outcome[c] = <<"pending">>
    BY <2>1, FailingLayer, BecomesFailed, OutcomeIs DEF IInv
  <2>3. DOMAIN verdict[c] = Layers /\ Service!Reached(c, level[c])
    BY <2>1 DEF IInv, TypeOK, InStep, Service!Reached
  <2>4. Service!Fail(c)
    BY <2>1, <2>2, <2>3 DEF Service!Fail, Service!Become
  <2> QED  BY <2>4 DEF Service!Next, Conn
<1> QED  BY <1>1, <1>2, <1>3 DEF Poll

LEMMA NextService == IInv /\ [Next]_vars => [Service!Next]_(Service!vars)
<1> SUFFICES ASSUME IInv, [Next]_vars PROVE Service!Next \/ UNCHANGED Service!vars
  OBVIOUS
<1>1. CASE UNCHANGED vars
  BY <1>1, Invisible DEF vars
<1>2. CASE Listen \/ LoseEndpoint \/ AcceptPending \/ AcceptNone \/ ResumeAccept
  BY <1>2, Invisible
     DEF Listen, LoseEndpoint, AcceptPending, AcceptNone, ResumeAccept, connecting
<1>3. CASE Listened \/ Incoming \/ AcceptError
  BY <1>3, ListenerService
<1>4. CASE (\E c \in Inbound : Come(c)) \/ (\E c \in Outbound : Dial(c))
  BY <1>4, ComeService, DialService
<1>5. ASSUME NEW c \in Conn, Answer(c) PROVE Service!Next
  <2>1. PICK k \in Layers, v \in {"ok", "err"} : verdict[c][k] = "none" /\ Decide(c, k, v)
    BY <1>5 DEF Answer
  <2> QED  BY <2>1, DecideService
<1>6. ASSUME NEW c \in Conn, Expire(c) PROVE Service!Next
  <2>1. 1 \in Layers /\ verdict[c][1] = "none" /\ Decide(c, 1, "err")
    BY <1>6, FirstLayer DEF Expire, IInv
  <2> QED  BY <2>1, DecideService
<1>7. CASE \E c \in Conn : Poll(c)
  BY <1>7, PollService
<1> QED  BY <1>1, <1>2, <1>3, <1>4, <1>5, <1>6, <1>7 DEF Next, PollNext

\* A stack of layers implements ConnectionService: connections are offered in
\* order and once, made stage by stage, and an error tells the stage that failed.
THEOREM ImplementsService == Spec => ServiceSpec
BY InitService, NextService, InvHolds, PTL DEF Spec, ServiceSpec, Service!Spec
=============================================================================
