----------------------------- MODULE TransportStack -----------------------------
(***************************************************************************)
(* A transport (airio-tcp, airio-ws or airio-quic) under a stack of        *)
(* combinators (AndThen, WithUpgrade, Map, MapErr, Boxed), the listener    *)
(* and the dialled connections of an application, and the futures the      *)
(* combinators nest in one another for each connection.                    *)
(*                                                                         *)
(* The transport is layer 1; each further layer wraps the listener and the *)
(* future of the one below.  AndThen and WithUpgrade run a future of their *)
(* own when the layer below is done; what that future needs of the other   *)
(* end is its verdict.  The application polls the listener in one task     *)
(* and each connection in a task of its own, as the examples do.  A task   *)
(* runs while it is woken, one layer at a time: the loop in the poll of    *)
(* AndThenFuture or UpgradeFuture goes round once per step here.           *)
(***************************************************************************)
EXTENDS Naturals, Sequences

CONSTANTS
    Stacks,     \* the stacks to consider: sequences of kinds of layers
    Inbound,    \* connections that may come
    Outbound,   \* connections the application may dial
    MaxFaults   \* bound: errors of accept

Base == {"tcp", "ws", "quic"}
Combinator == {"and_then", "with_upgrade", "map", "map_err", "boxed"}
Conn == Inbound \cup Outbound

ASSUME StacksAssumption ==
    \A s \in Stacks :
        /\ s \in Seq(Base \cup Combinator) /\ s # <<>>
        /\ s[1] \in Base /\ \A k \in 2..Len(s) : s[k] \in Combinator
ASSUME ConnAssumption ==
    Inbound \cap Outbound = {} /\ Conn \cap {"listened", "error"} = {}
ASSUME FaultsAssumption == MaxFaults \in Nat

VARIABLES
    stack,          \* the layers of this transport
    listener,       \* "none", "live", "refused" by listen, "panicked"
    pendingEvent,   \* ListenStream::pending_event of airio-tcp is still there
    accept,         \* the stored accept future of airio-quic: "waiting", "completed"
    endpoint,       \* quinn's endpoint: "open", or "lost" with its driver
    acceptWaker,    \* the server task is registered with accept
    backlog,        \* connections that have come and are not accepted
    events,         \* what the listener has yielded
    faults,
    phase,          \* phase[c]: "idle", "queued", "refused", "pending",
                    \* "connected", "failed" or "panicked"
    level,          \* level[c]: the layer whose future is running
    args,           \* args[c][k]: the role a layer keeps for its function, or "none"
    calls,          \* calls[c][k]: the roles its function was called with
    verdict,        \* verdict[c][k]: the other end on layer k: "none", "ok", "err"
    watch,          \* watch[c]: the running future has c's waker
    err,            \* err[c]: the wrappers around the error, by layer
    woken           \* tasks to be polled: "server" and connections

serving == <<listener, pendingEvent, accept, acceptWaker, events, faults>>
connecting == <<phase, level, args, calls, err>>
vars == <<stack, listener, pendingEvent, accept, endpoint, acceptWaker, backlog,
          events, faults, phase, level, args, calls, verdict, watch, err, woken>>

Layers == DOMAIN stack
Top == Len(stack)
Role(c) == IF c \in Inbound THEN "listener" ELSE "dialer"

\* Does the future of this layer wait for something, and does the layer keep a
\* function for the output of the one below?  The upgrade of an accepted TCP
\* connection is future::ok.
HasFuture(c, k) ==
    \/ stack[k] \in {"ws", "quic", "and_then", "with_upgrade"}
    \/ stack[k] = "tcp" /\ c \in Outbound
HasArgs(k) == stack[k] \in {"and_then", "with_upgrade", "map"}

Own == {"Right", "Upgrade"}

\* Mutant of Wrapper: AndThen's own error is wrapped like those from below.
WrapperLeft(j, k) ==
    CASE stack[j] = "and_then" -> "Left"
      [] stack[j] = "with_upgrade" -> IF j = k THEN "Upgrade" ELSE "Transport"
      [] stack[j] \in {"map_err", "boxed"} -> "other"
      [] OTHER -> "same"

\* How layer j passes on an error that arose in layer k: Either or
\* TransportUpgradeError, the function of MapErr, io::Error::other.  What MapErr
\* is given is the application's; it is taken to keep the error as its source.
Wrapper(j, k) ==
    CASE stack[j] = "and_then" -> IF j = k THEN "Right" ELSE "Left"
      [] stack[j] = "with_upgrade" -> IF j = k THEN "Upgrade" ELSE "Transport"
      [] stack[j] \in {"map_err", "boxed"} -> "other"
      [] OTHER -> "same"

Wrapped(k) == [j \in k..Top |-> Wrapper(j, k)]
Errors == {<<>>} \cup {Wrapped(k) : k \in Layers}

TypeOK ==
    /\ stack \in Stacks
    /\ listener \in {"none", "live", "refused", "panicked"}
    /\ pendingEvent \in BOOLEAN /\ accept \in {"waiting", "completed"}
    /\ endpoint \in {"open", "lost"} /\ acceptWaker \in BOOLEAN
    /\ backlog \in Seq(Inbound) /\ events \in Seq(Inbound \cup {"listened", "error"})
    /\ faults \in 0..MaxFaults
    /\ phase \in [Conn -> {"idle", "queued", "refused", "pending", "connected",
                           "failed", "panicked"}]
    /\ level \in [Conn -> Layers]
    /\ args \in [Conn -> [Layers -> {"none", "dialer", "listener"}]]
    /\ calls \in [Conn -> [Layers -> Seq({"dialer", "listener"})]]
    /\ verdict \in [Conn -> [Layers -> {"none", "ok", "err"}]]
    /\ watch \in [Conn -> BOOLEAN]
    /\ err \in [Conn -> Errors]
    /\ woken \subseteq Conn \cup {"server"}

Init ==
    /\ stack \in Stacks
    /\ listener = "none" /\ pendingEvent = (stack[1] # "quic")
    /\ accept = "waiting" /\ endpoint = "open" /\ acceptWaker = FALSE
    /\ backlog = <<>> /\ events = <<>> /\ faults = 0
    /\ phase = [c \in Conn |-> "idle"] /\ level = [c \in Conn |-> 1]
    /\ args = [c \in Conn |-> [k \in Layers |-> "none"]]
    /\ calls = [c \in Conn |-> [k \in Layers |-> <<>>]]
    /\ verdict = [c \in Conn |-> [k \in Layers |-> IF HasFuture(c, k) THEN "none" ELSE "ok"]]
    /\ watch = [c \in Conn |-> FALSE]
    /\ err = [c \in Conn |-> <<>>]
    /\ woken = {}

-----------------------------------------------------------------------------
(* The world outside: connections, what their other ends do, and time. *)

Come(c) ==
    /\ listener = "live" /\ endpoint = "open" /\ phase[c] = "idle"
    /\ backlog' = Append(backlog, c)
    /\ phase' = [phase EXCEPT ![c] = "queued"]
    /\ woken' = IF acceptWaker THEN woken \cup {"server"} ELSE woken
    /\ acceptWaker' = FALSE
    /\ UNCHANGED <<stack, listener, pendingEvent, accept, endpoint, events, faults,
                   level, args, calls, verdict, watch, err>>

\* The bytes of the other end come in order: it agrees to layers one by one,
\* and ends with an error or a hang-up at one of them.
Decide(c, k, v) ==
    /\ verdict' = [verdict EXCEPT ![c][k] = v]
    /\ woken' = IF watch[c] THEN woken \cup {c} ELSE woken
    /\ watch' = [watch EXCEPT ![c] = FALSE]
    /\ UNCHANGED <<stack, serving, connecting, endpoint, backlog>>

Answer(c) ==
    /\ phase[c] \in {"queued", "pending"}
    /\ \E k \in Layers, v \in {"ok", "err"} :
        /\ verdict[c][k] = "none"
        /\ \A i \in 1..(k - 1) : verdict[c][i] = "ok"
        /\ Decide(c, k, v)

\* The handshake_timeout in Connecting of airio-quic.
Expire(c) ==
    /\ stack[1] = "quic" /\ phase[c] = "pending" /\ verdict[c][1] = "none"
    /\ Decide(c, 1, "err")

\* quinn's driver ends, with an I/O error of the socket say, and wakes accept.
LoseEndpoint ==
    /\ stack[1] = "quic" /\ listener = "live" /\ endpoint = "open"
    /\ endpoint' = "lost"
    /\ woken' = IF acceptWaker THEN woken \cup {"server"} ELSE woken
    /\ acceptWaker' = FALSE
    /\ UNCHANGED <<stack, listener, pendingEvent, accept, backlog, events, faults,
                   connecting, verdict, watch>>

-----------------------------------------------------------------------------
(* Transport::listen and connect: an error of the transport's own call comes *)
(* back at once through every layer.                                         *)

Listen ==
    /\ listener = "none"
    /\ listener' \in {"live", "refused"}
    /\ woken' = IF listener' = "live" THEN woken \cup {"server"} ELSE woken
    /\ UNCHANGED <<stack, pendingEvent, accept, endpoint, acceptWaker, backlog,
                   events, faults, connecting, verdict, watch>>

\* Mutant of Kept: the upgrade of an accepted connection dials.
KeptDialer(c) ==
    [k \in Layers |-> IF ~HasArgs(k) THEN "none"
                      ELSE IF stack[k] = "with_upgrade" THEN "dialer" ELSE Role(c)]

\* What each layer stores in the future it makes for a connection: its function
\* and the ConnectedPoint (AndThen, Map) or the role (WithUpgrade).
Kept(c) == [k \in Layers |-> IF HasArgs(k) THEN Role(c) ELSE "none"]

Begin(c) ==
    /\ phase' = [phase EXCEPT ![c] = "pending"]
    /\ args' = [args EXCEPT ![c] = Kept(c)]

Dial(c) ==
    /\ phase[c] = "idle"
    /\ \/ /\ Begin(c)
          /\ woken' = woken \cup {c}
          /\ UNCHANGED err
       \/ /\ phase' = [phase EXCEPT ![c] = "failed"]
          /\ err' = [err EXCEPT ![c] = Wrapped(1)]
          /\ UNCHANGED <<args, woken>>
    /\ UNCHANGED <<stack, serving, endpoint, backlog, level, calls, verdict, watch>>

-----------------------------------------------------------------------------
(* poll_next of the listener: the layers pass every event on. *)

Serving == listener = "live" /\ "server" \in woken
Yield(event) == events' = Append(events, event)

Listened ==
    /\ Serving /\ pendingEvent
    /\ pendingEvent' = FALSE
    /\ Yield("listened")
    /\ UNCHANGED <<stack, listener, accept, endpoint, acceptWaker, backlog, faults,
                   connecting, verdict, watch, woken>>

Accepting == Serving /\ ~pendingEvent /\ accept = "waiting" /\ endpoint = "open"

\* Mutant of Incoming: airio-quic does not replace its accept future.
IncomingOnce ==
    /\ Accepting /\ backlog # <<>>
    /\ LET c == Head(backlog) IN
        /\ Yield(c)
        /\ Begin(c)
        /\ woken' = woken \cup {c}
    /\ accept' = IF stack[1] = "quic" THEN "completed" ELSE accept
    /\ backlog' = Tail(backlog)
    /\ UNCHANGED <<stack, listener, pendingEvent, endpoint, acceptWaker, faults,
                   level, calls, verdict, watch, err>>

\* The application spawns a task for the upgrade, and comes back.
Incoming ==
    /\ Accepting /\ backlog # <<>>
    /\ LET c == Head(backlog) IN
        /\ Yield(c)
        /\ Begin(c)
        /\ woken' = woken \cup {c}
    /\ backlog' = Tail(backlog)
    /\ UNCHANGED <<stack, listener, pendingEvent, accept, endpoint, acceptWaker,
                   faults, level, calls, verdict, watch, err>>

\* accept fails: the connection is gone or, with TCP, still waiting (no file
\* descriptor is left).
AcceptError ==
    /\ Accepting /\ backlog # <<>> /\ faults < MaxFaults
    /\ faults' = faults + 1
    /\ Yield("error")
    /\ \/ /\ backlog' = Tail(backlog)
          /\ phase' = [phase EXCEPT ![Head(backlog)] = "refused"]
       \/ stack[1] # "quic" /\ UNCHANGED <<backlog, phase>>
    /\ UNCHANGED <<stack, listener, pendingEvent, accept, endpoint, acceptWaker,
                   level, args, calls, verdict, watch, err, woken>>

AcceptPending ==
    /\ Accepting /\ backlog = <<>>
    /\ acceptWaker' = TRUE
    /\ woken' = woken \ {"server"}
    /\ UNCHANGED <<stack, listener, pendingEvent, accept, endpoint, backlog, events,
                   faults, connecting, verdict, watch>>

\* accept returns None and the loop goes round: the completed future is polled.
AcceptNone ==
    /\ Serving /\ accept = "waiting" /\ endpoint = "lost"
    /\ accept' = "completed"
    /\ UNCHANGED <<stack, listener, pendingEvent, endpoint, acceptWaker, backlog,
                   events, faults, connecting, verdict, watch, woken>>

ResumeAccept ==
    /\ Serving /\ accept = "completed"
    /\ listener' = "panicked"
    /\ woken' = woken \ {"server"}
    /\ UNCHANGED <<stack, pendingEvent, accept, endpoint, acceptWaker, backlog,
                   events, faults, connecting, verdict, watch>>

PollNext == Listened \/ Incoming \/ AcceptError \/ AcceptPending \/ AcceptNone
            \/ ResumeAccept

-----------------------------------------------------------------------------
(* poll of the futures of a connection. *)

Polled(c) == phase[c] = "pending" /\ c \in woken
Verdict(c) == verdict[c][level[c]]

\* Mutant of Ascend: the new future is not polled.
AscendAsleep(c) ==
    /\ Polled(c) /\ Verdict(c) = "ok" /\ level[c] < Top
    /\ LET k == level[c] + 1 IN
        /\ level' = [level EXCEPT ![c] = k]
        /\ calls' = IF HasArgs(k) THEN [calls EXCEPT ![c][k] = Append(@, args[c][k])] ELSE calls
        /\ args' = [args EXCEPT ![c][k] = "none"]
    /\ woken' = woken \ {c}
    /\ UNCHANGED <<stack, serving, endpoint, backlog, phase, verdict, watch, err>>

\* The layer below is done: the next one takes its arguments, calls its
\* function and polls what that returns; `expect` panics without arguments.
Ascend(c) ==
    /\ Polled(c) /\ Verdict(c) = "ok" /\ level[c] < Top
    /\ LET k == level[c] + 1 IN
        \/ /\ ~HasArgs(k)
           /\ level' = [level EXCEPT ![c] = k]
           /\ UNCHANGED <<phase, args, calls>>
        \/ /\ HasArgs(k) /\ args[c][k] # "none"
           /\ level' = [level EXCEPT ![c] = k]
           /\ calls' = [calls EXCEPT ![c][k] = Append(@, args[c][k])]
           /\ args' = [args EXCEPT ![c][k] = "none"]
           /\ UNCHANGED phase
        \/ /\ HasArgs(k) /\ args[c][k] = "none"
           /\ phase' = [phase EXCEPT ![c] = "panicked"]
           /\ UNCHANGED <<level, args, calls>>
    /\ UNCHANGED <<stack, serving, endpoint, backlog, verdict, watch, err, woken>>

\* Mutant of Complete: the level moves on.
CompleteBeyond(c) ==
    /\ Polled(c) /\ Verdict(c) = "ok" /\ level[c] = Top
    /\ phase' = [phase EXCEPT ![c] = "connected"]
    /\ level' = [level EXCEPT ![c] = @ + 1]
    /\ woken' = woken \ {c}
    /\ UNCHANGED <<stack, serving, endpoint, backlog, args, calls, verdict, watch,
                   err>>

Complete(c) ==
    /\ Polled(c) /\ Verdict(c) = "ok" /\ level[c] = Top
    /\ phase' = [phase EXCEPT ![c] = "connected"]
    /\ woken' = woken \ {c}
    /\ UNCHANGED <<stack, serving, endpoint, backlog, level, args, calls, verdict,
                   watch, err>>

Fail(c) ==
    /\ Polled(c) /\ Verdict(c) = "err"
    /\ phase' = [phase EXCEPT ![c] = "failed"]
    /\ err' = [err EXCEPT ![c] = Wrapped(level[c])]
    /\ woken' = woken \ {c}
    /\ UNCHANGED <<stack, serving, endpoint, backlog, level, args, calls, verdict,
                   watch>>

Wait(c) ==
    /\ Polled(c) /\ Verdict(c) = "none"
    /\ watch' = [watch EXCEPT ![c] = TRUE]
    /\ woken' = woken \ {c}
    /\ UNCHANGED <<stack, serving, endpoint, backlog, connecting, verdict>>

Poll(c) == Ascend(c) \/ Complete(c) \/ Fail(c) \/ Wait(c)

-----------------------------------------------------------------------------

Next ==
    \/ Listen \/ PollNext \/ LoseEndpoint
    \/ \E c \in Inbound : Come(c)
    \/ \E c \in Outbound : Dial(c)
    \/ \E c \in Conn : Answer(c) \/ Expire(c) \/ Poll(c)

Spec == Init /\ [][Next]_vars

\* The executor polls the tasks that are woken, and time passes.  Nothing is
\* assumed of the other ends.
FairSpec ==
    /\ Spec
    /\ WF_vars(PollNext)
    /\ \A c \in Conn : WF_vars(Poll(c)) /\ WF_vars(Expire(c))

-----------------------------------------------------------------------------
(* Properties. *)

\* However the futures of a connection are interrupted, the function of each
\* layer is called once, when the layers below are done, with the role of this
\* connection; its arguments are there until then, so no `expect` fails.
LayersAgree ==
    \A c \in Conn :
        /\ phase[c] # "panicked"
        /\ \A k \in Layers \ {1} :
            HasArgs(k) =>
              /\ calls[c][k] = IF k <= level[c] THEN <<Role(c)>> ELSE <<>>
              /\ phase[c] = "pending" /\ k > level[c] => args[c][k] = Role(c)

\* The stage an error comes from, read off its wrappers: the outermost Right or
\* Upgrade, or else the transport.
Stage(e) ==
    IF \E j \in DOMAIN e : e[j] \in Own
    THEN CHOOSE j \in DOMAIN e : /\ e[j] \in Own
                                 /\ \A i \in DOMAIN e : i > j => e[i] \notin Own
    ELSE 1

Outcome ==
    [c \in Conn |-> IF phase[c] = "failed" THEN <<"failed", Stage(err[c])>>
                                           ELSE <<phase[c]>>]

\* Through any stack of layers the application sees what ConnectionService
\* promises: connections in order, each made stage by stage, and an error
\* that tells the stage which failed.
Service == INSTANCE ConnectionService WITH
    announces <- stack[1] # "quic", outcome <- Outcome
ServiceSpec == Service!Spec

\* Connections that have come are offered while the upgrades of others are
\* stalled.  Only the loss of the endpoint stops that, and then the server task
\* does not sleep on: it panics.
ConnectionsOffered ==
    /\ \A c \in Inbound : phase[c] = "queued" ~> (phase[c] # "queued" \/ endpoint = "lost")
    /\ endpoint = "lost" ~> listener = "panicked"

\* An upgrade whose other end has agreed to everything, or has failed, ends; one
\* whose other end is silent gets past its first layer, or fails, if that is the
\* handshake of airio-quic.  Nothing bounds the time of a WebSocket handshake or
\* of the layers above.
Decided(c) == \A k \in Layers :
    verdict[c][k] = "none" => \E i \in 1..(k - 1) : verdict[c][i] = "err"
Due(c) == phase[c] = "pending" /\ (Decided(c) \/ (stack[1] = "quic" /\ level[c] = 1))

UpgradesEnd ==
    \A c \in Conn : Due(c) ~> phase[c] \in {"connected", "failed"} \/ ~Due(c)
=============================================================================
