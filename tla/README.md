# A verification project for airio

airio is a small modular network stack in Rust: transports (TCP, WebSocket, QUIC), a
protocol selection on a byte stream, and connection upgrades that end in a stream
muxer. This directory holds TLA+ models of the parts where order, buffering and
polling decide whether the program is right, the TLC configurations that check them,
and TLAPS proofs about the selection, the upgrade chain, the transport stack, the muxers and
QUIC. Paths below are relative to the repository; `PROJECT.json` maps each definition to the lines it models.

## 1. The system

| Component | State it keeps | Operations | Talks to |
|---|---|---|---|
| `length_delimited.rs` | read state, read buffer, write buffer | `poll_next`, `poll_ready`, `start_send`, `poll_flush`, `poll_close`, `into_inner`, raw writes through `LengthDelimitedReader` | the socket below, `MessageIO` above |
| `dialer_select.rs`, `listener.rs` | a state with the stream in it, the remaining protocols | `poll` | each other, by frames |
| `negotiated.rs` | `Expecting`, `Completed` or `Invalid` | read, write, flush, close, `complete` | framing below, application above |
| `upgrade/apply.rs`, `transport/upgrade.rs`, `transport/and_then.rs`, `transport/map.rs` | which future of the chain is running, the function and role kept for the next one | `listen`, `connect`, the listener's `poll_next`, the futures' `poll` | the transport below, the selection, the upgrades |
| `airio-identify` | none | `handshake`: write key, read key | its `Negotiated` stream |
| `airio-muxing`, `airio-yamux` | buffer of inbound streams, one parked waker | `poll`, `poll_inbound`, `poll_outbound`, `poll_close` | an external muxing crate, the application's tasks |
| `airio-quic` | futures stored between calls | `Connecting::poll`, `poll_inbound`, `poll_outbound`, `poll_close`; the accept loop; `Stream` | quinn |
| `airio-ws`, `RwStreamSink` | the current message and a cursor | read, write, flush, close; accept, connect | tungstenite |
| `airio-tcp` | a pending event | listen, accept, connect | tokio |
| combinators (`map_err`, `boxed`, `either`, `select`) | a wrapped listener or future | pass on, rename errors | the transport below |
| the echo servers of `examples` | a listener loop; per connection two tasks and a channel of ten streams | accept, hand over, copy | all of the above |
| `extensions.rs` | a map by type | insert, get, remove | nobody yet |

There is no shared memory: a component is a state machine that its owner polls, and a
task sleeps until its waker is called. Ends of a connection share only the byte
stream. What makes the code hard:

* **A proposal nobody waits for.** For the last protocol of its list the dialer
  returns its stream at once, with the proposal still in a write buffer. Application
  data follows it. If the listener refuses, it reads that data as frames.
* **The stages are pipelined.** The stream of one stage, still `Expecting`, carries
  the negotiation of the next one.
* **Framing is taken off again.** `into_inner` returns the socket, and whatever the
  read or write buffer holds then is lost; two assertions say that they are empty.
* **Nested futures.** A connection is a future in a future, one for each combinator. Each
  keeps the function and the role for the moment the one below is done, takes them out
  then, and panics if they are gone.
* **A stored accept future.** `airio-quic` keeps it between polls and must replace it.
* **Wakers.** `poll_inbound` parks a waker which another task's `poll` has to wake,
  and the connection remembers only the waker it saw last.
* **State after an error.** `mem::replace(.., Invalid)` and a `?` before a `take()`
  decide what the next call finds.
* **A full queue.** The inbound buffer drops streams; the echo server's channel is
  filled with `try_send(..).unwrap()`.
* **No clock.** Only QUIC has a handshake timeout.

What must hold, component by component: both ends agree on the first common protocol,
and the stream is transparent afterwards; a frame arrives whole and in order and a cut
one is noticed; a connection is handed out with its peer's identity, and its muxer sees
only the other muxer's bytes; connections are offered in order and made or refused by all
layers together, with an error that tells the layer; no inbound stream is lost, reordered or left unseen; a
stored future is not polled after it has completed. `PROJECT.json` lists the hazards,
each at its line, with the properties that cover it.

## 2. The modules

| Module | What it is |
|---|---|
| `StreamSelect` | dialer, listener, both `Negotiated` streams and the applications on one stream of tokens |
| `Negotiation` | what the selection promises; `StreamSelect` refines it |
| `ForeignListener` | the dialer of `StreamSelect` against a peer that is not this crate's |
| `LengthDelimited` | the bytes of the framing, one direction |
| `FrameChannel` | what framing promises; `LengthDelimited` refines it |
| `ConnectionUpgrade` | the chain authenticate, apply, multiplex on one connection |
| `TransportStack` | a transport under any combinators: listener, dialled connections, nested futures |
| `ConnectionService` | what a transport promises its application; `TransportStack` refines it |
| `Muxer` | inbound streams of both muxer crates, and the echo server's use of them |
| `WsStream` | `RwStreamSink` over WebSocket messages, one direction |
| `ByteStream` | what a byte stream promises; `WsStream` refines it |
| `QuicConnection` | `Connecting` and the stored futures of a QUIC connection |
| `StreamSelectProofs`, `StreamSelectTransparency`, `LengthDelimitedProofs`, `ConnectionUpgradeProofs`, `TransportStackProofs`, `MuxerProofs`, `QuicConnectionProofs`, `WsStreamProofs` | the proofs (section 5) |
| `MC*` | small instances; each run is a configuration of one of them |

### StreamSelect

A token on the wire is a whole frame or a chunk of application data; `LengthDelimited`
justifies whole frames. `buf[s]` is the write buffer of side `s`, `wire[s]` what its
socket has accepted. One action is one state of a future's loop (`DialerInitial`,
`DialerSend`, `DialerFlush`, `DialerAwaitMessage`, ..., `ListenerRecvFrame`,
`ListenerSend`, `ListenerFlush`), one outcome of `poll_negotiated`, or one call of an
application. A call that returns `Pending`, and an I/O error that leaves the state as it
was, are stuttering steps.

* The listener may find application data where it expects a frame. Its bytes then
  either end a frame that does not decode, which is an error, or become part of a
  longer frame (`misframed`). Data that happens to spell a frame is in `Lookalikes`.
* A future that fails drops its stream: the write buffer is lost, the peer reads what
  was accepted and then the end. `WriteFails` is a write to a peer that is gone.
* `WriteZero` is the one error after which `poll_negotiated` goes on; `PollNegotiated`
  has it (`Fault` with a proposal still in `buf`).
* `panic` records the assertion that fails. The check that `Agreement` allows
  `"Done"` for the listener is meant: its echo may be on the wire when its flush fails.

### LengthDelimited

Bytes have `Radix` values, so that every header of the instance can be enumerated. A
read or a write takes any number of bytes. `HeaderCuts` are the positions inside a header
at which the transport may split: in the passing runs only after one byte, the case
`poll_next` provides for; the run `framing_cut` allows all three and shows the bug of
section 4. After `FrameCount` frames both ends stop framing, which is the moment of
`into_inner` and of raw writes through `LengthDelimitedReader`.

### ConnectionUpgrade

A pipeline is a sequence of stages with the dialer's offers and the listener's
supported names. The negotiation of a stage is at the level `StreamSelect` justifies:
`held` are proposals in write buffers of nested streams, `expecting` the echoes that a
read from the outermost stream must find first, innermost first. Writing to the
outermost stream flushes the inner ones first, so `held` leaves in order.

### TransportStack

`stack` lists the layers from the transport upward. `listen` and `connect` of a layer call
those of the layer below and wrap what they return, so an event of the listener passes all
layers in one `PollNext`; what a layer adds is what it keeps for each connection: `args[c][k]`
is its function with the role (`Kept`), `calls[c][k]` the calls made of it. `level[c]` is the
layer whose future runs. A layer with a future of its own (`HasFuture`) waits for the other
end, whose `verdict` comes when it likes or never; `ConnectionUpgrade` and `StreamSelect`
are what happens inside such a layer. `Ascend` is one round of the loop in `AndThenFuture`,
`UpgradeFuture` or `MapFuture`; `Wrapper` the error conversions.

* `Listened`, `Incoming`, `AcceptError`, `AcceptPending` are the outcomes of the listeners' `poll_next`.
  The address that airio-tcp and airio-ws announce is the one asked for; airio-quic announces none,
  and none yields `Closed`.
* The loss of the endpoint's driver is the only reason for quinn's `accept` to return `None`, as nothing
  closes the endpoint. `AcceptNone` and `ResumeAccept` follow the code: the loop goes round and polls
  the completed future.
* A failing `accept` of TCP may leave its connection in the backlog (no file descriptor): the
  server ignores the error and polls again.
* `woken` are the tasks the executor will poll: the server's, and one for each connection, as the
  examples spawn them.

### Muxer

`woken` is the set of tasks the executor will poll, `connWaker` the task the external
connection wakes. `use` is one of `"yamux"` (airio-yamux with an acceptor and a driver
task), `"muxing"` (airio-muxing with the same two, which `poll_inbound` lets take the
connection's waker from each other) and `"echo"` (airio-muxing polled by one task, the
echo server's `muxer_fut`). Neither `poll_outbound` nor `poll_close` is modelled: they
only call the connection.

For `"echo"` the module goes on to the second task of a connection: `HandOut` is the `try_send`
of `muxer_fut`, `taken` counts what `receiver.next()` has returned, and `Overfill` is the `unwrap` of
a full channel, which takes the muxer and the sender with it. The channel of the `futures` crate holds its
argument and one more for its one sender. The task spawned for a connection panics at the end by
`next().await.unwrap()` (`ReceiveNone`). `peak` is the highest number of streams that were open at once.

### WsStream

A byte is its place among the bytes written, so that a lost, repeated or misplaced one
shows. `buffered` is the write buffer of the WebSocket, `flushed` the number of bytes that have left it, `current` the item and cursor of
`RwStreamSink`. One `PollRead` is a whole `poll_read`: the loops of `poll_read` and of
`BytesWebSocketStream::poll_next` pass over empty and other messages to the next one that
`Stops` them. A transport delivers whole messages: reassembling frames is tungstenite's.
The reader's owner stops reading at the first end or error. A refused `start_send` changes
nothing and is a stuttering step, as is a `Pending` without a message.

### QuicConnection

`slot[c]` is the future stored by call `c`: absent, waiting, or completed and still
stored. `queue` are streams quinn has not handed out; it hands them out even after the
connection is lost. Nothing in the crate calls `close()`, so the `LocallyClosed` arm of
`poll_close` is not reachable and not in the model.

## 3. The runs

| Run | Shows |
|---|---|
| `negotiation` | agreement on the first common protocol, transparency, `into_inner`'s assertions, the inductive invariant, refinement of `Negotiation`; both ends settle, and data written ahead arrives |
| `foreign_listener` | a peer sees the proposals in order and data only behind them; the application gets all that follows the answer |
| `framing` | exact hand-over, ends told apart, refinement of `FrameChannel` (frames whole and in order); every frame arrives |
| `connection_upgrade` | stages agree on the best offer, a connection is handed out clean and with the peer's identity; both ends settle, and connect when they can |
| `transport_stack` | each layer's function called once with the right role, refinement of `ConnectionService`; connections are offered while others stall, decided upgrades end |
| `muxer` | order, no lost wake-up, the echo server falls only to a crowd; the connection is driven, every stream is handled, the end is reported |
| `ws_stream` | refinement of `ByteStream`: no byte lost, no false end of stream; what is flushed arrives |
| `quic` | no panic before an error; connecting ends, streams are served |
| `negotiation_invalid`, `framing_cut`, `quic_resumed`, `quic_close` | violations: section 4 |

**Bounds.** Every bound is a constant: `WireCap` (tokens or bytes in a socket), `MaxWrites`,
`MaxRaw`, `FrameCount`, `MaxFrames`, `MaxStreams` (what the environment does), `MaxFaults` (I/O errors, errors of `accept`).
Three names, one without its `/`, and lists of up to two cover: no protocol, no common one, a first
or second common one, an invalid name before or after a valid one. `WireCap` 2 makes writes wait and lets data follow a proposal in the socket. Two writes by each side are enough for
data before and behind an answer. `MaxBuffered` is 2 for 256 and `ChannelCap` 2 for 10; seven streams fill, overflow
and refill the buffer, and overfill the channel with one in service. The three stacks of `transport_stack`
have each transport and each combinator once or more, two layers with futures of their own as in the examples,
two connections that come (one can stall the other) and one dialled; one error of
`accept`, which the code could meet for ever. Frames of 0, 1, 3 and 4 bytes with a header of 4 and a wire of 6 meet every
cut of a header and a payload; one payload is larger than `MaxFrame`. WebSocket writes of 0 to 3 bytes with a
reader's limit of 2 and reads of 1 or 2 give empty messages, messages read in parts and a message
that is too large. Pipelines have two
to four stages, among them one where a listener supports at one stage what is offered at
another. `foreign_listener` has no faults: a peer that sends the
echo unasked, with a `WriteZero` at that moment, would make `into_inner` panic, which is
outside what the code promises. One fault is one break of the transport: the `WriteZero` that
`poll_negotiated` ignores and the read that fails right after it are the same one.

**Deadlock** is checked, with a `Finished` step for behaviours that are over, except for `Muxer`, `TransportStack`
and `QuicConnection`: there all tasks may rightly sleep when the environment has
nothing more to do.

**Fairness.** An executor polls a future that can progress, so each future has weak
fairness on all of its steps together (`DialerStep`, `ListenerStep`, `PollInbound`, `Poll`).
`negotiation` (`ReadingSpec`) also assumes that the dialer's application reads its stream or awaits
`complete()`, and that the listener's application reads what arrives. In `transport_stack` woken
tasks are polled and QUIC's timer fires; the other ends may be silent for ever, so the property
is about those that are not. In `muxer` the
acceptor of `"muxing"` comes back for the next stream, that of `"yamux"` need not: its
driver drives the connection alone. Its remote ends the streams it opens (`Server`), or the echo task would serve the
first one for ever. In `ws_stream` the writer's owner
flushes and the reader's polls. In `quic` time passes, and the timer fires. The
environment (the other applications, faults, drops, quinn, the remote) has no fairness
at all.

## 4. Where the code does not do what it says

* `framing_cut`: the reader parses a four byte length after two bytes
  (`length_delimited.rs:111`). A transport that delivers the header in pieces makes it return a frame
  nobody sent. A write of four header bytes and the payload in one `poll_write` hides it.
* `negotiation_invalid`: a stream whose negotiation has failed panics on the next call
  (`negotiated.rs:76`), where the first one returned an error.
* `quic_resumed`: after an error the completed future stays in its slot and is polled again
  (`connection.rs:106`, `:123`).
* `quic_close`: `poll_close` waits for a close that nobody requests (`connection.rs:135`).

## 5. The proofs

Checked by TLAPS for every value of the constants, from the assumptions the modules name, which TLC evaluates
in every run. Each theorem is about `Spec`, without fairness:

| Module | Theorem | States |
|---|---|---|
| `StreamSelectProofs` | `TypeCorrect` | `[]TypeOK`, for every set of names, lists, transport size and bound |
| | `AlternationHolds`, `AgreementHolds`, `FirstCommonProtocolHolds`, `HandoffAssertsHold` | the inductive invariant and the three safety properties |
| | `ImplementsNegotiation` | `Spec => AbstractSpec` |
| `StreamSelectTransparency` | `TransparencyHolds` | `[]Transparency` |
| | `ProposalsInOrderHolds`, `NothingSwallowedHolds` | the two invariants of `ForeignListener`, whatever the listener sends |
| `LengthDelimitedProofs` | `TypeCorrect` | `[]TypeOK`, wherever headers are cut |
| | `FramesIntactHolds`, `HandOverExactHolds`, `CleanEndHolds` | the three invariants, for every radix, frame size and capacity and every way of cutting reads and writes, *if* headers are cut after one byte at most |
| | `ImplementsChannel` | `Spec => ChannelSpec`, under the same hypothesis |
| `ConnectionUpgradeProofs` | `TypeCorrect`, `StagesAlwaysAgree`, `HandsOutClean` | the three invariants of `ConnectionUpgrade`, for every chain `Builder` can make, every list of offers and every set of supported names |
| `TransportStackProofs` | `TypeCorrect` | `[]TypeOK`, for every set of stacks and connections |
| | `LayersAgreeHolds` | `[]LayersAgree` |
| | `ImplementsService` | `Spec => ServiceSpec` |
| `MuxerProofs` | `TypeCorrect`, `NoLostWakeupHolds`, `StreamsInOrderHolds`, `FullOnlyIfCrowdedHolds` | the four invariants of `Muxer`, for every buffer, channel and number of streams |
| `QuicConnectionProofs` | `TypeCorrect`, `PanicsOnlyAfterErrorHolds` | the two invariants of `QuicConnection` |
| `WsStreamProofs` | `TypeCorrect` | `[]TypeOK` with the bound of the write buffer, for every size of writes, reads, messages and buffers |
| | `ImplementsStream` | `Spec => StreamSpec` |

**The selection.** `Agreement` is not inductive: that the dialer reads the right answer depends on what is
still in the buffers. `Alternation` says, for each state of the dialer, how far the two
sides can be apart. Between two proposals the stream is `Quiet`. While the dialer waits
(`Lockstep`) exactly one of four things holds: the proposal is in a buffer, it is on the wire, the listener
is `Deciding`, or the answer is on its way (`Accepted`, or `NA`). With a stream that is `Expecting` (`Pipelined`) application
data may follow and the listener may go on answering what it takes for proposals, so only the *first* token of its answers
is fixed. This is the heart of the argument: a listener that refuses the proposal puts `NA` in front of anything else, and the dialer
accepts only what it reads first; a listener that accepts stops reading frames. The proof has
a lemma per action, and each treats the dialer states that the action can meet. A
listener that has failed (`ListenerLost`) sends nothing, which settles the fault cases.

Agreement, first common protocol and the assertions follow from `Alternation`.
For the refinement, a `Commit` is the step in which the listener decides to echo
(`ListenerRecvFrame`), an `Agree` the one in which the dialer's stream completes
(`DialerAwaitMessage`, `PollNegotiated`), and all others stutter. A second invariant, `UnansweredHolds`,
says that a listener that still negotiates has not committed, so it commits only once.

**The data.** `Transparency` says of two completed ends that nothing is lost between them, but data may be written
long before the other end completes, so the invariant (`DataInOrder`) follows them from the first byte. The answer's side:
while the dialer waits and the listener has accepted, what lies on the wire behind the answer is exactly what
the listener's application has written (`BehindAnswer`). The proposal's side: behind a last proposal
that the listener supports lies exactly what the dialer's application has written, whether the proposal is still
in the buffer (then nothing is written, as a write flushes it first), next on the wire, or read (`BehindProposal`: `Unsent`, `Underway`,
`Arrived`). Of a proposal the listener refuses nothing is said: it goes on to take the data for frames. `NoDataYet` says
which queues are empty before. Two lemmas about sequences carry the steps: moving the head of one to the end of the
other changes no concatenation (`Joins`), and what is appended comes last.

With any other listener nothing is known of the order of steps. For `ProposalsInOrder` the whole stream the dialer has
produced, read or on the wire or buffered, is the list and then the data, whatever is read of it when (`SentInOrder`). For
`NothingSwallowed`, what the listener has sent is a front and then the wire; the echo ends the front when
the dialer completes, and from there on the front stays (`BehindEcho`).

**The framing.** Nothing on the wire marks where a frame begins: the reader knows it from the bytes it has read, and
where the next one begins from the length it takes those bytes for. Two facts about arithmetic come first: a number below
`Radix`^4 is the value of its four digits (`LengthOfHeader`), and four bytes never exceed it. The invariant names
the whole stream the writer has produced, as a witness. `Layout` says that there are offsets at which its frames end, each a header
and a payload behind the one before, and the raw bytes behind the last; appending a frame or a raw byte preserves it without induction.
`Transit` says how far the reader is and that the wire and the write buffer are what comes next: all of it, unless a drop has lost
the rest. `Place` says that the reader is at the end of the frames it has delivered, or as many bytes behind as its state claims, and holds
exactly those bytes. So what it takes for a header is one. That there *is* a frame to read follows
from the order of the two ends (`NextFrame`): raw bytes follow only the last frame, and the reader hands over at that frame.
The hypothesis `HeaderCuts \subseteq {1}` is what the code needs and section 4 shows to be needed: a length is then only
parsed from four bytes. It is used in one place, `ReadHeaderInv`.

**The upgrade chain.** Here many proposals are under way at once: those `held`, those on the wire, the one being answered,
and the echoes the dialer still has to read. The invariant `IInv` counts them (`Proposed`, `Answered`, `Ahead`, `Unconfirmed`)
and says which token is at which place. `ListenerView` is what the listener may count on: at most one key and otherwise
proposals lie between what it has read and the other muxer's frames, and there are no more proposals than stages. `DialerView` is the counterpart
of `Alternation`: the two sides are `InStep` (the echoes to come are those of the stages the dialer expects them from, the proposals
to come those it has made, both in order); or the listener has refused a proposal the dialer waits for (`RefusedAwaited`), so that the
next offer starts from empty wires; or it has refused one that the dialer goes by (`RefusedLast`). In the last case nothing
is known of what follows, as the listener takes the pipelined stages for other offers, but the refusal is at the place of the
echo the dialer reads before anything behind it. `StagesAgree` is not inductive, since the dialer compares an echo with what it proposed and not
with the listener's choice, and neither is `CleanHandOut`, since no state records that the key came after the echo: `KeyOrder`, `KeyAt` and `MuxLast` do.
`InOrderOfPreference` is the part of `StagesAgree` about refused offers. The listener may have gone astray (`garbled`) or be
down; then only what the dialer has read already counts (`Apart`). The proof has a lemma for each action
and each of the three cases, about lengths that are opaque to the arithmetic and a place on the wire at a time.

**The transport stack.** `LayersAgree` is about one connection at a time and is
inductive with two more facts: a connection that waits to be accepted has not passed any layer (`InStep`) and waits
once (`Queued`; a connection twice in the backlog would begin twice). The refinement maps the phase and the wrappers of an
error to an outcome. Most steps stutter, among them every `Ascend`; `Complete` is a `Connect` because a pending
connection has passed the layers below with the verdict "ok" and no layer above is left (`InStep`), and
`Fail` is the `Fail` of the level the wrappers spell, which needs that a failing layer has a future of its own: the
lemma about `Stage` shows that the outermost `Right` or `Upgrade` is then its own, or that it is the transport.
`Announced` ties the pending event to the first announcement.

**The muxers.** `NoLostWakeup` follows from `Parked`: an acceptor that sleeps has left its waker
*and* the buffer is empty, so the next stream that is buffered wakes it. `StreamsInOrder` is about `Pipeline`, which is
accepted, buffered and queued streams in one sequence. The steps move its boundaries (`Alike`), take one element out
(`Without`) or append the next number, and three lemmas about sequences say what each does to the order. For `FullOnlyIfCrowded`, `Counted` bounds the pipeline by
the streams that were opened and `Tallied` the open ones by `peak`: when `try_send` fails, the `ChannelCap + 1` streams in the channel and the
one in hand are open.

**QUIC.** A completed future stays in its slot only where `?` left it (`LeftByError`).

**The WebSocket stream.** The bytes of a sequence of messages would have to be computed by recursion. Instead `Runs` says that there are
offsets, one per message, at which its bytes begin, that they do not decrease, and that they stay the same over
messages without bytes; appending a message and dropping the first ones preserve this without induction. `Order` says that what is
written and not read lies in the current item, on the wire and in the write buffer, each beginning where
the one before ends, and `Closing` that nothing lies behind a close frame: so a reader that meets it has read all there is. A step that passes
over empty or other messages is a `Read` of the first one with bytes.

**Left to TLC**: liveness (the provers have no rule for fairness and `ENABLED`).

## 6. Not modelled

* The contents of names, keys and data; encryption. So in `ConnectionUpgrade` every name is valid (`StreamSelect` has invalid ones:
  a dialer fails on its own, a listener ignores those it is given), and what is read for a key is taken as one: `VerifyingKey::from_bytes`
  would refuse some of what is not, earlier than the model does.
* Certificates. `remote_peer_id` (`airio-quic/src/connection.rs:33`) panics on a peer without a readable one; in `QuicConnection` the
  handshake of quinn, whose configuration the application makes, is taken to fail first.
* What the function of a `MapErr` does: it is taken to keep the error it is given as the source of its own. One that discards it makes
  the stage of an error unreadable, as the application then asked for.
* `TcpStream`, the muxer trait with its box, `poll_outbound` and `poll_close` of the muxers: they pass calls on and
  keep nothing. So does the QUIC `Stream`, except
  that it keeps the result of `poll_close`, returns it again, and after a close that failed reads nothing more.
* `Extensions`, a map by type that nothing uses; `EitherFuture` and `PendingUpgrade`, which hold no state
  of their own; `Config::new` of airio-quic, a `todo!()`.
* The muxing crates, quinn and tungstenite with its handshake: environment, modelled from how they are used.
* The size of the read buffer (`length_delimited.rs:120`) and wall-clock time.
* The clients of the examples, which end with their first error.
* Polling a future of a chain again after it has completed, which panics: neither the executor nor a combinator does.

## 7. Plan

1. QUIC `Stream`, whose reads end after a failed `poll_close`, with a peer that stops it; `Extensions` as a map.
2. A listener of `ConnectionUpgrade` that is not this crate's, as `ForeignListener` is for one stage.

The order was: the selection first, as everything rests on it; the framing that justifies its
tokens; the upgrade chain that composes selections; the muxers; QUIC; the WebSocket stream; the
transports and combinators that put them together; the echo server on top.
