# TLA+ specification of iscp-go

iscp-go is a client library for the iSCP protocol: an application opens a
connection (`iscp.Conn`) to a broker, opens upstreams and downstreams on it,
and keeps using them while the library replaces lost sessions underneath. This
directory specifies the parts of the library where goroutines, lost sessions,
failing transports and closing calls meet, and the conversions between the
library's messages and the protocol's. TLC checks them on small instances and
TLAPS proves the most important safety properties for instances of any size.

Line numbers below are of the sources in `src/`.

## 1. The system and its parts

| Part | State it keeps | Operations | Hard behaviour |
|---|---|---|---|
| **Conn** (`iscp/conn.go`, `state.go`) | `state` (Connected, Reconnecting, Closed) with a condition variable, `wireConn` behind `wireConnMu`, the open streams | connect; the goroutine that runs a session and redials; `send`, the retry around every request; `Close` | three kinds of goroutines change `state`; reconnect, `Close` and late senders race for the session; `Close` must not wait for the network |
| **Upstream** (`iscp/upstream.go`, `stream_state.go`) | send buffer, sequence number, `sentBuf` of unacknowledged chunks, one result channel per chunk, Connected/Resuming/Draining | `WriteDataPoints`, `Flush`, the loops of `run`, resume and resend, drain, `Close` | acks late, twice or never; resends against new chunks; one tear-down from three places; a drain on a condition variable |
| **Downstream** (`iscp/downstream.go`) | alias tables, ack buffers, `finalAckFlushed` | reading, ack flushing, resume, `Close` | final ack flush against `Close`, resume after a conflict |
| **E2E calls** (`iscp/e2e.go`) | tables of pending call and reply ids, bounded queues | call, reply, receive | Write under `wireConnMu`, full queues, abandoned calls |
| **Wire session** (`wire/client_conn.go`) | request table, subscription tables, channels of 8 and of 1024 | handshake, requests, keep-alive, dispatch of incoming messages | dispatch against subscribe, unsubscribe and close; full channels; who notices that the transport is gone |
| **Encoding** (`encoding`, `encoding/convert`) | none | Write and Read of a message, conversions in both directions | fields that are not there, enumerators a newer peer knows, unions with nothing in them |
| **Reconnecting transport** (`transport/reconnect`) | the current transport, write queue, ping/pong table, status | dial, read, write, reconnect, close | two loops find the same failure; Close during a dial; the first dial against everything |
| **Multi transport** (`transport/multi`) | transport map, selectors, what they know of the transports | write, poll, select, monitor, close | the map's lock, transports that go, decisions on stale data |
| **NIC manager** (`transport/nic`) | the current interface, subscribers | ChangeNIC, fan-out | events dropped on a full channel |
| **QUIC transport, segmentation** (`transport/quic`, `internal/segment`) | `sendMu`, buffers of partly received messages | write, read, send segments, put them together, expire | lost, duplicated, reordered segments; readers at a full channel |
| **Event dispatcher, stream repository, retry** | a queue; a map; a counter | add a handler; save, find; wait | events queued when the loop ends |
| **Negotiation, WebSocket, WebTransport, compression, metrics, message, log** | configuration, I/O, conversions | | |

How they interact: the application calls Conn, Upstream and Downstream from any
goroutine. Conn owns one wire session at a time and hands it out by
`snapshotWireConn`. A stream keeps the session it was opened or resumed on,
watches the connection's `state` through its condition variable, and asks for
the new session when it resumes. The wire session writes and reads messages
through an encoding over a transport; one reader and one dispatcher deliver
acks, chunks and replies through channels to the streams and to those who wait
for a reply. The transport under it may be a QUIC, WebSocket or WebTransport
connection, one that reconnects by itself (`reconnect`), or several of those
(`multi`), between which a selector chooses for each write. What makes each
part correct is listed under *hazards* in `PROJECT.json`, one entry per place
in the code, with the properties that cover it or the reason why none does.

## 2. Modules

    ConnPromise              what a connection promises
      ^ implemented by          ^ environment of
    Conn                     Upstream, Downstream
    UpstreamPromise          what an upstream promises, implemented by Upstream
    Wire                     one session: handshake, dispatch, requests, keep-alive
    Codec                    Write and Read of a message, over
      ToProto, ToWire        the conversions in the two directions, of the
        Message              messages
    Multi                    several transports behind one, over
      Selectors              the choice of one of them
    Reconnect                a transport that replaces the one under it
    Quic                     framing, segments and their reassembly

Each has an `MC` module with the model values of its instance. `ConnProofs`,
`UpstreamProofs`, `DownstreamProofs`, `ReconnectProofs`, `MultiProofs`,
`WireProofs`, `QuicProofs` and `CodecProofs` hold the theorems.
Operators named `..._Bug` are plausible mistakes in the definition that follows
them; every property of a passing run is known to fail under one of them
(`mutants` in `PROJECT.json`).

**ConnPromise** is the abstract connection: a phase, the session it hands out
and whether that session has ended. A session that is lost stays lost; a new
one is handed out only while the connection is not Connected and after the old
one has ended; Closed is final.

**Conn** is the connection as it is written. The correspondence:

| Model | Code |
|---|---|
| `state` | `Conn.state`; `CASNotClosedToReconnecting`, `CASReconnectingToConnected` are its two compare-and-swaps |
| `wireConn`, `mu` | `Conn.wireConn` and the holder of `wireConnMu` (critical sections without a blocking step in them are one action that asks for a free `mu`) |
| `status[s]` | a `wire.ClientConn`: open, broken (its transport is gone, every Write fails) or closed (its context is cancelled, `Closed()` is readable) |
| `lpc`, `res`, `cancelled` | the goroutine of `ConnectWithConfig`, the session `reconnect` has dialled, the context of the current iteration |
| `upc`, `sess` | callers of `send`: *Senders* do a round trip on a snapshot (OpenUpstream, OpenDownstream, SendMetadata), *Callers* write under `wireConnMu` (`Conn.call`) |
| `cpc` | callers of `Close` |

`Close` stores Closed without holding `wireConnMu`, so it is a step of its own
between any two steps of `reconnect`; the second locked section of `reconnect`
is therefore split at each place where it looks at `state`.

**Upstream** is a stream and the broker it talks to, over ConnPromise:

| Model | Code |
|---|---|
| `phase`, `current`, `up` | the connection (`c.state`, `snapshotWireConn`) |
| `wireConn`, `alias` | `Upstream.wireConn`, and the session that assigned `idAlias` |
| `buffered`, `seq`, `sent` | a non-empty `sendBuffer`, the sequence number, the keys of `sentBuf` |
| `waiter`, `full` | `upstreamChunkResultChs` (whose channel is registered for a chunk) and which channels hold a result |
| `toSend`, `awaiting` | goroutines of `flush` that have not yet sent, or wait in `sendChunkAndWaitAck` |
| `lastAcked` | `maxSequenceNumberInReceivedUpstreamChunkResults` equals the last number issued |
| `rpc`, `watcher`, `flusher`, `reader`, `resend` | the stream's goroutine and the members of `run`'s errgroup |
| `cpc` | callers of `Upstream.Close`; `receivedAck.L` is held in list, size and park |
| `requested`, `tearOn` | `closeRequested`, the CloseRequest on its way |
| `acks`, `received` | the broker: acks on their way, what it has received |

`requests`, `events` and `received` are history variables. Aliases are
identified with the session that assigned them. A new run inherits nothing from
the old one except goroutines of `flush` that have not sent yet, as in the code.

**UpstreamPromise** is the stream as the application may think of it: which
chunks have been issued, are kept and have been received; how often the broker
was asked to close and has agreed; whether all is over. It knows no session,
goroutine, timer or resume. A reliable stream forgets a chunk only when it has
been received, what is received has been issued and, if the stream is reliable,
was still kept or had been received before; the request to close goes out once,
of a stream that is not over. `Promise` in Upstream is the refinement mapping,
`KeepsStreamPromise` the statement.

**Downstream** is the other kind of stream, over ConnPromise too:

| Model | Code |
|---|---|
| `phase`, `current`, `up`, `wireConn` | as in Upstream |
| `place[k]` | where a chunk, or what is owed for it, is: `dpsCh` (wire), `dataPointsCh` (app), a step of a `ReadDataPoints` call, `resultAckBuffer` (buffered), the ack being written (sending) |
| `carries`, `mine` | how the chunk names its upstream and its data ID; the alias its reader has put into the table and not yet into the ack buffer |
| `assigned`, `pending`, `ack` | `upstreamInfos` and `dataIDAliases`; `upstreamInfoAckBuffer` and `dataIDAckBuffer`; what `flushAck` has taken from them and is writing |
| `known` | the broker: the aliases it has been told |
| `flusher`, `stop`, `flushed` | `flushAckLoop`, its own context, `finalAckFlushed` |
| `reader`, `watcher`, `rpc` | the members of `run`'s errgroup, the stream's goroutine |
| `cpc`, `tearOn` | callers of `Downstream.Close`, the session the CloseRequest went to |

A chunk is the room for one delivery and is used again once it is acknowledged,
lost or dropped, so that few chunks stand for any number. `ReadDataPoints` is
five places, since it takes and frees `d.mu` five times, and any number of
readers may stand between two of them. The aliases outlive the session, the
channels do not: `resume` replaces them, and who waits on the old
`finalAckFlushed` is let through. `owed` is a history variable.

**Wire** is one session, from the handshake to the end of its goroutines:

| Model | Code |
|---|---|
| `phase`, `Watchdog` | `Connect`: the request, the reader's first message, the version check; the `AfterFunc` that closes the transport when no answer comes |
| `inbox`, `reader`, `disp`, `queue` | the transport, `readReliableLoop`'s Read and dispatch, the channels `msg...Ch` (8 each) |
| `replyTo`, `reply`, `pc` | `replyCh`, the reply channels, and the callers of `SendUpstreamOpenRequest`, `...CloseRequest` and `SendPing` |
| `chan`, `table` | the channels of the streams and the tables in which they are registered |
| `ctx`, `link` | `ClientConn.ctx`, and whether the transport still works |
| `asked`, `serves`, `sentTo`, `written` | the broker |

`last` and `dropped` are history variables. A request is named by who makes it
and for what.

**Message** has one set per struct of package `message`: a message is a record
that has the fields of the struct, over all strings, numbers, lists and maps,
and `Nil` stands for a nil pointer. **ToProto** and **ToWire** have one operator
per conversion function; `Malformed` stands for an error. What can go wrong in a conversion - an
enumerator that is not known, an id that is not one, a union with nothing in
it, a duration that is no multiple of the protocol's unit, an unset time - is
what the values distinguish. **Codec** is a writer, a reader, and a peer that
is another implementation of the protocol (`ForeignWrite`): its messages lack
fields or carry values this library does not know, up to a kind of message it
does not know. A data point group that this library writes has an ID or an
alias: Write takes one without, and Read of it fails at the peer
(`convert/wire_to_proto.go:1062`, `convert/proto_to_wire.go:1027`).

**Reconnect**:

| Model | Code |
|---|---|
| `status`, `cancelled`, `limit`, `doneCh` | the status with its own lock, `ctx`, `maxReconnectAttempts`, `initialConnectDoneCh` |
| `transport`, `mu`, `link` | `Transport.transport`, the loop that holds `mu` while it dials, and what has become of each transport |
| `at`, `held`, `attempts` | `initialConnect`, `readLoop`, `writeLoop`: where each stands, the transport in its local variable, its attempts |
| `queue`, `inHand`, `call`, `answer` | `writeReqCh`, `writeLoop`'s request, the callers of `writeReqRes`, `writeResCh` |
| `inbox`, `readClosed`, `ping`, `closer` | `readResCh`, `pingLoop`, callers of `CloseWithStatus` |

**Multi** and **Selectors**: `map` is `transportMap`, from which a transport's
reader removes it; the `sync.RWMutex` is not a variable, since who holds it and
who waits for it shows in `loop`, `pc`, `monitor` and `closer` (`RLockFree`,
`LockFree`; a waiting Lock keeps new readers out). An operator of Selectors is
the set of the choices the code may make, as Go walks a map in any order. The
inner transports are abstract: connected and reconnecting by turns until
disconnected for good, which is what Reconnect does, with one exception: an
`initialConnect` overtaken by a Close may announce Connected after it
(`DisconnectedIsFinal`, below). Multi closes its transports after it has
cancelled its own context, so that only a Write after that Close could tell.

**Quic**: the callers of `Write` under `sendMu`, a header and a body on the
stream, the stream's reader; the callers of `datagram.Write`, which cut a
message into segments; a net that loses and reorders them; `ReadBuffer` with
`add`, `build` and `RemoveExpired`, and the datagrams' reader.

## 3. What is checked

| Run | Instance | Shows |
|---|---|---|
| `conn_safety` | 5 sessions, 2 senders, 1 caller, 2 closers | `OneLiveSession`, `SendersHeldBack`, `NoSessionLeak`, `ClosedIsFinal`, and that Conn implements ConnPromise (`KeepsPromise`) |
| `conn_liveness` | 3 sessions, 1 sender, 1 closer | `Terminates` (Close returns, the loop ends), `LostSessionReplaced`, `SendComesBack` |
| `upstream_safety` | 3 sessions, 1 closer, both QoS, 1 chunk | `UnackedKept`, `OneTearDown`, `AckNeverBlocks`, and that Upstream implements UpstreamPromise (`KeepsStreamPromise`) |
| `upstream_liveness` | 2 sessions, no closer, 1 chunk | `DeliveredWhenStable`, `DeadStreamIsClosed` |
| `upstream_close` | 1 session, 1 closer, 1 chunk | `CloseReturns`, `DrainWakes` |
| `downstream` | 2 sessions, 1 closer, 1 chunk, one data ID | `AliasesResolve`, `FlushedClosedOnce`, `FinalFlush`, `Terminates`, `ResultsSentWhenStable` |
| `wire` | 1 stream, up or down; channels of one place | `StreamsComplete`, `NobodyHeldUp`, `RequestsReturn`, `SessionEnds` |
| `codec` | every kind of message with its optional fields, unions and enumerators | `WrittenIsUnderstood`, `NothingMalformedIsDelivered` |
| `reconnect` | 2 transports, 1 writer, 1 closer, one attempt or any number | `OneTransport`, `NoTransportLeak`, `StaysClosed`, `WorkingTransportKept`, `Terminates`, `WritesAnswered` |
| `multi` | 2 transports, 2 interfaces, 2 writers, six selectors | `WriteTargetExists`, `Balanced`, `ShutdownJustified`, `EndsWhenWritesReturn`, `SchedulerFollowsNIC` |
| `quic` | 2 framed messages, or 2 datagrams of 3 and 2 segments | `MessagesIntact`, `ReadersEnd` |
| `multi_reentrance` | 2 transports, 2 writers, byte-balanced | a counterexample to `NoReentranceDeadlock` |

**Bounds.**

* *Conn.* Nothing counts up; it is finite as it stands. A session is a pointer:
  a dial returns any identity no variable refers to, so a few identities stand
  for any number of sessions in a row. `conn_safety` has five: `wireConn`, the
  one being dialled, and one old session for each of the three users, so that a
  dial never lacks an identity.
* *Upstream.* The only bound is `MaxSeq`, the last sequence number, which is
  the code's own bound (`validateState`) with a smaller value: what the code
  does at the end of the numbers is part of the model. With one chunk all its
  fates are explored - sent late with an old alias, lost, acknowledged twice,
  late or after its waiter has left, resent again in every run, cleared. Three
  sessions are needed for a chunk built for one session, sent on a second one
  while the connection has a third. What several chunks do to each other (order
  of acks, a list of several in the resend) is covered by the proofs, which
  have no bound, for the properties of `upstream_safety`; for the liveness
  properties one chunk is the bound. `upstream_close` has one session because a
  session that is lost for ever is the hard case for a drain.
* *Downstream.* `MaxAlias` bounds the chunks that name their upstream in full
  (a guard of `Deliver`, the broker's step; the code has no bound), since each
  of them is given a new alias. Data IDs need no bound: an ID is given an alias
  once. `downstream` therefore checks data IDs only; upstream aliases differ
  from them in one conjunct (`NeedsAlias`). The invariants were also checked
  with two chunks, and with both kinds of names and two closers (6.4 million
  states), and are proved without a bound. The run starts on the first of two
  interchangeable sessions (`FromFirst`).
* *Wire.* One stream, which is an upstream or a downstream; two items sent to
  it, over channels of one place, so that every channel is full in some state
  and one item is dropped. The streams meet only in the dispatcher, which the
  single stream shares with the keep-alive, with calls and disconnects.
* *Codec.* A conversion looks at one message: one instance of every kind, with
  each optional field there and not, each enumerator, each union's branches,
  lists of none and of several. `Milli` and `Second` are 2 and 4 units, so that
  durations that are no multiple of them occur. `Width` is 32, so that the
  least and the greatest of the signed numbers occur. The proofs are for every
  message there is, and for any of these units and widths.
* *Reconnect.* `MaxTransports` is 2, of which the last one does not fail:
  an old, broken transport next to a new, working one, with each loop holding
  the one or the other. `InboxSize` is 1, so that `readResCh` is full.
* *Multi.* Two transports, one that is fast with or without room in its window,
  one that is slow. Several writers only for the byte-balanced selector, whose
  choice depends on what the others have counted; none for the scheduler, which
  chooses as the polled selector does (`Callers`). `MaxBytes` bounds how far
  the counters may drift apart, above what `Balanced` permits. Two changes of
  interface, over channels of one place; `nicChangeEventCh` (8) is not filled.
* *Quic.* `MaxPayload` 2 gives a message with an empty last segment, which the
  code sends; `MaxUint16` is 3, so that the last legal segment index is
  reached. The application uses the stream or datagrams: the two directions
  share nothing but the connection.

**Fairness.** Goroutines keep running: their steps are weakly fair. A goroutine
that waits for a mutex gets it if it is free again and again (strong fairness;
Go's mutexes do not starve a waiter) - in Conn, and for the ack delivery of
Upstream, which needs `receivedAck.L`. In Conn and in Reconnect a dial that is
tried again and again succeeds one day (strong fairness of `DialOK`). Nothing
is assumed of the network, of the application, of a transport Write that
blocks, or of a call's ack. In Upstream the broker answers or the session is
lost; nothing is assumed of the writers, of the flush ticker, of `AckTimeout`
(0, no timeout, is the default), or of the connection. The timers of a drain
are assumed only by the properties that name them (`TimersFire`). In Downstream
the ticker of `flushAckLoop` is fair - it is the code's own, of 100 ms - and so
is the end of the loop next to it, since a `select` chooses among its ready
cases at random; nothing is assumed of readers, of the broker's chunks or of
`closeTimeout`. In Wire the timer of the handshake and that of a ping fire, and
a context that is cancelled is noticed; the broker need not answer anything and
the application need not take anything. In Multi nothing says that an inner
transport reconnects, and Close is claimed to return only while Writes do. In
Quic only the two readers are fair: who does not read may stop them at a full
channel, which `ReadersEnd` says.

Three properties have a hypothesis without which they do not hold:
`SendComesBack`, `DeliveredWhenStable` and `ResultsSentWhenStable` ask for a
network that stops losing sessions, or a stream that runs on a session that
lives. `WritesAnswered` is about a transport with an unlimited number of
attempts: with a limit, `writeLoop` leaves after its last attempt without
cancelling anything (`reconnect/transport.go:484-491`) and a later Write waits
for its own context. It says *answered*, not *succeeds*: a loop that finds the
transport already reconnected returns with the status still Reconnecting
(`reconnect/transport.go:727-736`), and the Writes that look at the status
first fail until the next reconnection.

**Deadlock** is not checked in the runs other than Conn's: a stream, session or
transport that has been closed really stops.

### Known divergences

The run `multi_reentrance` is a counterexample to what
`byte_balanced_selector_distribution_test.go:33-35` says is avoided: `Write`
holds `transportMapMu.RLock` while the selector takes it again
(`multi/transport.go:412`), and a `Lock` that arrives between the two, by the
reader of a transport that is gone, waits for the first while the second waits
for it.

The modules state six more things that a comment, test or changelog of the
repository says and the code does not do. They are not among the runs, whose
number is kept to one per question about the system as it is; each is found
violated within seconds when it is added to a copy of the named cfg:

| Property | How to see it | What happens |
|---|---|---|
| `HealthySessionKept` (Conn) | PROPERTY, `conn_liveness.cfg` | `send` retries by storing Reconnecting without looking whether the session that failed is still the current one (`conn.go:649`), and so tears down a session that has just been established, against `conn.go:638` |
| `Terminates` (Conn) with a caller | `Callers = {e1}` in `conn_liveness.cfg` | `Conn.call` writes with `wireConnMu` held (`e2e.go:199`); `Close` waits for it without bound, against the argument in `conn.go:772-780` and `CHANGELOG.md:23` |
| `SecondCloseRefused` (Upstream) | PROPERTY, `upstream_safety.cfg` without SYMMETRY, `Closers = {c1, c2}`, two sessions | `run` and `resume` overwrite Draining (`upstream.go:444`, `905`), so that a second `Close` is not refused, against `CHANGELOG.md:21` |
| `GoroutineEnds` (Upstream) | PROPERTY, `upstream_close.cfg` without closers | the stream's goroutine waits for Connected and not for Connected or Closed (`conn.go:408`), so it survives a connection closed while it reconnects, which the test at `upstream_test.go:111` (goleak) does not meet |
| `OneUpstreamAlias` (Downstream) | INVARIANT, `downstream.cfg`, `Kinds = {"upstream"}`, `MaxAlias = 2` | `assignUpstreamInfoAlias` looks for "already assigned" by comparing a pointer that decoding has just made (`downstream.go:537`), so an upstream named in full twice is given two aliases |
| `DisconnectedIsFinal` (Reconnect) | PROPERTY, `reconnect.cfg` | `initialConnect` stores Connected after it has released `mu` (`reconnect/transport.go:314`): a `CloseWithStatus` in between returns, and the status is Connected afterwards, against `reconnect/transport_test.go:325` |

## 4. What is proved

The proof modules prove, for every value of the constants that satisfies the
named assumption of the module they are about - `ConnAssumption` and
`UpstreamAssumption` (the actors are distinct; there is at least one sequence
number; the QoS is one of the two modelled), `DownstreamAssumption` (the chunks
under way are finitely many, there is at least one alias, the kinds of names
are the two of the protocol), `ReconnectAssumption` (there is a transport, the
queue has a place, a limit of attempts is a number other than 0, the writers
have names other than those of the two internal requesters and of no request), `MultiAssumption` (the transports are
listed in an order, the writers are finitely many, sizes are numbers), `WireAssumption`
(the keep-alive is no stream, `Nil` is no message, the channels have a place),
`QuicAssumption` (the messages on the way as datagrams are finitely many, a
datagram has room for a byte, channels have a place, no message is `Nil` or an
error), `ConvertAssumption` (a second is a whole number of milliseconds, numbers
have an even width), `MalformedAssumption` (an error is no message and no part
of one) and `MessagesAssumption` (what is written is a message of package
`message`):

| Theorem | Statement |
|---|---|
| `ConnInvariant`, `ConnTypes` | the inductive invariant, type correctness |
| `ConnOneLiveSession`, `ConnSendersHeldBack`, `ConnNoSessionLeak`, `ConnLoopOutlives`, `ConnClosedIsFinal` | the safety properties of `conn_safety` |
| `ConnKeepsPromise` | Conn implements ConnPromise |
| `UpstreamInvariant`, `UpstreamTypes` | the inductive invariant, type correctness |
| `UpstreamKeepsUnacked`, `UpstreamAckNeverBlocks`, `UpstreamOneTearDown` | the safety properties of `upstream_safety` |
| `UpstreamKeepsPromise` | Upstream implements UpstreamPromise |
| `UpstreamNoLostWakeup` | the safety part of `DrainWakes`: a closer sleeps only while something that will wake it is still to come |
| `DownstreamInvariant`, `DownstreamTypes` | the inductive invariant, type correctness |
| `DownstreamAliasesResolve`, `DownstreamFlushedClosedOnce`, `DownstreamFinalFlush` | the safety properties of `downstream` |
| `ReconnectInvariant`, `ReconnectTypes` | the inductive invariant, type correctness |
| `ReconnectOneTransport`, `ReconnectNoTransportLeak`, `ReconnectStaysClosed`, `ReconnectWorkingTransportKept` | the safety properties of `reconnect` |
| `ReconnectNoRequestLost` | the safety part of `WritesAnswered`: an unanswered request is in the queue or in the hand of a loop that goes on |
| `MultiInvariant` | the inductive invariant |
| `MultiWriteTargetExists`, `MultiShutdownJustified`, `MultiBalanced` | the safety properties of `multi` |
| `MultiSchedulerSettled` | the safety part of `SchedulerFollowsNIC`: with no event on its way the scheduler has caught up |
| `WireInvariant` | the inductive invariant |
| `WireStreamsComplete` | the safety property of `wire` |
| `QuicInvariant` | the inductive invariant |
| `QuicMessagesIntact` | the safety property of `quic` |
| `CodecUnderstood`, `CodecNothingMalformed` | the safety properties of `codec` |

*Conn.* None of the safety properties is inductive: that only one session is
alive depends on where the loop stands. The invariant says which sessions may
be alive at each of its steps (after `CloseOld` none is, after `DialOK` only
`res`), that the loop is past `ReconnectBegin` only while the state is not
Connected, who holds `wireConnMu` and that he stands in a critical section, and
that a closer past its lock has left Closed and a closed session behind, or a
loop that will find out. The refinement then maps each step to one step of
ConnPromise or to a stutter: an `Install` is `SwapAssign`, an `End` is whatever
closes `wireConn`.

*Upstream.* `AckNeverBlocks` needs to know of both kinds of channels at once
that a registered one is empty, and of numbers not yet issued that nothing of
theirs is left. `UnackedKept` needs that the broker acknowledges only what it
has received, that `sentBuf` and the resend list hold only numbers issued, and
that the step that forgets chunks wholesale is taken only by a stream that is
not reliable. `OneTearDown` needs that a CloseRequest on its way, a closed
stream and a goroutine that waits for the broker's answer go together, and that
at most one goroutine waits. The refinement maps a flush to `Issue`, a send
that goes through to `Receive`, an ack that is applied to `Forget`, the three
ways into `closeWithError` to `Ask`, `Answer` and `End`, and everything else to
a stutter. For that the invariant has to account for chunks in flight
(`FlightInv`): whatever a goroutine of `flush` or the resend still has to send
has been issued, and so, by `UnackedKept`, is in the `sentBuf` of a reliable
stream or has been received already. A late send after a tear-down, a resume or
an ack is therefore still a promised one. `NoLostWakeup` rests on `receivedAck.L`:
the ack loop can take the last chunk from `sentBuf` between a closer's look and
its `Wait`, but it can not broadcast before the closer sleeps.

*Downstream.* `AliasesResolve` needs that an alias is in the table wherever it
may be found: carried by a chunk, with a reader that has not announced it, in
the ack buffers, in the ack being written, known to the broker; and, so that
the table stays within its type, that the aliases given and those still to be
given do not exceed `MaxAlias`. `FlushedClosedOnce` follows from the flusher's
place, `flushed` being true only of a loop that has ended. `FinalFlush` needs
that a stream that is Connected and not cancelled has a watcher, a flusher in
its loop and nobody who has stopped it, so that the last take of the buffers is
still to come when a closer begins to drain; that what is owed to a closer is
then in the buffers or in the ack being written; and that after the last take
it is not in the buffers.

*Reconnect.* The invariant says that `mu` is held exactly by the loop that
dials; that before `initialConnect` has installed its transport there is none,
and no loop stands where it would need one; that the transports not closed are
the one in use and the one `initialConnect` has dialled and not installed, and
none while a loop dials; and that a closer that has been through `mu` has left
it free, with nothing open and nothing in the middle of a reconnection.
`StaysClosed` (which leaves `initialConnect` its late announcement, see *Known
divergences*) and `WorkingTransportKept` are about steps and follow from it by
cases over the actions. `NoRequestLost` needs in addition (`HandInv`) that the
write loop takes a request only with empty hands, and leaves with one only when
the transport is closed. With a limit of attempts the loop may leave requests
in the queue, which wait for the Close: `WritesAnswered` is about an unlimited
number.

*Multi.* `WriteTargetExists` needs only the lock: a reader deletes its
transport while nobody writes. `ShutdownJustified` needs that what the monitor
has seen stays true. `Balanced` is not inductive: the counters are changed after
the choice, when others have been counted in between. The invariant `BalanceInv`
counts the callers that have chosen a transport and are not counted yet
(`Pending`): a transport may be ahead of any other by one write of each of the
*other* callers (`Ahead`). A choice sets the transport's debt to none, since it
is then behind nobody; a count takes one caller off `Pending`. The proof uses
that a non-empty set of numbers has a least element, from the well-foundedness
of the numbers. `SchedulerSettled` follows from `NicInv`: the last event the
manager has sent is the last one on its way, or the one the scheduler goes by.

*Wire.* What is sent to a stream is on the transport, with the dispatcher, in
the queue of its kind, in the stream's channel, with its reader or dropped; the
first four are the sets of `Coming`. The invariant has three parts. `FlowInv`
says of each stream that the items in each of these places are in order, that
those further on are smaller (`Chain`), that all lie between the last one the
reader took and the last one sent (`Between`), and that none is missing
(`Complete`). It holds because each step moves the first item of one place to
the end of the next. That an item is not thrown away for want of a channel in
the table needs `TableInv` and `BrokerInv`: a downstream is in the table before
it asks to be opened; an upstream is in it before it sends its first chunk, and
the broker acknowledges only what was sent. And a stream that has not asked yet
has been sent nothing, so that nothing can be missing when it does. The proof
is for any number of streams and any capacity of the channels, where the run
has one stream and one place: that the dispatcher the streams share does not mix
them is in the proof only.

*Quic.* The two halves share only the connection. On the stream, `WriterInv`
says that at most one writer stands between its length and its body, which is
what `sendMu` is for; `StreamInv` that what is on the stream continues, length
and body by turns, where the reader is (`Laid`, `Taken`), except that the last
writer may still owe a body; `ReadInv` that what was given is a prefix of the
messages in the order of their lengths, with an error only at its end. Of the
datagrams, `NumberInv` says that the sequence numbers taken are as many as the
messages that took one, and that no two have the same; `NetInv` that a segment
on its way is one of the message that owns its number; `BufferInv` that a buffer
holds segments of that one message, each in its place, as many as it has
counted, and at least one short; `OutInv` that of a message that came out
nothing is left to put it together a second time. The last is why no message
comes twice: a buffer that expires may be begun again, but never after its
message was built. Numbers do not wrap in the model (the code's are 32 bits),
and the net does not duplicate, as QUIC does not.

*Codec.* That every message comes back as it was written is a fact about two
functions, `ToWire` after `ToProto`, and the lemma `Understood` states it for
every message for which Write makes no error. It is put together from one lemma
per conversion (`CodeThere`, `DataIDsThere`, `GroupThere`, `ChunkThere`, ...)
and one per kind of message; a conversion that drops, swaps or rescales a field
in one direction makes one of these false. Two of them are arithmetic:
`IntervalThere`, that a duration comes back rounded down to the unit, and
`SignedThere`, that a signed number survives the unsigned field. What is read is
the message up to `AtPeer`: durations in the protocol's units, an unset time as
the epoch, `NormalClosure` as `Succeeded`. `CodecUnderstood` then needs an
invariant about the time before Read: what is on the transport is what `ToProto`
has made of the message (`UnderstoodInv`). `NothingMalformedIsDelivered` is
inductive, because of a lemma about *any* protobuf message, well formed or not:
what `ProtoToWire` accepts of it is well formed (`ReadIsWellFormed`).

Liveness under fairness is checked by TLC only (`conn_liveness`,
`upstream_liveness`, `upstream_close`, `Terminates` and `ResultsSentWhenStable`
of `downstream`, `NobodyHeldUp`, `RequestsReturn` and `SessionEnds` of `wire`,
`Terminates` and `WritesAnswered` of `reconnect`, `EndsWhenWritesReturn` and
`SchedulerFollowsNIC` of `multi`, `ReadersEnd` of `quic`): the prover has no
rule for ENABLED. Of three of them the safety part is a theorem, an invariant
no run lists: `NoLostWakeup`, `NoRequestLost` and `SchedulerSettled` (each was
checked by TLC on the instance of its run first). Every other property of a
passing run is a theorem. The
agreement of Selectors with what Multi needs of them beyond the byte-balanced
one is checked only.

## 5. What is not modelled

* *Streams:* payloads, data ID aliases, totals and hooks of an upstream: no
  modelled property depends on them. `WriteDataPoints` is `WriteTaken`; a
  `Flush` by the application does what `FlushTick` does, and only `Close`'s is
  followed through its two channels. Of a downstream: metadata, the completion
  of acks (`ackCompCh`, which only wakes a hook), events, and data IDs given to
  `OpenDownstream` in advance, an initial table of aliases the broker knows.
  The stream may miss a short Reconnecting and stay on a dead session; the
  model has this, and `DeliveredWhenStable` does not claim otherwise. One
  stream at a time: streams meet only in the connection, in the dispatcher of
  Wire, and in the alias space of the broker.
* *Wire:* the loop of the unreliable transport and the tables of ack
  completions and metadata, which work as that of chunks. A ping's Write, which
  its timeout does not cover, blocks no more than any other Write.
* *Codec:* protobuf and JSON marshalling, compression, sizes and counters
  (library calls, or numbers no property looks at); the QoS enumerator of an
  absent field is the library's default. Of package `message` the
  structs only, not their methods.
* *Reconnect:* RTT measurement, the bytes of pings and pongs, counters, a
  transport that is no Closer, `AsUnreliable`. The read timeout is one of the
  ways in which Read fails.
* *Multi:* the value of `OverallStatus` beyond Disconnected, statistics, the
  queue of `Read` (a reader that waits there is one that goes on reading),
  `AsUnreliable`, the manager's `Close`.
* *E2E tables, event dispatcher, stream repository, retry's back-off:* a map
  each, a queue behind a condition variable, and arithmetic on durations. The
  locking of a call is part of Conn (the *Callers*), and the retry loop of
  `reconnect` too.
* *Negotiation, WebSocket, WebTransport, metrics, compression, errors,
  logging:* I/O over libraries, configuration and data types; what they
  promise is the `link` of Wire and the inner transports of Reconnect.
  WebTransport has the same structure as the QUIC transport.

## 6. Plan

1. The E2E tables with the dispatcher of Wire: entries of abandoned calls, the
   reply queues at their capacity.
2. The event dispatcher across reconnections: each session's loop starts
   another dispatch loop (`conn.go:152`) on the one dispatcher.
3. Proofs: an abstract downstream (delivered, read, acknowledged), as
   UpstreamPromise is for Upstream.
4. Composition: Reconnect as the inner transport of Multi.
