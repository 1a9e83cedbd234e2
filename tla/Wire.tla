-------------------------------- MODULE Wire --------------------------------
(***************************************************************************)
(* One session with the broker: wire.ClientConn (wire/client_conn.go), from*)
(* the handshake to the end of its goroutines.  A reader takes messages    *)
(* off the transport and a dispatcher puts each of them into the queue of  *)
(* its kind; a loop per kind takes them from there to the request that     *)
(* waits for a reply or to the channel of a stream.  Only the reader and   *)
(* the dispatcher are shared, so that whoever holds them up holds up       *)
(* everybody, the keep-alive included.                                     *)
(*                                                                         *)
(* The broker is the environment: it answers when it likes or not at all,  *)
(* and it sends to every stream it has opened.  Request ids are not        *)
(* modelled: a request is named by who makes it and what it asks, which is *)
(* as unique as the id is for the first 2^31 requests of a session.        *)
(***************************************************************************)
EXTENDS Integers, Sequences, FiniteSets, SequencesExt

CONSTANTS
  Streams,      \* the streams of the application
  KeepAlive,    \* keepAliveLoop
  MaxItems,     \* bound: acks or chunks sent to one stream
  InboxSize,    \* bound: messages on the transport
  QueueSize,    \* capacity of the channel of a kind (8 in the code)
  ChanSize,     \* capacity of the channel of a stream (1024 in the code)
  Nil

Askers == Streams \cup {KeepAlive}

\* The loops behind the dispatcher, one for each kind of message.
Kinds == {"request", "ping", "disconnect", "ack", "chunk", "call"}

\* A message: its kind, the stream or the request it belongs to, its number.
Messages == [kind : Kinds \cup {"connect"}, of : Askers \cup {Nil},
             what : {"open", "close", "ping", Nil}, item : Nat]

Msg(k, a, w, n) == [kind |-> k, of |-> a, what |-> w, item |-> n]

ASSUME WireAssumption ==
  /\ KeepAlive \notin Streams
  /\ Nil \notin Messages
  /\ {MaxItems, InboxSize, QueueSize, ChanSize} \subseteq Nat \ {0}

VARIABLES
  ups,       \* the streams that are upstreams; the others are downstreams
  phase,     \* Connect: "dialled", "asked", "answered", "running" or "failed"
  link,      \* the transport: "up" or "gone"
  ctx,       \* ClientConn.ctx: "open" or "cancelled"
  inbox,     \* messages on the transport
  reader,    \* the goroutine in transport.Read: "running" or "ended"
  disp,      \* the message the dispatcher is putting into a queue, or Nil
  queue,     \* the channels msg...Ch, by kind
  replyTo,   \* the keys of replyCh: requests that wait for a reply
  reply,     \* the reply channels that hold a reply
  pc,        \* what an asker does
  chan,      \* the channels of the streams: items, oldest first
  table,     \* the streams whose channel is registered
  asked,     \* broker: requests that are not answered yet
  serves,    \* broker: the streams it has opened
  sentTo,    \* broker: the last item sent to a stream
  written,   \* broker: chunks received from an upstream
  last,      \* history: the last item a stream's reader has taken
  dropped    \* history: later items dropped because the channel was full

readVars   == <<inbox, reader, disp>>
askVars    == <<replyTo, reply, pc>>
streamVars == <<chan, table>>
brokerVars == <<asked, serves, sentTo, written>>
history    == <<last, dropped>>
vars == <<ups, phase, link, ctx, readVars, queue, askVars, streamVars, brokerVars, history>>

Item(s) == IF s \in ups THEN "ack" ELSE "chunk"

Init ==
  /\ ups \in SUBSET Streams
  /\ phase = "dialled"
  /\ link = "up"
  /\ ctx = "open"
  /\ inbox = <<>>
  /\ reader = "running"
  /\ disp = Nil
  /\ queue = [k \in Kinds |-> <<>>]
  /\ replyTo = {}
  /\ reply = {}
  /\ pc = [a \in Askers |-> "idle"]
  /\ chan = [s \in Streams |-> <<>>]
  /\ table = {}
  /\ asked = {}
  /\ serves = {}
  /\ sentTo = [s \in Streams |-> 0]
  /\ written = [s \in Streams |-> 0]
  /\ last = [s \in Streams |-> 0]
  /\ dropped = [s \in Streams |-> {}]

-----------------------------------------------------------------------------
(* The broker and the network.                                              *)

Room == link = "up" /\ Len(inbox) < InboxSize

\* A message is on the transport, with the dispatcher or in its queue.
OnItsWay(k, s, n) ==
  \E m \in ToSet(inbox) \cup ({disp} \ {Nil}) \cup ToSet(queue[k]) :
    m.kind = k /\ m.of = s /\ m.item = n

Arrives(m) == Room /\ inbox' = Append(inbox, m)

BrokerConnects ==
  /\ phase = "asked"
  /\ inbox = <<>>
  /\ Arrives(Msg("connect", Nil, Nil, 0))
  /\ UNCHANGED <<ups, phase, link, ctx, reader, disp, queue, askVars, streamVars, brokerVars, history>>

BrokerReplies(a, w) ==
  /\ <<a, w>> \in asked
  /\ Arrives(Msg("request", a, w, 0))
  /\ asked' = asked \ {<<a, w>>}
  /\ serves' = CASE w = "open" -> serves \cup {a}
                 [] w = "close" -> serves \ {a}
                 [] OTHER -> serves
  /\ UNCHANGED <<ups, phase, link, ctx, reader, disp, queue, askVars, streamVars, sentTo, written,
                 history>>

BrokerSends(s) ==
  /\ s \in serves
  /\ sentTo[s] < IF s \in ups THEN written[s] ELSE MaxItems
  /\ Arrives(Msg(Item(s), s, Nil, sentTo[s] + 1))
  /\ sentTo' = [sentTo EXCEPT ![s] = @ + 1]
  /\ UNCHANGED <<ups, phase, link, ctx, reader, disp, queue, askVars, streamVars, asked, serves,
                 written, history>>

\* Bound: one ping or notice of disconnection at a time, and no call behind it.
BrokerPings(k) ==
  /\ phase = "running"
  /\ ~\E j \in {"ping", "disconnect"} : OnItsWay(j, Nil, 0)
  /\ Arrives(Msg(k, Nil, Nil, 0))
  /\ UNCHANGED <<ups, phase, link, ctx, reader, disp, queue, askVars, streamVars, brokerVars, history>>

\* The transport goes, and the broker's session with it; so does the history.
Cut ==
  /\ link' = "gone"
  /\ asked' = {}
  /\ serves' = {}
  /\ sentTo' = [s \in Streams |-> 0]
  /\ written' = [s \in Streams |-> 0]
  /\ last' = [s \in Streams |-> 0]
  /\ dropped' = [s \in Streams |-> {}]

\* The transport breaks; what is still on it is lost, now or at the next Read.
Break ==
  /\ link = "up"
  /\ Cut
  /\ UNCHANGED <<ups, phase, ctx, readVars, queue, askVars, streamVars>>

-----------------------------------------------------------------------------
(* Connect: the request, the first message, and a watchdog that closes the  *)
(* transport when the answer is not there in time.  It may still fire when  *)
(* the answer has been read and it has not been stopped.  The answer is a   *)
(* refusal, another message or a version out of range, or it is accepted.   *)

ConnectWrite ==
  /\ phase = "dialled"
  /\ phase' = IF link = "up" THEN "asked" ELSE "failed"
  /\ UNCHANGED <<ups, link, ctx, readVars, queue, askVars, streamVars, brokerVars, history>>

ConnectRead ==
  /\ phase = "asked"
  /\ \/ inbox # <<>> /\ phase' \in {"answered", "failed"} /\ inbox' = Tail(inbox)
     \/ link = "gone" /\ phase' = "failed" /\ UNCHANGED inbox
  /\ UNCHANGED <<ups, link, ctx, reader, disp, queue, askVars, streamVars, brokerVars, history>>

Watchdog_Bug ==
  /\ phase = "answered"
  /\ Cut
  /\ UNCHANGED <<ups, phase, ctx, readVars, queue, askVars, streamVars>>

Watchdog ==
  /\ phase \in {"asked", "answered"}
  /\ Cut
  /\ UNCHANGED <<ups, phase, ctx, readVars, queue, askVars, streamVars>>

Run ==
  /\ phase = "answered"
  /\ phase' = "running"
  /\ UNCHANGED <<ups, link, ctx, readVars, queue, askVars, streamVars, brokerVars, history>>

Running == phase = "running"

Close ==
  /\ ctx' = "cancelled"
  /\ Cut

\* Conn closes a session it replaces or ends.
AppCloses ==
  /\ Running
  /\ ctx = "open"
  /\ Close
  /\ UNCHANGED <<ups, phase, readVars, queue, askVars, streamVars>>

-----------------------------------------------------------------------------
(* readReliableLoop: the reader, the dispatcher and the end of both.        *)

\* The reader hands its message over, or drops it because the session is
\* closed, and then ends.
ReadMessage ==
  /\ Running
  /\ reader = "running"
  /\ disp = Nil
  /\ inbox # <<>>
  /\ inbox' = Tail(inbox)
  /\ \/ disp' = Head(inbox) /\ UNCHANGED reader
     \/ ctx = "cancelled" /\ reader' = "ended" /\ UNCHANGED disp
  /\ UNCHANGED <<ups, phase, link, ctx, queue, askVars, streamVars, brokerVars, history>>

ReadFails ==
  /\ Running
  /\ reader = "running"
  /\ disp = Nil
  /\ link = "gone"
  /\ reader' = "ended"
  /\ inbox' = <<>>
  /\ UNCHANGED <<ups, phase, link, ctx, disp, queue, askVars, streamVars, brokerVars, history>>

Dispatch ==
  /\ disp # Nil
  /\ \/ Len(queue[disp.kind]) < QueueSize
        /\ queue' = [queue EXCEPT ![disp.kind] = Append(@, disp)]
     \/ disp.kind = "call" /\ ctx = "cancelled" /\ UNCHANGED queue
  /\ disp' = Nil
  /\ UNCHANGED <<ups, phase, link, ctx, inbox, reader, askVars, streamVars, brokerVars, history>>

\* The dispatcher ends with the reader, and closes the queues as it does; the
\* loop behind a queue ends when there is nothing more in it.
QueuesClosed == reader = "ended" /\ disp = Nil

LoopEnded(k) == QueuesClosed /\ queue[k] = <<>>

Pops(k) ==
  /\ queue[k] # <<>>
  /\ queue' = [queue EXCEPT ![k] = Tail(@)]
  /\ UNCHANGED <<ups, phase, ctx, readVars>>

\* readRequestLoop: the reply goes to the request that waits for it, if any.
TakeReply ==
  /\ Pops("request")
  /\ LET r == <<Head(queue["request"]).of, Head(queue["request"]).what>> IN
       /\ reply' = IF r \in replyTo THEN reply \cup {r} ELSE reply
       /\ replyTo' = replyTo \ {r}
  /\ UNCHANGED <<link, pc, streamVars, brokerVars, history>>

\* readPingLoop writes a pong, and goes on when it can not.
TakePing ==
  /\ Pops("ping")
  /\ UNCHANGED <<link, askVars, streamVars, brokerVars, history>>

TakeDisconnect ==
  /\ Pops("disconnect")
  /\ Cut
  /\ UNCHANGED <<askVars, streamVars>>

\* The caller of ReceiveDownstreamCall and ReceiveUpstreamCallAck is a loop of
\* Conn that drops what it has no room for.  It may leave once the session is
\* cancelled, whatever is in the queue.
TakeCall ==
  /\ Pops("call")
  /\ UNCHANGED <<link, askVars, streamVars, brokerVars, history>>

\* The history of a stream is kept while the stream and the session live.
Remembered(s) == link = "up" /\ pc[s] \notin {"closed", "failed"}

\* readUpstreamChunkAckLoop, readDownstreamChunkLoop and the loops like them:
\* an item goes into the channel of its stream, or is dropped.
TakeItem_BugBlocks(k) ==
  /\ Pops(k)
  /\ LET m == Head(queue[k])
         s == m.of
     IN  /\ s \in table => Len(chan[s]) < ChanSize
         /\ chan' = IF s \in table THEN [chan EXCEPT ![s] = Append(@, m.item)] ELSE chan
         /\ UNCHANGED dropped
  /\ UNCHANGED <<link, askVars, table, brokerVars, last>>

TakeItem(k) ==
  /\ Pops(k)
  /\ LET m == Head(queue[k])
         s == m.of
         full == s \in table /\ Len(chan[s]) = ChanSize
     IN  /\ chan' = IF s \in table /\ ~full THEN [chan EXCEPT ![s] = Append(@, m.item)] ELSE chan
         /\ dropped' = IF full /\ Remembered(s) THEN [dropped EXCEPT ![s] = @ \cup {m.item}] ELSE dropped
  /\ UNCHANGED <<link, askVars, table, brokerVars, last>>

-----------------------------------------------------------------------------
(* sendRequest: register, write, wait.                                      *)

\* A Write that fails leaves the entry in replyCh, as every way out but the
\* reply does.
Ask(a, w, waiting, failed) ==
  /\ Running
  /\ replyTo' = replyTo \cup {<<a, w>>}
  /\ asked' = IF link = "up" THEN asked \cup {<<a, w>>} ELSE asked
  /\ pc' = [pc EXCEPT ![a] = IF link = "up" THEN waiting ELSE failed]
  /\ UNCHANGED <<ups, phase, readVars, queue, reply, serves, sentTo, written, history>>

Answered(a, w) == <<a, w>> \in reply

Moves(a, to) ==
  /\ pc' = [pc EXCEPT ![a] = to]
  /\ IF to \in {"closed", "failed"}
       THEN last' = [last EXCEPT ![a] = 0] /\ dropped' = [dropped EXCEPT ![a] = {}]
       ELSE UNCHANGED history
  /\ UNCHANGED <<ups, phase, readVars, queue, replyTo, brokerVars>>

\* keepAliveLoop and sendPing.
Ping ==
  /\ pc[KeepAlive] = "idle"
  /\ Ask(KeepAlive, "ping", "waiting", "lost")
  /\ UNCHANGED <<link, ctx, streamVars>>

Pong ==
  /\ pc[KeepAlive] = "waiting"
  /\ Answered(KeepAlive, "ping")
  /\ reply' = reply \ {<<KeepAlive, "ping">>}
  /\ Moves(KeepAlive, "idle")
  /\ UNCHANGED <<link, ctx, streamVars>>

\* The pong is not there in time, or its wait is cancelled.
PingTimeout ==
  /\ pc[KeepAlive] = "waiting"
  /\ Moves(KeepAlive, "lost")
  /\ UNCHANGED <<link, ctx, reply, streamVars>>

KeepAliveEnds_Bug ==
  /\ Running
  /\ \/ pc[KeepAlive] = "lost" /\ Cut /\ UNCHANGED ctx
     \/ pc[KeepAlive] = "idle" /\ ctx = "cancelled" /\ UNCHANGED <<ctx, link, brokerVars, history>>
  /\ pc' = [pc EXCEPT ![KeepAlive] = "ended"]
  /\ UNCHANGED <<ups, phase, readVars, queue, replyTo, reply, streamVars>>

KeepAliveEnds ==
  /\ Running
  /\ \/ pc[KeepAlive] = "lost" /\ Close
     \/ pc[KeepAlive] = "idle" /\ ctx = "cancelled" /\ UNCHANGED <<ctx, link, brokerVars, history>>
  /\ pc' = [pc EXCEPT ![KeepAlive] = "ended"]
  /\ UNCHANGED <<ups, phase, readVars, queue, replyTo, reply, streamVars>>

\* A downstream subscribes before it asks: OpenDownstream picks the alias.
Subscribe_BugForgotten(s) ==
  /\ Running
  /\ s \notin ups
  /\ pc[s] = "idle"
  /\ UNCHANGED table
  /\ Moves(s, "subscribed")
  /\ UNCHANGED <<link, ctx, reply, chan>>

Subscribe(s) ==
  /\ Running
  /\ s \notin ups
  /\ pc[s] = "idle"
  /\ table' = table \cup {s}
  /\ Moves(s, "subscribed")
  /\ UNCHANGED <<link, ctx, reply, chan>>

Open(s) ==
  /\ pc[s] = IF s \in ups THEN "idle" ELSE "subscribed"
  /\ Ask(s, "open", "opening", "failed")
  /\ UNCHANGED <<link, ctx, streamVars>>

\* openUpstream registers the ack channel under the alias the broker chose,
\* so after the reply; until then the stream sends nothing to be acknowledged.
OpenReplied(s) ==
  /\ pc[s] = "opening"
  /\ Answered(s, "open")
  /\ reply' = reply \ {<<s, "open">>}
  /\ Moves(s, IF s \in ups THEN "opened" ELSE "open")
  /\ UNCHANGED <<link, ctx, streamVars>>

Register(s) ==
  /\ pc[s] = "opened"
  /\ table' = table \cup {s}
  /\ Moves(s, "open")
  /\ UNCHANGED <<link, ctx, reply, chan>>

SendChunk(u) ==
  /\ pc[u] = "open"
  /\ u \in table
  /\ link = "up"
  /\ written[u] < MaxItems
  /\ written' = [written EXCEPT ![u] = @ + 1]
  /\ UNCHANGED <<ups, phase, link, ctx, readVars, queue, askVars, streamVars, asked, serves, sentTo,
                 history>>

CloseStream(s) ==
  /\ pc[s] = "open"
  /\ Ask(s, "close", "closing", "failed")
  /\ UNCHANGED <<link, ctx, streamVars>>

CloseReplied(s) ==
  /\ pc[s] = "closing"
  /\ Answered(s, "close")
  /\ reply' = reply \ {<<s, "close">>}
  /\ table' = table \ {s}
  /\ chan' = [chan EXCEPT ![s] = <<>>]
  /\ Moves(s, "closed")
  /\ UNCHANGED <<link, ctx>>

Waiting(s) == pc[s] \in {"opening", "closing"}

\* The context of the request or that of the session ends the wait.
GivesUp(s) ==
  /\ Waiting(s)
  /\ Moves(s, "failed")
  /\ UNCHANGED <<link, ctx, reply, streamVars>>

Released(s) == ctx = "cancelled" /\ GivesUp(s)

\* The reader of a stream takes what is in its channel, when it likes.
ReaderTakes(s) ==
  /\ chan[s] # <<>>
  /\ chan' = [chan EXCEPT ![s] = Tail(@)]
  /\ IF Remembered(s)
       THEN /\ last' = [last EXCEPT ![s] = Head(chan[s])]
            /\ dropped' = [dropped EXCEPT ![s] = {n \in @ : n > Head(chan[s])}]
       ELSE UNCHANGED history
  /\ UNCHANGED <<ups, phase, link, ctx, readVars, queue, askVars, table, brokerVars>>

-----------------------------------------------------------------------------
Asker(s) == Subscribe(s) \/ Open(s) \/ OpenReplied(s) \/ Register(s) \/ CloseStream(s) \/ CloseReplied(s)

Loop(k) ==
  \/ k = "request" /\ TakeReply
  \/ k = "ping" /\ TakePing
  \/ k = "disconnect" /\ TakeDisconnect
  \/ k \in {"ack", "chunk"} /\ TakeItem(k)

Connecting == ConnectWrite \/ ConnectRead \/ Run
Reading    == ReadMessage \/ ReadFails
Keeping    == Ping \/ Pong \/ PingTimeout \/ KeepAliveEnds

Environment ==
  \/ BrokerConnects \/ Break \/ AppCloses
  \/ \E a \in Askers, w \in {"open", "close", "ping"} : BrokerReplies(a, w)
  \/ \E s \in Streams : BrokerSends(s) \/ GivesUp(s) \/ ReaderTakes(s)
  \/ \E u \in ups : SendChunk(u)
  \/ \E k \in {"ping", "disconnect", "call"} : BrokerPings(k)

Next ==
  \/ Environment
  \/ Connecting
  \/ Watchdog
  \/ Reading
  \/ Dispatch
  \/ Keeping
  \/ \E k \in Kinds : Loop(k)
  \/ TakeCall
  \/ \E s \in Streams : Asker(s) \/ Released(s)

Spec == Init /\ [][Next]_vars

\* The goroutines of the session go on while they can; the watchdog and the
\* timeout of a ping come in the end; a context that is cancelled is noticed.
FairSpec ==
  /\ Spec
  /\ WF_vars(Connecting)
  /\ WF_vars(Watchdog /\ phase = "asked")
  /\ WF_vars(Reading)
  /\ WF_vars(Dispatch)
  /\ WF_vars(Keeping)
  /\ \A k \in Kinds : WF_vars(Loop(k))
  /\ WF_vars(TakeCall /\ ctx = "open")
  /\ \A s \in Streams : WF_vars(Released(s) \/ OpenReplied(s) \/ CloseReplied(s))

-----------------------------------------------------------------------------
(* Properties.                                                              *)

\* While the session lives, whatever the broker sends to a stream it has opened
\* is on its way, in the stream's channel, taken, or was dropped because the
\* channel was full; it never goes unseen because the channel was registered
\* too late.  And it is in the channel in the order it was sent in.
StreamsComplete ==
  /\ link = "up" => \A s \in Streams : pc[s] \in {"opening", "opened", "open"} =>
       \A n \in 1..sentTo[s] : 
         OnItsWay(Item(s), s, n) \/ Contains(chan[s], n) \/ n <= last[s] \/ n \in dropped[s]
  /\ \A s \in Streams : \A i \in DOMAIN chan[s] :
       /\ \A j \in 1..(i - 1) : chan[s][j] < chan[s][i]
       /\ last[s] < chan[s][i]

\* No stream holds up the others: though nobody reads its channel, and nobody
\* takes the calls of a session that is closed, the queue of the streams is
\* emptied and a message the dispatcher has is put into its queue.
NobodyHeldUp ==
  /\ disp # Nil ~> disp = Nil
  /\ \A s \in Streams : Len(queue[Item(s)]) = QueueSize ~> Len(queue[Item(s)]) < QueueSize

\* Connect comes back, from a broker that does not answer too; and a request
\* comes back once its session has lost the transport: the keep-alive notices,
\* though nothing but its next ping tells it.
RequestsReturn ==
  /\ phase = "asked" ~> phase # "asked"
  /\ \A s \in Streams : (Running /\ link = "gone" /\ Waiting(s)) ~> ~Waiting(s)

Ended ==
  /\ reader = "ended"
  /\ pc[KeepAlive] = "ended"
  /\ \A k \in Kinds \ {"call"} : LoopEnded(k)

\* A session that is closed, or has lost its transport, comes to an end: all of
\* its goroutines leave.
SessionEnds == Running /\ link = "gone" ~> Ended /\ ctx = "cancelled"

=============================================================================
