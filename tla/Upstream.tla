------------------------------ MODULE Upstream ------------------------------
(***************************************************************************)
(* The life of an iscp.Upstream (iscp/upstream.go, and its goroutine in    *)
(* iscp/conn.go): flushing data points into numbered chunks, keeping the   *)
(* chunks that are not acknowledged, resuming the stream on a new session  *)
(* of the connection and sending them again, draining, and closing.        *)
(*                                                                         *)
(* The connection is the abstract one of ConnPromise, which Conn is proved *)
(* to implement.  An alias is identified with the session that assigned    *)
(* it.  The broker acknowledges every chunk it receives, once more if it   *)
(* receives the chunk once more, in any order.                             *)
(***************************************************************************)
EXTENDS Naturals, FiniteSets

CONSTANTS
  Sessions,   (* identities of wire.ClientConn objects                     *)
  Closers,    (* callers of Upstream.Close                                 *)
  QoSes,      (* the QoS the stream may be opened with                     *)
  MaxSeq      (* the last sequence number; math.MaxUint32 in the code      *)

ASSUME UpstreamAssumption ==
  /\ MaxSeq \in Nat \ {0}
  /\ QoSes \subseteq {"Reliable", "Unreliable"}

SeqNums == 1..MaxSeq
Waiters == {"flush", "resend"}

VARIABLES
  phase,      (* the connection's state                                    *)
  current,    (* the session snapshotWireConn returns                      *)
  up,         (* that session has not ended                                *)
  qos,        (* Config.QoS                                                *)
  state,      (* Upstream.state                                            *)
  closed,     (* Upstream.ctx is cancelled                                 *)
  wireConn,   (* Upstream.wireConn                                         *)
  alias,      (* the session that assigned Upstream.idAlias                *)
  buffered,   (* sendBuffer is not empty                                   *)
  seq,        (* the last sequence number issued                           *)
  sent,       (* the keys of sentBuf                                       *)
  waiter,     (* upstreamChunkResultChs: whose channel is registered       *)
  full,       (* of each kind, the channels that hold a result             *)
  lastAcked,  (* maxSequenceNumberInReceivedUpstreamChunkResults = seq     *)
  toSend,     (* chunks, as built, that flush has handed to a goroutine    *)
  awaiting,   (* chunks whose goroutine waits for the ack                  *)
  rpc,        (* where the stream's goroutine stands                       *)
  watcher,    (* run's goroutine that waits for Reconnecting               *)
  flusher,    (* run's flushLoop                                           *)
  reader,     (* run's readAckLoop and readResultLoop                      *)
  resend,     (* run's goroutine that sends unacknowledged chunks again    *)
  cpc,        (* where each closer stands                                  *)
  requested,  (* Upstream.closeRequested                                   *)
  tearOn,     (* the session an unanswered CloseRequest went to            *)
  requests,   (* history: CloseRequests sent                               *)
  events,     (* history: OnUpstreamClosed events                          *)
  acks,       (* acks the broker has sent for this session's chunks        *)
  received    (* history: the chunks the broker has received               *)

netVars    == <<phase, current, up>>
bufVars    == <<buffered, seq, sent, waiter, full, lastAcked>>
runVars    == <<watcher, flusher, reader, resend>>
closeVars  == <<closed, requested, tearOn, requests, events>>
brokerVars == <<acks, received>>
linkVars   == <<qos, wireConn, alias>>
sendVars   == <<toSend, awaiting>>
vars == <<netVars, bufVars, runVars, closeVars, brokerVars, linkVars, sendVars,
          state, rpc, cpc>>

Net == INSTANCE ConnPromise

RunnerPC == {"run", "wait", "begin", "resume", "tear", "request", "done"}
FlusherPC == {"loop", "tear", "request", "lastTear", "lastRequest", "ended"}
CloserPC == {"idle", "rejected", "flush", "flushing", "check", "lock", "list",
             "size", "park", "waiting", "tear", "request", "done"}

LinkTypes ==
  /\ phase \in {"Connected", "Reconnecting", "Closed"}
  /\ current \in Sessions /\ wireConn \in Sessions /\ alias \in Sessions
  /\ up \in BOOLEAN
  /\ qos \in QoSes
  /\ state \in {"Connected", "Resuming", "Draining"}

BufferTypes ==
  /\ buffered \in BOOLEAN /\ lastAcked \in BOOLEAN
  /\ seq \in 0..MaxSeq
  /\ sent \subseteq SeqNums
  /\ waiter \in [SeqNums -> {"none"} \union Waiters]
  /\ full \in [Waiters -> SUBSET SeqNums]
  /\ toSend \subseteq [seq : SeqNums, alias : Sessions]
  /\ awaiting \subseteq SeqNums

BrokerTypes == acks \subseteq SeqNums /\ received \subseteq SeqNums

GoroutineTypes ==
  /\ rpc \in RunnerPC
  /\ watcher \in {"on", "err", "nil"}
  /\ flusher \in FlusherPC
  /\ reader \in [pc : {"idle", "deliver", "ended"}, ack : 0..MaxSeq]
  /\ reader.pc = "deliver" => reader.ack # 0
  /\ resend \in [pc : {"none", "list", "next", "send", "wait", "clear"},
                 todo : SUBSET SeqNums, cur : 0..MaxSeq]
  /\ resend.pc \in {"send", "wait"} => resend.cur # 0
  /\ cpc \in [Closers -> CloserPC]

CloseTypes ==
  /\ closed \in BOOLEAN /\ requested \in BOOLEAN
  /\ tearOn \subseteq Sessions
  /\ requests \in Nat /\ events \in Nat

TypeOK ==
  LinkTypes /\ BufferTypes /\ BrokerTypes /\ GoroutineTypes /\ CloseTypes

(* OpenUpstream has registered the stream and started its goroutine.       *)
Init ==
  /\ Net!Init
  /\ qos \in QoSes
  /\ state = "Connected"
  /\ wireConn = current /\ alias = current /\ tearOn = {}
  /\ closed = FALSE /\ requested = FALSE
  /\ buffered = FALSE
  /\ seq = 0 /\ lastAcked = TRUE
  /\ sent = {} /\ acks = {} /\ received = {}
  /\ waiter = [n \in SeqNums |-> "none"]
  /\ full = [w \in Waiters |-> {}]
  /\ toSend = {} /\ awaiting = {}
  /\ rpc = "run" /\ watcher = "on" /\ flusher = "loop"
  /\ reader = [pc |-> "idle", ack |-> 0]
  /\ resend = [pc |-> "none", todo |-> {}, cur |-> 0]
  /\ cpc = [c \in Closers |-> "idle"]
  /\ requests = 0 /\ events = 0

-----------------------------------------------------------------------------
(* The connection.                                                          *)

(* A session object the stream does not refer to any more.                 *)
Unreferenced(s) ==
  /\ s \notin {wireConn, alias} \union tearOn
  /\ \A m \in toSend : m.alias # s

Connection ==
  /\ Net!Next
  /\ current' = current \/ Unreferenced(current')
  /\ UNCHANGED <<bufVars, runVars, closeVars, cpc, brokerVars, linkVars, state,
                 sendVars, rpc>>

Up(s) == s = current /\ up

(* The goroutine OpenUpstream starts to follow the connection's end.       *)
CancelByConn ==
  /\ phase = "Closed"
  /\ ~closed
  /\ closed' = TRUE
  /\ UNCHANGED <<netVars, bufVars, runVars, requested, tearOn, requests,
                 events, cpc, brokerVars, linkVars, state, sendVars, rpc>>

-----------------------------------------------------------------------------
(* closeWithError, whoever calls it.                                        *)

(* closeWithError without its guard against a second caller.               *)
MayTearDown_Bug == ~closed

(* isClosed, then closeRequested.CompareAndSwap(false, true).               *)
MayTearDown == ~closed /\ ~requested

(* The winner reads the session and sends the CloseRequest on it.          *)
TearDown ==
  /\ MayTearDown
  /\ requested' = TRUE
  /\ tearOn' = {wireConn}
  /\ requests' = requests + 1
  /\ UNCHANGED <<closed, events>>

(* Somebody else tears the stream down, or has done so.                     *)
TornDown == ~MayTearDown /\ UNCHANGED closeVars

(* The broker has agreed: the event is queued and the stream cancelled.    *)
TearDownOK ==
  /\ \E s \in tearOn : Up(s)
  /\ tearOn' = {}
  /\ closed' = TRUE
  /\ events' = events + 1
  /\ UNCHANGED <<requested, requests>>

(* The session is lost, the broker refuses or the caller's time is up.     *)
TearDownFails ==
  /\ tearOn' = {}
  /\ closed' = TRUE
  /\ UNCHANGED <<requested, requests, events>>

-----------------------------------------------------------------------------
(* Writing and flushing.                                                    *)

(* The context of the current run has ended.                               *)
RunCancelled == closed \/ watcher # "on"

(* flushLoop takes data points from dpgCh.  WriteDataPoints refuses a      *)
(* closed or draining stream, but any number of its callers may have       *)
(* passed that check before, so it does not restrict what flushLoop takes. *)
WriteTaken ==
  /\ flusher = "loop"
  /\ buffered' = TRUE
  /\ UNCHANGED <<netVars, seq, sent, waiter, full, lastAcked, runVars,
                 closeVars, cpc, brokerVars, linkVars, sendVars, state, rpc>>

(* flush stores the chunk, registers a new channel for its result and      *)
(* starts a goroutine to send it.                                          *)
Issue ==
  /\ buffered' = FALSE
  /\ seq' = seq + 1
  /\ sent' = sent \union {seq + 1}
  /\ waiter' = [waiter EXCEPT ![seq + 1] = "flush"]
  /\ lastAcked' = FALSE
  /\ toSend' = toSend \union {[seq |-> seq + 1, alias |-> alias]}
  /\ UNCHANGED <<full, awaiting>>

(* The last sequence number is taken for a free one.                       *)
IssueChunk_BugOffByOne == buffered /\ seq <= MaxSeq /\ Issue

(* flush, with something to send and a sequence number left.               *)
IssueChunk == buffered /\ seq < MaxSeq /\ Issue

(* validateState fails.                                                     *)
Exhausted == buffered /\ seq = MaxSeq

(* flushLoop flushes for its ticker or because the policy says so.         *)
FlushTick ==
  /\ flusher = "loop"
  /\ \/ IssueChunk /\ UNCHANGED flusher
     \/ Exhausted /\ flusher' = "tear" /\ UNCHANGED <<bufVars, sendVars>>
  /\ UNCHANGED <<netVars, watcher, reader, resend, closeVars, cpc, brokerVars,
                 linkVars, state, rpc>>

(* flushLoop's last flush, after the end of its context.                   *)
FlushLast ==
  /\ flusher = "loop"
  /\ RunCancelled
  /\ \/ IssueChunk /\ flusher' = "ended"
     \/ Exhausted /\ flusher' = "lastTear" /\ UNCHANGED <<bufVars, sendVars>>
     \/ ~buffered /\ flusher' = "ended" /\ UNCHANGED <<bufVars, sendVars>>
  /\ UNCHANGED <<netVars, watcher, reader, resend, closeVars, cpc, brokerVars,
                 linkVars, state, rpc>>

(* closeWithErrorBounded, called by flush.                                 *)
FlushTearDown ==
  /\ flusher \in {"tear", "lastTear"}
  /\ \/ /\ TearDown
        /\ flusher' = IF flusher = "tear" THEN "request" ELSE "lastRequest"
     \/ /\ TornDown
        /\ flusher' = IF flusher = "tear" THEN "loop" ELSE "ended"
  /\ UNCHANGED <<netVars, bufVars, watcher, reader, resend, cpc, brokerVars,
                 linkVars, state, sendVars, rpc>>

FlushTornDown ==
  /\ flusher \in {"request", "lastRequest"}
  /\ TearDownOK \/ TearDownFails
  /\ flusher' = IF flusher = "request" THEN "loop" ELSE "ended"
  /\ UNCHANGED <<netVars, bufVars, watcher, reader, resend, cpc, brokerVars,
                 linkVars, state, sendVars, rpc>>

-----------------------------------------------------------------------------
(* Sending chunks and receiving their acks.                                 *)

(* receivedAck.L is held by a draining closer that examines the buffers.   *)
LockFree == \A c \in Closers : cpc[c] \notin {"list", "size", "park"}

(* The broker receives a chunk and acknowledges it; an ack nobody reads    *)
(* any more is dropped.                                                    *)
Receives(n) ==
  /\ Up(wireConn)
  /\ received' = received \union {n}
  /\ acks' = IF reader.pc = "ended" THEN {} ELSE acks \union {n}

(* The registered channels become reg, the full ones res, and wait are the *)
(* goroutines that wait for an ack.  Two things have no effect any more    *)
(* and are dropped: a goroutine whose channel is neither registered nor    *)
(* full (it has been closed or replaced, and the wait ends with its run),  *)
(* and a result nobody is to read.                                         *)
Channels(reg, res, wait) ==
  /\ waiter' = reg
  /\ awaiting' = {n \in wait : reg[n] = "flush" \/ n \in res["flush"]}
  /\ full' = [w \in Waiters |-> {n \in res[w] :
                \/ reg[n] = w
                \/ IF w = "flush"
                   THEN n \in wait \/ \E m \in toSend' : m.seq = n
                   ELSE n = resend'.cur}]

(* sendChunkAndWaitAck, in the goroutine flush has started: it sends on    *)
(* the stream's current session, with the alias the chunk was built with.  *)
(* An old alias is accepted if the new session has assigned it too.  The   *)
(* chunk is lost with its session, with an alias nobody knows, and on an   *)
(* unreliable transport.  A Write that fails, although the broker may have *)
(* received the chunk, is a goroutine that gives up at once.               *)
SendChunk(m) ==
  /\ m \in toSend
  /\ toSend' = toSend \ {m}
  /\ \/ Receives(m.seq) /\ alias = wireConn
     \/ /\ \/ m.alias # wireConn \/ ~Up(wireConn)
           \/ closed \/ qos = "Unreliable"
        /\ UNCHANGED brokerVars
  /\ UNCHANGED <<netVars, buffered, seq, sent, lastAcked, runVars, closeVars,
                 cpc, linkVars, state, rpc>>
  /\ Channels(waiter, full, awaiting \union {m.seq})

(* The greatest number acknowledged becomes n, if it was less.             *)
NoteAcked(n) == lastAcked' = (lastAcked \/ n = seq)

(* The ack has come through the chunk's channel.                           *)
SendAcked(n) ==
  /\ n \in awaiting
  /\ n \in full["flush"]
  /\ LockFree
  /\ NoteAcked(n)
  /\ UNCHANGED <<netVars, buffered, seq, sent, runVars, closeVars, cpc,
                 brokerVars, linkVars, toSend, state, rpc>>
  /\ Channels(waiter, full, awaiting \ {n})

(* The wait gives the chunk up, as if it had been acknowledged.            *)
SendGivesUp_Bug(n) ==
  /\ n \in awaiting
  /\ sent' = sent \ {n}
  /\ UNCHANGED <<netVars, buffered, seq, lastAcked, runVars, closeVars, cpc,
                 brokerVars, linkVars, toSend, state, rpc>>
  /\ Channels(waiter, full, awaiting \ {n})

(* The Write failed, AckTimeout is over, or a context has ended.  The      *)
(* channel stays registered.                                               *)
SendGivesUp(n) ==
  /\ n \in awaiting
  /\ UNCHANGED <<netVars, buffered, seq, sent, lastAcked, runVars, closeVars,
                 cpc, brokerVars, linkVars, toSend, state, rpc>>
  /\ Channels(waiter, full, awaiting \ {n})

(* processResult, in two steps: forget the chunk, ...                      *)
AckRemove(n) ==
  /\ reader.pc = "idle"
  /\ n \in acks
  /\ acks' = acks \ {n}
  /\ sent' = sent \ {n}
  /\ reader' = [pc |-> "deliver", ack |-> n]
  /\ UNCHANGED <<netVars, buffered, seq, waiter, full, lastAcked, watcher,
                 flusher, resend, closeVars, cpc, received, linkVars, state,
                 sendVars, rpc>>

Woken == [c \in Closers |-> IF cpc[c] = "waiting" THEN "lock" ELSE cpc[c]]

(* Deliver the result to whoever waits for it, with u.mu held; the send    *)
(* blocks if the channel is full, unless the run is cancelled.  The        *)
(* channel is forgotten if "forget".                                       *)
Deliver(n, forget) ==
  LET w   == waiter[n]
      reg == IF forget THEN [waiter EXCEPT ![n] = "none"] ELSE waiter IN
  \/ /\ w = "none" \/ RunCancelled
     /\ Channels(reg, full, awaiting)
  \/ /\ w # "none" /\ n \notin full[w]
     /\ Channels(reg, [full EXCEPT ![w] = @ \union {n}], awaiting)

AckDelivered(forget) ==
  /\ reader.pc = "deliver"
  /\ reader' = [pc |-> "idle", ack |-> 0]
  /\ cpc' = Woken
  /\ UNCHANGED <<netVars, buffered, seq, sent, lastAcked, watcher, flusher,
                 resend, closeVars, brokerVars, linkVars, toSend, state, rpc>>
  /\ Deliver(reader.ack, forget)

(* The channel stays registered.                                           *)
AckDeliver_BugKeep == LockFree /\ AckDelivered(FALSE)

(* Broadcast without receivedAck.L.                                        *)
AckDeliver_BugNoLock == AckDelivered(TRUE)

(* ... then deliver its result and wake the draining closers, for which    *)
(* receivedAck.L has to be free.                                           *)
AckDeliver == LockFree /\ AckDelivered(TRUE)

(* The run is cancelled, or the ended session has closed ackCh: close all  *)
(* registered channels and forget them.                                    *)
ReaderEnds ==
  /\ reader.pc = "idle"
  /\ RunCancelled \/ ~Up(wireConn)
  /\ reader' = [pc |-> "ended", ack |-> 0]
  /\ acks' = {}
  /\ UNCHANGED <<netVars, buffered, seq, sent, lastAcked, watcher, flusher,
                 resend, closeVars, cpc, received, linkVars, toSend, state,
                 rpc>>
  /\ Channels([n \in SeqNums |-> "none"], full, awaiting)

-----------------------------------------------------------------------------
(* The resending goroutine of a resumed, reliable run.                      *)

ResendList ==
  /\ resend.pc = "list"
  /\ resend' = [pc |-> "next", todo |-> sent, cur |-> 0]
  /\ UNCHANGED <<netVars, bufVars, watcher, flusher, reader, closeVars, cpc,
                 brokerVars, linkVars, state, sendVars, rpc>>

(* Build the next chunk of the list and register a new channel for its     *)
(* ack, in the place of one that flush may have registered.                *)
ResendNext(n) ==
  /\ resend.pc = "next"
  /\ n \in resend.todo
  /\ resend' = [pc |-> "send", todo |-> resend.todo \ {n}, cur |-> n]
  /\ UNCHANGED <<netVars, buffered, seq, sent, lastAcked, watcher, flusher,
                 reader, closeVars, cpc, brokerVars, linkVars, state, toSend,
                 rpc>>
  /\ Channels([waiter EXCEPT ![n] = "resend"],
              [full EXCEPT !["resend"] = @ \ {n}], awaiting)

ResendSent ==
  /\ resend.pc = "send"
  /\ Receives(resend.cur) \/ (~Up(wireConn) /\ UNCHANGED brokerVars)
  /\ resend' = [resend EXCEPT !.pc = "wait"]
  /\ UNCHANGED <<netVars, bufVars, watcher, flusher, reader, closeVars, cpc,
                 linkVars, state, sendVars, rpc>>

ResendAcked ==
  /\ resend.pc = "wait"
  /\ resend.cur \in full["resend"]
  /\ LockFree
  /\ resend' = [pc |-> "next", todo |-> resend.todo, cur |-> 0]
  /\ NoteAcked(resend.cur)
  /\ UNCHANGED <<netVars, buffered, seq, sent, watcher, flusher, reader,
                 closeVars, cpc, brokerVars, linkVars, state, toSend, rpc>>
  /\ Channels(waiter, full, awaiting)

(* AckTimeout is over: the channel stays registered.                       *)
ResendTimeout ==
  /\ resend.pc = "wait"
  /\ LockFree
  /\ resend' = [pc |-> "next", todo |-> resend.todo, cur |-> 0]
  /\ UNCHANGED <<netVars, buffered, seq, sent, lastAcked, watcher, flusher,
                 reader, closeVars, cpc, brokerVars, linkVars, state, toSend,
                 rpc>>
  /\ Channels(waiter, full, awaiting)

ResendChannelClosed ==
  waiter[resend.cur] # "resend" /\ resend.cur \notin full["resend"]

(* The Write fails, or the wait ends with the run or with the channel: the *)
(* channel is forgotten.                                                   *)
ResendFails ==
  /\ \/ resend.pc = "send" /\ (~Up(wireConn) \/ closed) /\ UNCHANGED brokerVars
     \/ resend.pc = "send" /\ Receives(resend.cur)
     \/ /\ resend.pc = "wait"
        /\ RunCancelled \/ ResendChannelClosed
        /\ UNCHANGED brokerVars
  /\ resend' = [pc |-> "next", todo |-> resend.todo, cur |-> 0]
  /\ UNCHANGED <<netVars, buffered, seq, sent, lastAcked, watcher, flusher,
                 reader, closeVars, cpc, linkVars, state, toSend, rpc>>
  /\ Channels([waiter EXCEPT ![resend.cur] = "none"], full, awaiting)

ResendEnds ==
  /\ resend.pc = "next"
  /\ resend.todo = {}
  /\ resend' = [resend EXCEPT !.pc = "none"]
  /\ UNCHANGED <<netVars, bufVars, watcher, flusher, reader, closeVars, cpc,
                 brokerVars, linkVars, state, sendVars, rpc>>

(* A resumed run of another QoS forgets its unacknowledged chunks.         *)
ClearSent ==
  /\ resend.pc = "clear"
  /\ sent' = {}
  /\ resend' = [resend EXCEPT !.pc = "none"]
  /\ UNCHANGED <<netVars, buffered, seq, waiter, full, lastAcked, watcher,
                 flusher, reader, closeVars, cpc, brokerVars, linkVars, state,
                 sendVars, rpc>>

-----------------------------------------------------------------------------
(* The stream's goroutine: run, wait for the connection, resume, run again. *)

RunnerVars == <<netVars, bufVars, cpc, sendVars>>

(* run notices the reconnection, ...                                       *)
WatcherFires ==
  /\ watcher = "on" /\ rpc = "run" /\ resend.pc # "clear"
  /\ phase = "Reconnecting"
  /\ state' = "Resuming"
  /\ watcher' = "err"
  /\ UNCHANGED <<RunnerVars, flusher, reader, resend, closeVars, brokerVars,
                 linkVars, rpc>>

(* ... or the end of the stream.                                           *)
WatcherEnds ==
  /\ watcher = "on" /\ rpc = "run" /\ resend.pc # "clear"
  /\ closed
  /\ watcher' = "nil"
  /\ UNCHANGED <<RunnerVars, flusher, reader, resend, closeVars, brokerVars,
                 linkVars, state, rpc>>

(* All goroutines of run have left.                                        *)
RunReturns ==
  /\ rpc = "run"
  /\ watcher # "on" /\ flusher = "ended" /\ reader.pc = "ended"
  /\ resend.pc = "none"
  /\ rpc' = IF watcher = "err" /\ phase # "Closed" THEN "wait" ELSE "done"
  /\ UNCHANGED <<RunnerVars, runVars, closeVars, brokerVars, linkVars, state>>

(* WaitUntil(connStatusConnected).                                         *)
WaitOver ==
  /\ rpc = "wait"
  /\ phase = "Connected"
  /\ rpc' = "begin"
  /\ UNCHANGED <<RunnerVars, runVars, closeVars, brokerVars, linkVars, state>>

(* resume checks the stream and adopts the connection's session.           *)
ResumeBegin ==
  /\ rpc = "begin"
  /\ IF closed \/ state # "Resuming"
     THEN rpc' = "done" /\ UNCHANGED wireConn
     ELSE rpc' = "resume" /\ wireConn' = current
  /\ UNCHANGED <<RunnerVars, runVars, closeVars, brokerVars, qos, alias,
                 state>>

(* The last resend list is forgotten: a resumed run does not resend.       *)
StartRun_Bug ==
  /\ watcher' = "on" /\ flusher' = "loop"
  /\ reader' = [pc |-> "idle", ack |-> 0]
  /\ resend' = [pc |-> IF qos = "Reliable" THEN "none" ELSE "clear",
                todo |-> {}, cur |-> 0]

(* run(true). *)
StartRun ==
  /\ watcher' = "on" /\ flusher' = "loop"
  /\ reader' = [pc |-> "idle", ack |-> 0]
  /\ resend' = [pc |-> IF qos = "Reliable" THEN "list" ELSE "clear",
                todo |-> {}, cur |-> 0]

(* The broker has accepted the resume request and assigned an alias.       *)
ResumeOK ==
  /\ rpc = "resume"
  /\ Up(wireConn)
  /\ alias' = wireConn
  /\ acks' = {}
  /\ state' = "Connected"
  /\ rpc' = "run"
  /\ StartRun
  /\ UNCHANGED <<RunnerVars, closeVars, received, qos, wireConn>>

(* The goroutine gives up and leaves the stream open.                      *)
ResumeFails_Bug ==
  /\ rpc = "resume"
  /\ rpc' = "done"
  /\ UNCHANGED <<RunnerVars, runVars, closeVars, brokerVars, linkVars, state>>

(* The broker refuses (a conflict is retried, which changes nothing), or   *)
(* the session or the stream has ended.                                    *)
ResumeFails ==
  /\ rpc = "resume"
  /\ rpc' = "tear"
  /\ UNCHANGED <<RunnerVars, runVars, closeVars, brokerVars, linkVars, state>>

(* closeWithErrorBounded, called by resume.                                *)
ResumeTearDown ==
  /\ rpc = "tear"
  /\ \/ TearDown /\ rpc' = "request"
     \/ TornDown /\ rpc' = "done"
  /\ UNCHANGED <<RunnerVars, runVars, brokerVars, linkVars, state>>

ResumeTornDown ==
  /\ rpc = "request"
  /\ TearDownOK \/ TearDownFails
  /\ rpc' = "done"
  /\ UNCHANGED <<RunnerVars, runVars, brokerVars, linkVars, state>>

-----------------------------------------------------------------------------
(* Upstream.Close. *)

CloserVars == <<netVars, runVars, brokerVars, linkVars, rpc>>

CloserStep(c, from, to) ==
  /\ cpc[c] = from
  /\ cpc' = [cpc EXCEPT ![c] = to]

(* A stream that is already draining refuses; one that is resuming is torn *)
(* down at once; any other is drained first.                               *)
CloseSwap(c) ==
  /\ CloserStep(c, "idle", CASE state = "Draining"  -> "rejected"
                             [] state = "Resuming"  -> "tear"
                             [] state = "Connected" -> "flush")
  /\ state' = "Draining"
  /\ UNCHANGED <<CloserVars, bufVars, sendVars, closeVars>>

(* Flush: flushLoop serves the request.  Its answer may be dropped once    *)
(* the run is cancelled.  If it has to tear the stream down, the closer    *)
(* waits for that.                                                         *)
FlushServed(c) ==
  /\ flusher = "loop"
  /\ \/ /\ \/ CloserStep(c, "flush", "check")
           \/ RunCancelled /\ CloserStep(c, "flush", "flushing")
        /\ IssueChunk \/ (~buffered /\ UNCHANGED <<bufVars, sendVars>>)
        /\ UNCHANGED flusher
     \/ /\ CloserStep(c, "flush", "flushing")
        /\ Exhausted
        /\ flusher' = "tear"
        /\ UNCHANGED <<bufVars, sendVars>>
  /\ UNCHANGED <<netVars, watcher, reader, resend, brokerVars, linkVars, rpc,
                 state, closeVars>>

(* Flush returns an error: the deadline of the drain or of the closer's    *)
(* context has come, the stream is cancelled, or the flush has failed.     *)
FlushFails(c) ==
  /\ CloserStep(c, "flush", "tear") \/ CloserStep(c, "flushing", "tear")
  /\ UNCHANGED <<CloserVars, bufVars, sendVars, closeVars, state>>

(* The early return: the last chunk issued has been acknowledged.          *)
DrainCheck(c) ==
  /\ CloserStep(c, "check", IF lastAcked THEN "tear" ELSE "lock")
  /\ UNCHANGED <<CloserVars, bufVars, sendVars, closeVars, state>>

(* Take receivedAck.L, on entering the loop or after Wait; leave it if the *)
(* deadline has come or the stream is cancelled.                           *)
DrainLock(c) ==
  /\ LockFree
  /\ CloserStep(c, "lock", "list") \/ CloserStep(c, "lock", "tear")
  /\ UNCHANGED <<CloserVars, bufVars, sendVars, closeVars, state>>

(* listSent; if nothing is left, the send buffer is examined next.         *)
DrainList(c) ==
  /\ CloserStep(c, "list", IF sent = {} THEN "size" ELSE "park")
  /\ UNCHANGED <<CloserVars, bufVars, sendVars, closeVars, state>>

DrainSize(c) ==
  /\ CloserStep(c, "size", IF buffered THEN "park" ELSE "tear")
  /\ UNCHANGED <<CloserVars, bufVars, sendVars, closeVars, state>>

(* Wait: release receivedAck.L and sleep.                                  *)
DrainPark(c) ==
  /\ CloserStep(c, "park", "waiting")
  /\ UNCHANGED <<CloserVars, bufVars, sendVars, closeVars, state>>

(* The drain's goroutine that watches the contexts is missing.             *)
Watchdog_Bug(c) == FALSE /\ c \in Closers /\ UNCHANGED vars

(* The deadline comes, or the stream is cancelled, while the closer waits: *)
(* the drain's other goroutine wakes it, and it leaves.                    *)
Watchdog(c) ==
  /\ LockFree
  /\ cpc[c] = "waiting"
  /\ cpc' = [Woken EXCEPT ![c] = "tear"]
  /\ UNCHANGED <<CloserVars, bufVars, sendVars, closeVars, state>>

CloseTearDown(c) ==
  /\ \/ TearDown /\ CloserStep(c, "tear", "request")
     \/ TornDown /\ CloserStep(c, "tear", "done")
  /\ UNCHANGED <<CloserVars, bufVars, sendVars, state>>

CloseTornDown(c) ==
  /\ TearDownOK \/ TearDownFails
  /\ CloserStep(c, "request", "done")
  /\ UNCHANGED <<CloserVars, bufVars, sendVars, state>>

-----------------------------------------------------------------------------
FlusherNext ==
  WriteTaken \/ FlushTick \/ FlushLast \/ FlushTearDown \/ FlushTornDown

SenderNext ==
  \/ \E m \in toSend : SendChunk(m)
  \/ \E n \in SeqNums : SendAcked(n) \/ SendGivesUp(n)

ReaderNext ==
  \/ \E n \in SeqNums : AckRemove(n)
  \/ AckDeliver \/ ReaderEnds

ResendNow ==
  \/ ResendList \/ ResendSent \/ ResendFails \/ ResendEnds \/ ClearSent
  \/ \E n \in SeqNums : ResendNext(n)

RunnerNext ==
  \/ WatcherFires \/ WatcherEnds \/ RunReturns \/ WaitOver
  \/ ResumeBegin \/ ResumeOK \/ ResumeFails
  \/ ResumeTearDown \/ ResumeTornDown

CloserNext(c) ==
  \/ CloseSwap(c) \/ FlushServed(c) \/ FlushFails(c)
  \/ DrainCheck(c) \/ DrainLock(c) \/ DrainList(c) \/ DrainSize(c)
  \/ DrainPark(c) \/ Watchdog(c) \/ CloseTearDown(c) \/ CloseTornDown(c)

Next ==
  \/ Connection \/ CancelByConn
  \/ FlusherNext
  \/ SenderNext
  \/ ReaderNext
  \/ ResendNow \/ ResendAcked \/ ResendTimeout
  \/ RunnerNext
  \/ \E c \in Closers : CloserNext(c)

Spec == Init /\ [][Next]_vars

(* Goroutines keep running and the broker answers; a goroutine that waits  *)
(* for receivedAck.L gets it if the lock is free again and again.  Nothing *)
(* is assumed of the connection, of the writers, of the flush ticker (the  *)
(* policy may have none), of AckTimeout (0 by default) or of the drain's   *)
(* deadline, which the properties that need it name.                       *)
Fairness ==
  /\ WF_vars(CancelByConn)
  /\ WF_vars(FlushLast \/ FlushTearDown \/ FlushTornDown)
  /\ WF_vars(\E m \in toSend : SendChunk(m))
  /\ \A n \in SeqNums : SF_vars(SendAcked(n))
  /\ WF_vars((\E n \in SeqNums : AckRemove(n)) \/ ReaderEnds)
  /\ SF_vars(AckDeliver)
  /\ WF_vars(ResendNow)
  /\ SF_vars(ResendAcked)
  /\ WF_vars(WatcherFires \/ WatcherEnds)
  /\ WF_vars(RunReturns \/ WaitOver \/ ResumeBegin \/ ResumeOK \/ ResumeFails
              \/ ResumeTearDown \/ ResumeTornDown)
  /\ \A c \in Closers :
       /\ WF_vars(FlushServed(c) \/ DrainCheck(c) \/ DrainList(c)
                   \/ DrainSize(c) \/ DrainPark(c)
                   \/ CloseTearDown(c) \/ CloseTornDown(c))
       /\ SF_vars(DrainLock(c))

FairSpec == Spec /\ Fairness

-----------------------------------------------------------------------------
(* Properties.                                                              *)

(* A reliable stream forgets a chunk only when the broker has received it: *)
(* whatever times out, fails, is resent, resumed, or torn down meanwhile,  *)
(* a chunk the broker never saw stays in sentBuf (upstream.go:611-614,     *)
(* 783-790) and every number issued is accounted for.                      *)
UnackedKept ==
  qos = "Reliable" => 1..seq \subseteq sent \union received

(* Through lost sessions, resumes, resends, late and repeated acks, a last *)
(* flush after the end and competing tear-downs, the stream is the one of  *)
(* UpstreamPromise: what is forgotten has been received, what is received  *)
(* has been issued, no CloseRequest is sent of a stream that is over, and  *)
(* no event comes without one (upstream.go:178-187, 598-616, 783-790).     *)
Promise == INSTANCE UpstreamPromise WITH
  reliable <- qos = "Reliable", issued <- seq, kept <- sent,
  asked <- requests, answered <- events, over <- closed

KeepsStreamPromise == Promise!Spec

(* The stream is torn down once, whichever of Close, a failed resume and a *)
(* failed flush come together (upstream.go:178-187): one CloseRequest, and *)
(* at most one event, of a stream that is cancelled.                       *)
OneTearDown ==
  /\ requests <= 1
  /\ events <= requests
  /\ events = 1 => closed

(* The read loop never blocks on a result channel while it holds u.mu: a   *)
(* registered channel is empty, however many acks of one chunk arrive and  *)
(* whoever has left its channel behind (upstream.go:807-818).              *)
AckNeverBlocks ==
  \A n \in SeqNums : waiter[n] # "none" => n \notin full[waiter[n]]

(* The timers of the drains run.                                           *)
TimersFire ==
  \A c \in Closers : WF_vars(FlushFails(c)) /\ SF_vars(Watchdog(c))

(* Close returns once its time is up, at the latest, even though Wait on a *)
(* condition variable does not look at a context (upstream.go:283-301).    *)
CloseReturns ==
  TimersFire =>
    \A c \in Closers : cpc[c] = "flush" ~> cpc[c] = "done"

(* When every ack has come, a draining closer of a reliable stream does    *)
(* not sleep until its deadline: no wake-up is lost (upstream.go:792-799). *)
DrainWakes ==
  qos = "Reliable" /\ <>[](sent = {} /\ ~buffered) =>
    \A c \in Closers : cpc[c] = "waiting" ~> cpc[c] # "waiting"

(* A stream whose goroutine has left is cancelled: nobody blocks for ever  *)
(* in WriteDataPoints or Flush on a stream that no loop serves.            *)
DeadStreamIsClosed == TimersFire => (rpc = "done" ~> closed)

(* The stream runs on a session that lives.                                *)
Stable ==
  /\ phase = "Connected" /\ up /\ wireConn = current
  /\ rpc = "run" /\ watcher = "on" /\ ~closed

(* Reliable delivery: when the stream at last runs on a session that stays *)
(* alive, every chunk is acknowledged and forgotten, those included that   *)
(* were issued, sent or lost on an earlier session.                        *)
DeliveredWhenStable ==
  qos = "Reliable" /\ <>[]Stable =>
    \A n \in SeqNums : n \in sent ~> n \notin sent

(* CHANGELOG.md:21: the second Close still returns `already draining`.  A  *)
(* Close that comes while another one drains the stream is refused.        *)
SecondCloseRefused ==
  [][\A c, d \in Closers :
       /\ cpc[c] \in {"flush", "flushing", "check", "lock", "list", "size",
                      "park", "waiting"}
       /\ cpc[d] = "idle" /\ cpc'[d] # "idle"
       => cpc'[d] = "rejected"]_vars

(* When the connection is closed the stream's goroutine leaves.            *)
GoroutineEnds == phase = "Closed" ~> rpc = "done"

=============================================================================
