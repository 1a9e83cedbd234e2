----------------------------- MODULE Downstream -----------------------------
(***************************************************************************)
(* The life of an iscp.Downstream (iscp/downstream.go, and its goroutine   *)
(* in iscp/conn.go): handing chunks to the application, giving aliases to  *)
(* upstreams and data IDs and announcing them with the acks, resuming the  *)
(* stream on a new session of the connection, and closing it after a last  *)
(* flush of the acks.                                                      *)
(*                                                                         *)
(* The connection is the abstract one of ConnPromise.  A chunk is the room *)
(* for one delivery: it is used again once the delivery is over.  All      *)
(* chunks come from one upstream and carry one data ID, which the broker   *)
(* writes in full or, once it has been told one, as an alias.  Metadata is *)
(* not modelled.                                                           *)
(***************************************************************************)
EXTENDS Naturals, FiniteSets

CONSTANTS
  Sessions,   (* identities of wire.ClientConn objects                     *)
  Closers,    (* callers of Downstream.Close                               *)
  Chunks,     (* chunks under way at the same time                         *)
  Kinds,      (* what a chunk names in full or by an alias                 *)
  MaxAlias    (* a bound on the aliases given to the upstream              *)

ASSUME DownstreamAssumption ==
  /\ MaxAlias \in Nat \ {0}
  /\ IsFiniteSet(Chunks)
  /\ Kinds \subseteq {"upstream", "data"}

Aliases == 1..MaxAlias
Full == 0     (* instead of an alias                                       *)

VARIABLES
  phase,      (* the connection's state                                    *)
  current,    (* the session snapshotWireConn returns                      *)
  up,         (* that session has not ended                                *)
  state,      (* Downstream.state                                          *)
  closed,     (* Downstream.ctx is cancelled                               *)
  wireConn,   (* Downstream.wireConn                                       *)
  place,      (* where each chunk, or what is owed for it, is              *)
  carries,    (* how it names its upstream and its data ID                 *)
  mine,       (* the alias its reader has assigned and not yet announced   *)
  assigned,   (* upstreamInfos and dataIDAliases: the greatest alias       *)
  pending,    (* upstreamInfoAckBuffer and dataIDAckBuffer                 *)
  ack,        (* the aliases in the ack that is being sent                 *)
  known,      (* the aliases the broker has been told                      *)
  flusher,    (* run's flushAckLoop                                        *)
  stop,       (* flushAckLoop's own context has ended                      *)
  flushed,    (* finalAckFlushed is closed                                 *)
  reader,     (* run's readDataPointsLoop                                  *)
  watcher,    (* run's goroutine that waits for Reconnecting               *)
  rpc,        (* where the stream's goroutine stands                       *)
  cpc,        (* where each closer stands                                  *)
  tearOn,     (* the session its CloseRequest went to                      *)
  owed        (* history: results a closer of a stream that was not        *)
              (* cancelled found still to be sent when it began to drain   *)

netVars   == <<phase, current, up>>
chunkVars == <<place, carries, mine>>
aliasVars == <<assigned, pending, ack, known>>
flushVars == <<flusher, stop, flushed>>
runVars   == <<reader, watcher, rpc>>
closeVars == <<cpc, tearOn, owed>>
linkVars  == <<state, closed, wireConn>>
vars == <<netVars, chunkVars, aliasVars, flushVars, runVars, closeVars,
          linkVars>>

Net == INSTANCE ConnPromise

(* ReadDataPoints assigns and announces in the order of these places.      *)
Reading == {"upstream", "announce upstream", "data", "announce data",
            "resolve"}
Place == {"none", "wire", "app", "buffered", "sending", "failed"}
           \union Reading
FlusherPC == {"loop", "loop send", "final", "final send", "last",
              "last send", "closing", "ended"}
RunnerPC == {"run", "wait", "begin", "resume", "tear", "request", "done"}
CloserPC == {"idle", "swap", "rejected", "drain", "wait", "flushed",
             "request", "sent", "done"}

LinkTypes ==
  /\ phase \in {"Connected", "Reconnecting", "Closed"}
  /\ current \in Sessions /\ wireConn \in Sessions
  /\ up \in BOOLEAN /\ closed \in BOOLEAN
  /\ state \in {"Connected", "Resuming", "Draining"}

ChunkTypes ==
  /\ place \in [Chunks -> Place]
  /\ carries \in [Chunks -> [Kinds -> 0..MaxAlias]]
  /\ mine \in [Chunks -> 0..MaxAlias]

AliasTypes ==
  /\ assigned \in [Kinds -> 0..MaxAlias]
  /\ pending \in [Kinds -> SUBSET Aliases]
  /\ ack \in [Kinds -> SUBSET Aliases]
  /\ known \in [Kinds -> SUBSET Aliases]

GoroutineTypes ==
  /\ flusher \in FlusherPC /\ stop \in BOOLEAN /\ flushed \in BOOLEAN
  /\ reader \in {"on", "ended"}
  /\ watcher \in {"on", "err", "nil"}
  /\ rpc \in RunnerPC
  /\ cpc \in [Closers -> CloserPC]
  /\ tearOn \in [Closers -> Sessions]
  /\ owed \in [Closers -> SUBSET Chunks]

TypeOK == LinkTypes /\ ChunkTypes /\ AliasTypes /\ GoroutineTypes

Nothing == [kind \in Kinds |-> {}]

(* OpenDownstream has registered the stream and started its goroutine; no  *)
(* data ID was given to it in advance.                                     *)
Init ==
  /\ Net!Init
  /\ state = "Connected" /\ closed = FALSE /\ wireConn = current
  /\ place = [k \in Chunks |-> "none"]
  /\ carries = [k \in Chunks |-> [kind \in Kinds |-> Full]]
  /\ mine = [k \in Chunks |-> 0]
  /\ assigned = [kind \in Kinds |-> 0]
  /\ pending = Nothing /\ ack = Nothing /\ known = Nothing
  /\ flusher = "loop" /\ stop = FALSE /\ flushed = FALSE
  /\ reader = "on" /\ watcher = "on" /\ rpc = "run"
  /\ cpc = [c \in Closers |-> "idle"]
  /\ tearOn = [c \in Closers |-> current]
  /\ owed = [c \in Closers |-> {}]

-----------------------------------------------------------------------------
(* The connection.                                                          *)

(* A session object the stream does not refer to any more.                 *)
Unreferenced(s) ==
  s # wireConn /\ \A c \in Closers : cpc[c] = "sent" => tearOn[c] # s

Connection ==
  /\ Net!Next
  /\ current' = current \/ Unreferenced(current')
  /\ UNCHANGED <<chunkVars, aliasVars, flushVars, runVars, closeVars, linkVars>>

Up(s) == s = current /\ up

(* The goroutine OpenDownstream starts to follow the connection's end.     *)
CancelByConn ==
  /\ phase = "Closed"
  /\ ~closed
  /\ closed' = TRUE
  /\ UNCHANGED <<netVars, chunkVars, aliasVars, flushVars, runVars, closeVars,
                 state, wireConn>>

(* The context of the current run has ended.                               *)
RunCancelled == closed \/ watcher # "on"

-----------------------------------------------------------------------------
(* Chunks and their aliases.                                                *)

Move(k, from, to) ==
  place[k] = from /\ place' = [place EXCEPT ![k] = to]

(* Chunks under way that will be given an upstream alias.                  *)
Unassigned == {k \in Chunks : /\ place[k] \in {"wire", "app", "upstream"}
                              /\ carries[k]["upstream"] = Full}

AliasesTaken == assigned["upstream"] + Cardinality(Unassigned)

(* The broker sends a chunk on the session the stream was last opened or   *)
(* resumed on.  MaxAlias bounds the chunks that name their upstream.       *)
Deliver(k) ==
  /\ Up(wireConn)
  /\ rpc \in {"run", "wait", "begin"}
  /\ Move(k, "none", "wire")
  /\ \E form \in [Kinds -> 0..MaxAlias] :
       /\ \A kind \in Kinds : form[kind] \in known[kind] \union {Full}
       /\ "upstream" \in Kinds /\ form["upstream"] = Full =>
            AliasesTaken < MaxAlias
       /\ carries' = [carries EXCEPT ![k] = form]
  /\ UNCHANGED <<netVars, mine, aliasVars, flushVars, runVars, closeVars,
                 linkVars>>

ChunkFrame ==
  UNCHANGED <<netVars, carries, ack, known, flushVars, runVars, closeVars,
              linkVars>>

(* readDataPointsLoop; the buffer of 1024 chunks may be full of others.    *)
HandOver(k) ==
  /\ reader = "on"
  /\ Move(k, "wire", "app") \/ Move(k, "wire", "none")
  /\ UNCHANGED <<mine, assigned, pending>>
  /\ ChunkFrame

ReaderEnds ==
  /\ reader = "on"
  /\ RunCancelled
  /\ reader' = "ended"
  /\ UNCHANGED <<netVars, chunkVars, aliasVars, flushVars, watcher, rpc,
                 closeVars, linkVars>>

(* ReadDataPoints, which may be called on a closed stream, by several      *)
(* goroutines at once.                                                     *)
ReadTake(k) ==
  /\ Move(k, "app", "upstream")
  /\ UNCHANGED <<mine, assigned, pending>>
  /\ ChunkFrame

After(kind) == IF kind = "upstream" THEN "data" ELSE "resolve"
Announce(kind) ==
  IF kind = "upstream" THEN "announce upstream" ELSE "announce data"

(* assignUpstreamInfoAlias takes every decoded UpstreamInfo for a new one, *)
(* since it compares the pointers; assignDataIDAlias compares the values.  *)
NeedsAlias(k, kind) ==
  /\ kind \in Kinds
  /\ carries[k][kind] = Full
  /\ kind = "upstream" \/ assigned[kind] = 0

Assign(k, kind) ==
  /\ \/ /\ NeedsAlias(k, kind)
        /\ assigned' = [assigned EXCEPT ![kind] = @ + 1]
        /\ mine' = [mine EXCEPT ![k] = assigned[kind] + 1]
        /\ Move(k, kind, Announce(kind))
     \/ /\ ~NeedsAlias(k, kind)
        /\ Move(k, kind, After(kind))
        /\ UNCHANGED <<mine, assigned>>
  /\ UNCHANGED pending
  /\ ChunkFrame

(* pushUpstreamInfoAckBuffer and pushDataIDAckBuffer.                       *)
PushAlias(k, kind) ==
  /\ Move(k, Announce(kind), After(kind))
  /\ pending' = [pending EXCEPT ![kind] = @ \union {mine[k]}]
  /\ mine' = [mine EXCEPT ![k] = 0]
  /\ UNCHANGED assigned
  /\ ChunkFrame

Resolves(k) == \A kind \in Kinds : carries[k][kind] <= assigned[kind]

(* wireToDownstreamChunk, then pushResultAckBuffer.                         *)
PushResult(k) ==
  /\ Move(k, "resolve", IF Resolves(k) THEN "buffered" ELSE "failed")
  /\ UNCHANGED <<mine, assigned, pending>>
  /\ ChunkFrame

-----------------------------------------------------------------------------
(* Sending the acks.                                                        *)

Buffered == {k \in Chunks : place[k] = "buffered"}
Sending == {k \in Chunks : place[k] = "sending"}

(* flushAck takes the buffers under d.mu; with nothing in them it is over. *)
FlushTake(from, to, next) ==
  /\ flusher = from
  /\ IF Buffered = {} /\ pending = Nothing
     THEN flusher' = next /\ UNCHANGED <<place, pending, ack>>
     ELSE /\ flusher' = to
          /\ ack' = pending
          /\ pending' = Nothing
          /\ place' = [k \in Chunks |->
                         IF k \in Buffered THEN "sending" ELSE place[k]]
  /\ UNCHANGED <<netVars, carries, mine, assigned, known, stop, flushed,
                 runVars, closeVars, linkVars>>

(* Then it sends them, out of d.mu, and does not look at the outcome.  An  *)
(* ack sent on a session that has ended is lost.                           *)
FlushSend(from, next) ==
  /\ flusher = from
  /\ flusher' = next
  /\ known' = IF Up(wireConn)
              THEN [kind \in Kinds |-> known[kind] \union ack[kind]]
              ELSE known
  /\ ack' = Nothing
  /\ place' = [k \in Chunks |-> IF k \in Sending THEN "none" ELSE place[k]]
  /\ owed' = [c \in Closers |-> owed[c] \ Sending]
  /\ UNCHANGED <<netVars, carries, mine, assigned, pending, stop, flushed,
                 runVars, cpc, tearOn, linkVars>>

(* flushAckLoop serves its ticker.                                         *)
FlushTick ==
  FlushTake("loop", "loop send", "loop") \/ FlushSend("loop send", "loop")

(* The goroutine of flushAckLoop that waits for Draining.                  *)
StopFlusher ==
  /\ flusher # "ended"
  /\ state = "Draining"
  /\ ~stop
  /\ stop' = TRUE
  /\ UNCHANGED <<netVars, chunkVars, aliasVars, flusher, flushed, runVars,
                 closeVars, linkVars>>

(* The loop is left without a last flush.                                  *)
FlushStop_Bug ==
  /\ flusher = "loop"
  /\ RunCancelled \/ stop
  /\ flusher' = "closing"
  /\ UNCHANGED <<netVars, chunkVars, aliasVars, stop, flushed, runVars,
                 closeVars, linkVars>>

(* Its context has ended: it flushes, and once more as it returns, ...     *)
FlushStop ==
  /\ flusher = "loop"
  /\ RunCancelled \/ stop
  /\ flusher' = "final"
  /\ UNCHANGED <<netVars, chunkVars, aliasVars, stop, flushed, runVars,
                 closeVars, linkVars>>

FlushFinal ==
  \/ FlushTake("final", "final send", "last")
  \/ FlushSend("final send", "last")
  \/ FlushTake("last", "last send", "closing")
  \/ FlushSend("last send", "closing")

(* ... and closes finalAckFlushed.                                         *)
FlushClose ==
  /\ flusher = "closing"
  /\ flusher' = "ended"
  /\ flushed' = TRUE
  /\ UNCHANGED <<netVars, chunkVars, aliasVars, stop, runVars, closeVars,
                 linkVars>>

-----------------------------------------------------------------------------
(* The stream's goroutine: run, wait for the connection, resume, run.      *)

RunnerFrame == UNCHANGED <<netVars, carries, mine, aliasVars>>

(* run's last goroutine sees a reconnection, ...                           *)
WatcherFires ==
  /\ watcher = "on" /\ rpc = "run"
  /\ phase = "Reconnecting"
  /\ state' = "Resuming"
  /\ watcher' = "err"
  /\ UNCHANGED <<place, flushVars, reader, rpc, closeVars, closed, wireConn>>
  /\ RunnerFrame

(* ... or the end of the stream.                                           *)
WatcherEnds ==
  /\ watcher = "on" /\ rpc = "run"
  /\ closed
  /\ watcher' = "nil"
  /\ UNCHANGED <<place, flushVars, reader, rpc, closeVars, linkVars>>
  /\ RunnerFrame

(* All goroutines of run have left.                                        *)
RunReturns ==
  /\ rpc = "run"
  /\ watcher # "on" /\ flusher = "ended" /\ reader = "ended"
  /\ rpc' = IF watcher = "err" /\ phase # "Closed" THEN "wait" ELSE "done"
  /\ UNCHANGED <<place, flushVars, reader, watcher, closeVars, linkVars>>
  /\ RunnerFrame

(* WaitUntil(connStatusConnected).                                         *)
WaitOver ==
  /\ rpc = "wait"
  /\ phase = "Connected"
  /\ rpc' = "begin"
  /\ UNCHANGED <<place, flushVars, reader, watcher, closeVars, linkVars>>
  /\ RunnerFrame

(* resume checks the stream and adopts the connection's session.           *)
ResumeBegin ==
  /\ rpc = "begin"
  /\ IF closed \/ state # "Resuming"
     THEN rpc' = "done" /\ UNCHANGED wireConn
     ELSE rpc' = "resume" /\ wireConn' = current
  /\ UNCHANGED <<place, flushVars, reader, watcher, closeVars, state, closed>>
  /\ RunnerFrame

(* finalAckFlushed is not replaced.                                        *)
NewChannels_BugKept ==
  /\ UNCHANGED <<flushed, cpc>>
  /\ place' = [k \in Chunks |-> IF place[k] = "wire" THEN "none" ELSE place[k]]

(* The stream's channels are replaced: what the run before has left in the *)
(* old dpsCh is lost, and who still waits on the old finalAckFlushed finds *)
(* it closed.                                                              *)
NewChannels ==
  /\ place' = [k \in Chunks |-> IF place[k] = "wire" THEN "none" ELSE place[k]]
  /\ flushed' = FALSE
  /\ cpc' = [c \in Closers |-> IF cpc[c] = "wait" THEN "flushed" ELSE cpc[c]]

(* The acks are not flushed on the new session.                            *)
StartRun_Bug ==
  reader' = "on" /\ watcher' = "on" /\ rpc' = "run"
    /\ UNCHANGED <<flusher, stop>>

StartRun ==
  /\ reader' = "on" /\ watcher' = "on" /\ rpc' = "run"
  /\ flusher' = "loop" /\ stop' = FALSE

(* The aliases are forgotten with the session.                             *)
KeepAliases_Bug ==
  /\ assigned' = [kind \in Kinds |-> 0]
  /\ pending' = Nothing
  /\ UNCHANGED <<ack, known>>

(* The aliases outlive the session, the broker's as well as the stream's.  *)
KeepAliases == UNCHANGED aliasVars

(* The broker has accepted the resume request.                             *)
ResumeOK ==
  /\ rpc = "resume"
  /\ Up(wireConn)
  /\ NewChannels
  /\ state' = "Connected"
  /\ StartRun
  /\ KeepAliases
  /\ UNCHANGED <<netVars, carries, mine, tearOn, owed, closed, wireConn>>

(* The goroutine gives up and leaves the stream open.                      *)
ResumeFails_Bug ==
  /\ rpc = "resume"
  /\ rpc' = "done"
  /\ UNCHANGED <<place, flushVars, reader, watcher, closeVars, linkVars>>
  /\ RunnerFrame

(* The broker refuses, or the session or the stream has ended.  After a    *)
(* conflict resume tries again, and fails: the subscription its first try  *)
(* made on the session is still there.                                     *)
ResumeFails ==
  /\ rpc = "resume"
  /\ rpc' = "tear"
  /\ UNCHANGED <<place, flushVars, reader, watcher, closeVars, linkVars>>
  /\ RunnerFrame

(* closeWithError, called by resume: the deferred cancel comes with every  *)
(* return.                                                                 *)
ResumeTearDown ==
  /\ rpc = "tear"
  /\ state' = IF closed THEN state ELSE "Draining"
  /\ \/ ~closed /\ state = "Resuming" /\ rpc' = "request" /\ UNCHANGED closed
     \/ /\ closed \/ state = "Draining"
        /\ rpc' = "done" /\ closed' = TRUE
  /\ UNCHANGED <<place, flushVars, reader, watcher, closeVars, wireConn>>
  /\ RunnerFrame

(* The CloseRequest is answered or fails.                                  *)
ResumeTornDown ==
  /\ rpc = "request"
  /\ rpc' = "done"
  /\ closed' = TRUE
  /\ UNCHANGED <<place, flushVars, reader, watcher, closeVars, state, wireConn>>
  /\ RunnerFrame

-----------------------------------------------------------------------------
(* Downstream.Close. *)

CloserFrame == UNCHANGED <<netVars, chunkVars, aliasVars, flushVars, runVars>>

CloserStep(c, from, to) ==
  /\ cpc[c] = from
  /\ cpc' = [cpc EXCEPT ![c] = to]

(* isClosed. *)
CloseBegin(c) ==
  /\ CloserStep(c, "idle", IF closed THEN "done" ELSE "swap")
  /\ UNCHANGED <<tearOn, owed, linkVars>>
  /\ CloserFrame

(* A Close that finds the stream draining is refused, and cancels it all   *)
(* the same.                                                               *)
CloseSwap(c) ==
  /\ state' = "Draining"
  /\ \/ /\ state = "Draining"
        /\ CloserStep(c, "swap", "rejected")
        /\ closed' = TRUE
        /\ UNCHANGED owed
     \/ /\ state = "Resuming"
        /\ CloserStep(c, "swap", "request")
        /\ UNCHANGED <<closed, owed>>
     \/ /\ state = "Connected"
        /\ CloserStep(c, "swap", "drain")
        /\ owed' = [owed EXCEPT ![c] = IF closed THEN {}
                                       ELSE Buffered \union Sending]
        /\ UNCHANGED closed
  /\ UNCHANGED <<tearOn, wireConn>>
  /\ CloserFrame

(* Read finalAckFlushed, whichever it is by now, ...                       *)
CloseDrain(c) ==
  /\ CloserStep(c, "drain", "wait")
  /\ UNCHANGED <<tearOn, owed, linkVars>>
  /\ CloserFrame

(* ... wait until it is closed, ...                                        *)
CloseFlushed(c) ==
  /\ flushed
  /\ CloserStep(c, "wait", "flushed")
  /\ UNCHANGED <<tearOn, owed, linkVars>>
  /\ CloserFrame

(* The wait looks at the stream's context only.                            *)
CloseGivesUp_Bug(c) ==
  /\ closed
  /\ CloserStep(c, "wait", "request")
  /\ UNCHANGED <<tearOn, owed, linkVars>>
  /\ CloserFrame

(* ... until closeTimeout is over, or until somebody cancels the stream.   *)
CloseGivesUp(c) ==
  /\ CloserStep(c, "wait", "request")
  /\ UNCHANGED <<tearOn, owed, linkVars>>
  /\ CloserFrame

(* Read the session and send the CloseRequest on it.                       *)
CloseSend(c) ==
  /\ CloserStep(c, "flushed", "sent") \/ CloserStep(c, "request", "sent")
  /\ tearOn' = [tearOn EXCEPT ![c] = wireConn]
  /\ UNCHANGED <<owed, linkVars>>
  /\ CloserFrame

(* It is answered, or it fails because the session or the caller's context *)
(* has ended.                                                              *)
CloseReturn(c) ==
  /\ CloserStep(c, "sent", "done")
  /\ closed' = TRUE
  /\ UNCHANGED <<tearOn, owed, state, wireConn>>
  /\ CloserFrame

-----------------------------------------------------------------------------
ReadNext(k) ==
  \/ \E kind \in {"upstream", "data"} : Assign(k, kind) \/ PushAlias(k, kind)
  \/ PushResult(k)

FlusherNext == StopFlusher \/ FlushTick \/ FlushStop \/ FlushFinal \/ FlushClose

RunnerNext ==
  \/ WatcherFires \/ WatcherEnds \/ RunReturns \/ WaitOver
  \/ ResumeBegin \/ ResumeOK \/ ResumeFails
  \/ ResumeTearDown \/ ResumeTornDown

CloserNext(c) ==
  \/ CloseBegin(c) \/ CloseSwap(c) \/ CloseDrain(c) \/ CloseFlushed(c)
  \/ CloseGivesUp(c) \/ CloseSend(c) \/ CloseReturn(c)

Next ==
  \/ Connection \/ CancelByConn
  \/ \E k \in Chunks : Deliver(k) \/ HandOver(k) \/ ReadTake(k) \/ ReadNext(k)
  \/ ReaderEnds
  \/ FlusherNext
  \/ RunnerNext
  \/ \E c \in Closers : CloserNext(c)

Spec == Init /\ [][Next]_vars

(* Goroutines keep running, a request is answered or fails, and the ticker *)
(* of flushAckLoop ticks.  Nothing is assumed of the connection, of the    *)
(* broker's chunks, of who calls ReadDataPoints or Close, or of closeTimeout.*)
Fairness ==
  /\ WF_vars(CancelByConn)
  /\ \A k \in Chunks : WF_vars(ReadNext(k))
  /\ WF_vars(ReaderEnds)
  /\ WF_vars(FlushTick) /\ SF_vars(FlushStop)
  /\ WF_vars(StopFlusher)
  /\ WF_vars(FlushFinal \/ FlushClose)
  /\ WF_vars(WatcherFires \/ WatcherEnds)
  /\ WF_vars(RunReturns \/ WaitOver \/ ResumeBegin \/ ResumeOK \/ ResumeFails
              \/ ResumeTearDown \/ ResumeTornDown)
  /\ \A c \in Closers :
       WF_vars(CloseSwap(c) \/ CloseDrain(c) \/ CloseFlushed(c)
                \/ CloseSend(c) \/ CloseReturn(c))

FairSpec == Spec /\ Fairness

-----------------------------------------------------------------------------
(* Properties.                                                              *)

(* ReadDataPoints never refuses a chunk for an alias it does not know: the *)
(* aliases of a stream survive its sessions, and none is announced before  *)
(* it is in the table, however readers, acks and resumes interleave        *)
(* (downstream.go:452-458, 474-483).                                       *)
AliasesResolve == \A k \in Chunks : place[k] # "failed"

(* finalAckFlushed is closed once: a second close of the channel would     *)
(* panic, and every run closes one (downstream.go:279-283, 631-633).       *)
FlushedClosedOnce == flusher = "closing" => ~flushed

(* A Close that was let through by finalAckFlushed asks the broker to      *)
(* close the stream only after the result of every chunk the application   *)
(* had read by the time it began to drain has been sent, unless the stream *)
(* was cancelled by then, whatever session or run the channel belongs to   *)
(* (downstream.go:125-140, 284, 307-309).                                  *)
FinalFlush == \A c \in Closers : cpc[c] = "flushed" => owed[c] = {}

(* The upstream has one alias, as an upstream that has one is taken for    *)
(* already assigned (downstream.go:536-541).                               *)
OneUpstreamAlias == assigned["upstream"] <= 1

(* The timer of the wait for the final flush fires.                        *)
TimersFire == \A c \in Closers : WF_vars(CloseGivesUp(c))

(* Close returns, even if its Draining was overwritten by a resume so that *)
(* no flush is ever the final one (downstream.go:132-139, 268, 660).       *)
CloseReturns == \A c \in Closers : cpc[c] = "drain" ~> cpc[c] = "done"

(* A stream whose goroutine has left is cancelled: nobody blocks for ever  *)
(* in ReadDataPoints on a stream that no loop serves.                      *)
DeadStreamIsClosed == rpc = "done" ~> closed

(* A stream that is closed, or that has given up, comes to its end.        *)
Terminates == TimersFire => CloseReturns /\ DeadStreamIsClosed

(* The stream runs on a session that lives.                                *)
Stable ==
  /\ phase = "Connected" /\ up /\ wireConn = current
  /\ rpc = "run" /\ watcher = "on" /\ ~closed

(* When the stream at last runs on a session that stays alive, the results *)
(* that wait in the buffer are sent, those left there by an earlier run or *)
(* by a reader that outlived it included.                                  *)
ResultsSentWhenStable ==
  <>[]Stable =>
    \A k \in Chunks : place[k] = "buffered" ~> place[k] # "buffered"

=============================================================================
