--------------------------- MODULE UpstreamProofs ---------------------------
(***************************************************************************)
(* Proofs about Upstream for every set of sessions and closers, every last *)
(* sequence number, and every connection that keeps ConnPromise.           *)
(***************************************************************************)
EXTENDS Upstream, TLAPS

USE UpstreamAssumption DEF
  SeqNums, Waiters, netVars, bufVars, runVars, closeVars, brokerVars, linkVars,
  sendVars, RunnerVars, CloserVars

(* Every variable has its type initially, ...                              *)
LEMMA InitTypes == Init => TypeOK
<1> SUFFICES ASSUME Init PROVE TypeOK
  OBVIOUS
<1>1. LinkTypes
  BY DEF Init, Net!Init, LinkTypes
<1>2. BufferTypes
  <2>1. waiter \in [SeqNums -> {"none"} \union Waiters]
    BY DEF Init
  <2>2. full \in [Waiters -> SUBSET SeqNums]
    BY DEF Init
  <2>3. seq = 0 /\ buffered = FALSE /\ lastAcked = TRUE
    BY DEF Init
  <2>4. sent = {} /\ toSend = {} /\ awaiting = {}
    BY DEF Init
  <2>5. buffered \in BOOLEAN /\ lastAcked \in BOOLEAN
    BY <2>3
  <2>6. 0 \in 0..MaxSeq
    OBVIOUS
  <2> HIDE DEF SeqNums, Waiters
  <2> QED BY <2>1, <2>2, <2>3, <2>4, <2>5, <2>6 DEF BufferTypes
<1>3. GoroutineTypes
  BY DEF Init, GoroutineTypes, RunnerPC, FlusherPC, CloserPC
<1>4. BrokerTypes /\ CloseTypes
  BY DEF Init, BrokerTypes, CloseTypes
<1> QED BY <1>1, <1>2, <1>3, <1>4 DEF TypeOK

(* The two operators through which the actions change the buffers.         *)
LEMMA IssueTypes ==
  ASSUME LinkTypes, BufferTypes, IssueChunk
  PROVE  BufferTypes'
<1> USE DEF LinkTypes, BufferTypes, IssueChunk, Issue
<1>1. seq + 1 \in SeqNums
  OBVIOUS
<1>2. [seq |-> seq + 1, alias |-> alias] \in [seq : SeqNums, alias : Sessions]
  BY <1>1
<1>3. waiter' \in [SeqNums -> {"none"} \union Waiters]
  BY <1>1
<1>4. toSend' \subseteq [seq : SeqNums, alias : Sessions]
  BY <1>2
<1> HIDE DEF IssueChunk, Issue
<1>5. /\ buffered' \in BOOLEAN /\ lastAcked' \in BOOLEAN
      /\ seq' \in SeqNums /\ sent' \subseteq SeqNums
      /\ UNCHANGED <<full, awaiting>>
  BY <1>1 DEF IssueChunk, Issue
<1> QED BY <1>3, <1>4, <1>5

LEMMA ChannelTypes ==
  ASSUME NEW reg \in [SeqNums -> {"none"} \union Waiters],
         NEW res \in [Waiters -> SUBSET SeqNums],
         NEW wait \in SUBSET SeqNums,
         Channels(reg, res, wait)
  PROVE  /\ waiter' \in [SeqNums -> {"none"} \union Waiters]
         /\ full' \in [Waiters -> SUBSET SeqNums]
         /\ awaiting' \in SUBSET SeqNums
BY DEF Channels

(* The steps of closeWithError. *)
LEMMA TearTypes ==
  ASSUME LinkTypes, CloseTypes,
         TearDown \/ TornDown \/ TearDownOK \/ TearDownFails
  PROVE  CloseTypes'
<1> USE DEF LinkTypes, CloseTypes
<1>1. CASE TearDown
  BY <1>1 DEF TearDown
<1>2. CASE TornDown
  BY <1>2 DEF TornDown
<1>3. CASE TearDownOK
  BY <1>3 DEF TearDownOK
<1>4. CASE TearDownFails
  BY <1>4 DEF TearDownFails
<1> QED BY <1>1, <1>2, <1>3, <1>4

(* The closers that Broadcast wakes. *)
LEMMA WokenTypes ==
  ASSUME GoroutineTypes
  PROVE  Woken \in [Closers -> CloserPC]
BY DEF GoroutineTypes, Woken, CloserPC

(* ... and keeps it in every step: the variables of the connection and of  *)
(* the stream's state, ...                                                 *)
LEMMA LinkStep ==
  ASSUME TypeOK, [Next]_vars
  PROVE  LinkTypes'
<1> USE DEF TypeOK, LinkTypes
<1>1. CASE Connection
  BY <1>1 DEF Connection, Net!Next, Net!End, Net!Suspend, Net!Install,
     Net!Shut
<1>2. CASE CancelByConn
  BY <1>2 DEF CancelByConn
<1>3. CASE FlusherNext
  BY <1>3 DEF FlusherNext, WriteTaken, FlushTick, FlushLast, FlushTearDown,
     FlushTornDown
<1>4. CASE SenderNext
  BY <1>4 DEF SenderNext, SendChunk, SendAcked, SendGivesUp
<1>5. CASE ReaderNext
  BY <1>5 DEF ReaderNext, AckRemove, AckDeliver, AckDelivered, ReaderEnds
<1>6. CASE ResendNow \/ ResendAcked \/ ResendTimeout
  BY <1>6 DEF ResendNow, ResendAcked, ResendTimeout, ResendList, ResendSent,
     ResendFails, ResendEnds, ClearSent, ResendNext
<1>7. CASE RunnerNext
  BY <1>7 DEF RunnerNext, WatcherFires, WatcherEnds, RunReturns, WaitOver,
     ResumeBegin, ResumeOK, ResumeFails, ResumeTearDown, ResumeTornDown
<1>8. ASSUME NEW c \in Closers, CloserNext(c) PROVE LinkTypes'
  BY <1>8 DEF CloserNext, CloseSwap, FlushServed, FlushFails, DrainCheck,
     DrainLock, DrainList, DrainSize, DrainPark, Watchdog, CloseTearDown,
     CloseTornDown
<1>9. CASE UNCHANGED vars
  BY <1>9 DEF vars
<1> QED BY <1>1, <1>2, <1>3, <1>4, <1>5, <1>6, <1>7, <1>8, <1>9 DEF Next

(* the buffers, ... *)
LEMMA BufferStep ==
  ASSUME TypeOK, [Next]_vars
  PROVE  BufferTypes'
<1> USE DEF TypeOK, BufferTypes
<1>1. CASE Connection
  BY <1>1 DEF Connection
<1>2. CASE CancelByConn
  BY <1>2 DEF CancelByConn
<1>3. CASE FlusherNext
  BY <1>3, IssueTypes DEF FlusherNext, WriteTaken, FlushTick, FlushLast,
     FlushTearDown, FlushTornDown
<1>4. CASE SenderNext
  BY <1>4, ChannelTypes DEF SenderNext, SendChunk, SendAcked, SendGivesUp,
     NoteAcked
<1>5. CASE ReaderNext
  <2> USE DEF GoroutineTypes
  <2>1. ASSUME NEW n \in SeqNums, AckRemove(n) PROVE BufferTypes'
    BY <2>1 DEF AckRemove
  <2>2. CASE AckDeliver
    <3>1. reader.ack \in SeqNums
      BY <2>2 DEF AckDeliver, AckDelivered
    <3> QED BY <2>2, <3>1, ChannelTypes DEF AckDeliver, AckDelivered, Deliver
  <2>3. CASE ReaderEnds
    BY <2>3, ChannelTypes DEF ReaderEnds
  <2> QED BY <1>5, <2>1, <2>2, <2>3 DEF ReaderNext
<1>6. CASE ResendNow \/ ResendAcked \/ ResendTimeout
  BY <1>6, ChannelTypes DEF ResendNow, ResendAcked, ResendTimeout,
     ResendList, ResendSent, ResendFails, ResendEnds, ClearSent, ResendNext,
     NoteAcked, GoroutineTypes
<1>7. CASE RunnerNext
  BY <1>7 DEF RunnerNext, WatcherFires, WatcherEnds, RunReturns, WaitOver,
     ResumeBegin, ResumeOK, ResumeFails, ResumeTearDown, ResumeTornDown
<1>8. ASSUME NEW c \in Closers, CloserNext(c) PROVE BufferTypes'
  <2>1. CASE FlushServed(c)
    BY <2>1, IssueTypes DEF FlushServed
  <2>2. CASE CloseSwap(c) \/ FlushFails(c) \/ DrainCheck(c) \/ DrainLock(c)
               \/ DrainList(c) \/ DrainSize(c) \/ DrainPark(c)
    BY <2>2 DEF CloseSwap, FlushFails, DrainCheck, DrainLock, DrainList,
       DrainSize, DrainPark
  <2>3. CASE Watchdog(c) \/ CloseTearDown(c) \/ CloseTornDown(c)
    BY <2>3 DEF Watchdog, CloseTearDown, CloseTornDown
  <2> QED BY <1>8, <2>1, <2>2, <2>3 DEF CloserNext
<1>9. CASE UNCHANGED vars
  BY <1>9 DEF vars
<1> QED BY <1>1, <1>2, <1>3, <1>4, <1>5, <1>6, <1>7, <1>8, <1>9 DEF Next

(* the broker's, ... *)
LEMMA BrokerStep ==
  ASSUME TypeOK, [Next]_vars
  PROVE  BrokerTypes'
<1> USE DEF TypeOK, BrokerTypes
<1>1. CASE Connection
  BY <1>1 DEF Connection
<1>2. CASE CancelByConn
  BY <1>2 DEF CancelByConn
<1>3. CASE FlusherNext
  BY <1>3 DEF FlusherNext, WriteTaken, FlushTick, FlushLast, FlushTearDown,
     FlushTornDown
<1>4. CASE SenderNext
  <2>1. ASSUME NEW n \in SeqNums, Receives(n) PROVE BrokerTypes'
    BY <2>1 DEF Receives
  <2>2. ASSUME UNCHANGED brokerVars PROVE BrokerTypes'
    BY <2>2 DEF brokerVars
  <2>3. toSend \subseteq [seq : SeqNums, alias : Sessions]
    BY DEF BufferTypes
  <2> QED BY <1>4, <2>1, <2>2, <2>3 DEF SenderNext, SendChunk, SendAcked,
             SendGivesUp, brokerVars
<1>5. CASE ReaderNext
  BY <1>5 DEF ReaderNext, AckRemove, AckDeliver, AckDelivered, ReaderEnds
<1>6. CASE ResendNow \/ ResendAcked \/ ResendTimeout
  <2>1. resend.pc = "send" => resend.cur \in SeqNums
    BY DEF GoroutineTypes
  <2> QED BY <1>6, <2>1 DEF ResendNow, ResendAcked, ResendTimeout, ResendList,
             ResendSent, ResendFails, ResendEnds, ClearSent, ResendNext,
             Receives
<1>7. CASE RunnerNext
  BY <1>7 DEF RunnerNext, WatcherFires, WatcherEnds, RunReturns, WaitOver,
     ResumeBegin, ResumeOK, ResumeFails, ResumeTearDown, ResumeTornDown
<1>8. ASSUME NEW c \in Closers, CloserNext(c) PROVE BrokerTypes'
  BY <1>8 DEF CloserNext, CloseSwap, FlushServed, FlushFails, DrainCheck,
     DrainLock, DrainList, DrainSize, DrainPark, Watchdog, CloseTearDown,
     CloseTornDown
<1>9. CASE UNCHANGED vars
  BY <1>9 DEF vars
<1> QED BY <1>1, <1>2, <1>3, <1>4, <1>5, <1>6, <1>7, <1>8, <1>9 DEF Next

(* the program counters, ... *)
LEMMA GoroutineStep ==
  ASSUME TypeOK, [Next]_vars
  PROVE  GoroutineTypes'
<1> USE DEF TypeOK, GoroutineTypes
<1>1. CASE Connection
  BY <1>1 DEF Connection
<1>2. CASE CancelByConn
  BY <1>2 DEF CancelByConn
<1>3. CASE FlusherNext
  BY <1>3 DEF FlusherNext, WriteTaken, FlushTick, FlushLast, FlushTearDown,
     FlushTornDown, FlusherPC
<1>4. CASE SenderNext
  BY <1>4 DEF SenderNext, SendChunk, SendAcked, SendGivesUp
<1>5. CASE ReaderNext
  <2>1. ASSUME NEW n \in SeqNums, AckRemove(n) PROVE GoroutineTypes'
    BY <2>1 DEF AckRemove
  <2>2. CASE AckDeliver
    BY <2>2, WokenTypes DEF AckDeliver, AckDelivered
  <2>3. CASE ReaderEnds
    BY <2>3 DEF ReaderEnds
  <2> QED BY <1>5, <2>1, <2>2, <2>3 DEF ReaderNext
<1>6. CASE ResendNow \/ ResendAcked \/ ResendTimeout
  <2>1. ASSUME NEW n \in SeqNums, ResendNext(n) PROVE GoroutineTypes'
    BY <2>1 DEF ResendNext
  <2>2. CASE ResendList \/ ResendEnds \/ ClearSent
    BY <2>2 DEF ResendList, ResendEnds, ClearSent, BufferTypes
  <2>3. CASE ResendSent \/ ResendFails
    BY <2>3 DEF ResendSent, ResendFails
  <2>4. CASE ResendAcked \/ ResendTimeout
    BY <2>4 DEF ResendAcked, ResendTimeout
  <2> QED BY <1>6, <2>1, <2>2, <2>3, <2>4 DEF ResendNow
<1>7. CASE RunnerNext
  BY <1>7 DEF RunnerNext, WatcherFires, WatcherEnds, RunReturns, WaitOver,
     ResumeBegin, ResumeOK, ResumeFails, ResumeTearDown, ResumeTornDown,
     RunnerPC, FlusherPC, StartRun
<1>8. ASSUME NEW c \in Closers, CloserNext(c) PROVE GoroutineTypes'
  <2>1. ASSUME NEW from, NEW to \in CloserPC, CloserStep(c, from, to)
        PROVE  cpc' \in [Closers -> CloserPC]
    BY <2>1 DEF CloserStep
  <2>2. cpc' \in [Closers -> CloserPC]
    <3>1. CASE Watchdog(c)
      BY <3>1, WokenTypes DEF Watchdog, CloserPC
    <3>2. CASE CloseSwap(c) \/ FlushServed(c) \/ FlushFails(c)
      BY <2>1, <3>2 DEF CloseSwap, FlushServed, FlushFails, CloserPC,
                        LinkTypes
    <3>3. CASE DrainCheck(c) \/ DrainLock(c) \/ DrainList(c) \/ DrainSize(c)
      BY <2>1, <3>3 DEF DrainCheck, DrainLock, DrainList, DrainSize, CloserPC
    <3>4. CASE DrainPark(c) \/ CloseTearDown(c) \/ CloseTornDown(c)
      BY <2>1, <3>4 DEF DrainPark, CloseTearDown, CloseTornDown, CloserPC
    <3> QED BY <1>8, <3>1, <3>2, <3>3, <3>4 DEF CloserNext
  <2>3. CASE FlushServed(c)
    BY <2>2, <2>3 DEF FlushServed, FlusherPC
  <2> QED BY <1>8, <2>2, <2>3 DEF CloserNext, CloseSwap, FlushFails,
             DrainCheck, DrainLock, DrainList, DrainSize, DrainPark, Watchdog,
             CloseTearDown, CloseTornDown
<1>9. CASE UNCHANGED vars
  BY <1>9 DEF vars
<1> QED BY <1>1, <1>2, <1>3, <1>4, <1>5, <1>6, <1>7, <1>8, <1>9 DEF Next

(* and those of closeWithError. *)
LEMMA CloseStep ==
  ASSUME TypeOK, [Next]_vars
  PROVE  CloseTypes'
<1> USE DEF TypeOK, CloseTypes
<1>1. CASE Connection
  BY <1>1 DEF Connection
<1>2. CASE CancelByConn
  BY <1>2 DEF CancelByConn
<1>3. CASE FlusherNext
  BY <1>3, TearTypes DEF FlusherNext, WriteTaken, FlushTick, FlushLast,
     FlushTearDown, FlushTornDown
<1>4. CASE SenderNext
  BY <1>4 DEF SenderNext, SendChunk, SendAcked, SendGivesUp
<1>5. CASE ReaderNext
  BY <1>5 DEF ReaderNext, AckRemove, AckDeliver, AckDelivered, ReaderEnds
<1>6. CASE ResendNow \/ ResendAcked \/ ResendTimeout
  BY <1>6 DEF ResendNow, ResendAcked, ResendTimeout, ResendList, ResendSent,
     ResendFails, ResendEnds, ClearSent, ResendNext
<1>7. CASE RunnerNext
  BY <1>7, TearTypes DEF RunnerNext, WatcherFires, WatcherEnds, RunReturns,
     WaitOver, ResumeBegin, ResumeOK, ResumeFails, ResumeTearDown,
     ResumeTornDown
<1>8. ASSUME NEW c \in Closers, CloserNext(c) PROVE CloseTypes'
  BY <1>8, TearTypes DEF CloserNext, CloseSwap, FlushServed, FlushFails,
     DrainCheck, DrainLock, DrainList, DrainSize, DrainPark, Watchdog,
     CloseTearDown, CloseTornDown
<1>9. CASE UNCHANGED vars
  BY <1>9 DEF vars
<1> QED BY <1>1, <1>2, <1>3, <1>4, <1>5, <1>6, <1>7, <1>8, <1>9 DEF Next

(* Every step keeps the types.                                             *)
LEMMA TypesStep ==
  ASSUME TypeOK, [Next]_vars
  PROVE  TypeOK'
BY LinkStep, BufferStep, BrokerStep, GoroutineStep, CloseStep DEF TypeOK

-----------------------------------------------------------------------------
(* The chunks and the channels of their results.                           *)

(* Every set of chunks holds numbers that have been issued, and a channel  *)
(* is registered empty and forgotten when it is filled.                    *)
ChannelInv ==
  /\ \A n \in SeqNums : waiter[n] # "none" => n <= seq
  /\ \A w \in Waiters : full[w] \subseteq 1..seq
  /\ AckNeverBlocks

(* What sentBuf holds and what the resending goroutine has read from it.   *)
SentInv == sent \subseteq 1..seq /\ resend.todo \subseteq 1..seq

LEMMA IssueKeepsChannels ==
  ASSUME LinkTypes, BufferTypes, ChannelInv, IssueChunk
  PROVE  ChannelInv'
<1> USE DEF BufferTypes, ChannelInv, AckNeverBlocks, IssueChunk, Issue
<1>1. \A w \in Waiters : seq + 1 \notin full[w]
  OBVIOUS
<1>2. \A n \in SeqNums : waiter'[n] = IF n = seq + 1 THEN "flush" ELSE waiter[n]
  OBVIOUS
<1> QED BY <1>1, <1>2

LEMMA ChannelsKeep ==
  ASSUME BufferTypes,
         NEW reg \in [SeqNums -> {"none"} \union Waiters],
         NEW res \in [Waiters -> SUBSET SeqNums],
         NEW wait \in SUBSET SeqNums,
         \A n \in SeqNums : reg[n] # "none" => n <= seq /\ n \notin res[reg[n]],
         \A w \in Waiters : res[w] \subseteq 1..seq,
         Channels(reg, res, wait), seq' = seq
  PROVE  ChannelInv'
BY DEF BufferTypes, ChannelInv, AckNeverBlocks, Channels

LEMMA ChannelsKept ==
  ASSUME BufferTypes, ChannelInv, NEW wait \in SUBSET SeqNums,
         Channels(waiter, full, wait), seq' = seq
  PROVE  ChannelInv'
<1>1. /\ \A n \in SeqNums :
           waiter[n] # "none" => n <= seq /\ n \notin full[waiter[n]]
      /\ \A w \in Waiters : full[w] \subseteq 1..seq
  BY DEF ChannelInv, AckNeverBlocks
<1>2. /\ waiter \in [SeqNums -> {"none"} \union Waiters]
      /\ full \in [Waiters -> SUBSET SeqNums]
  BY DEF BufferTypes
<1> QED BY <1>1, <1>2, ChannelsKeep

(* No step registers a full channel or fills a registered one.             *)
LEMMA ChannelStep ==
  ASSUME TypeOK, SentInv, ChannelInv, [Next]_vars
  PROVE  ChannelInv'
<1> USE DEF TypeOK, BufferTypes, ChannelInv, AckNeverBlocks
<1>1. CASE Connection
  BY <1>1 DEF Connection
<1>2. CASE CancelByConn
  BY <1>2 DEF CancelByConn
<1>3. CASE FlusherNext
  BY <1>3, IssueKeepsChannels DEF FlusherNext, WriteTaken, FlushTick,
     FlushLast, FlushTearDown, FlushTornDown
<1>4. CASE SenderNext
  <2>1. ASSUME NEW m \in toSend, SendChunk(m) PROVE ChannelInv'
    <3>1. awaiting \union {m.seq} \in SUBSET SeqNums
      OBVIOUS
    <3> QED BY <2>1, <3>1, ChannelsKept DEF SendChunk
  <2>2. ASSUME NEW n \in SeqNums, SendAcked(n) \/ SendGivesUp(n)
        PROVE  ChannelInv'
    <3>1. awaiting \ {n} \in SUBSET SeqNums
      OBVIOUS
    <3> QED BY <2>2, <3>1, ChannelsKept DEF SendAcked, SendGivesUp
  <2> QED BY <1>4, <2>1, <2>2 DEF SenderNext
<1>5. CASE ReaderNext
  <2>1. ASSUME NEW n \in SeqNums, AckRemove(n) PROVE ChannelInv'
    BY <2>1 DEF AckRemove
  <2>2. CASE AckDeliver
    <3> DEFINE n == reader.ack
               w == waiter[n]
               reg == [waiter EXCEPT ![n] = "none"]
               res == [full EXCEPT ![w] = @ \union {n}]
    <3>1. n \in SeqNums
      BY <2>2 DEF AckDeliver, AckDelivered, GoroutineTypes
    <3>2. /\ reg \in [SeqNums -> {"none"} \union Waiters]
          /\ res \in [Waiters -> SUBSET SeqNums]
          /\ awaiting \in SUBSET SeqNums
      BY <3>1
    <3>3. ASSUME Channels(reg, full, awaiting) PROVE ChannelInv'
      BY <2>2, <3>1, <3>2, <3>3, ChannelsKeep DEF AckDeliver, AckDelivered
    <3>4. ASSUME w # "none", Channels(reg, res, awaiting) PROVE ChannelInv'
      <4>1. \A k \in SeqNums :
              reg[k] # "none" => k <= seq /\ k \notin res[reg[k]]
        BY <3>1, <3>4
      <4>2. \A v \in Waiters : res[v] \subseteq 1..seq
        BY <3>1, <3>4
      <4> QED BY <2>2, <3>2, <3>4, <4>1, <4>2, ChannelsKeep
              DEF AckDeliver, AckDelivered
    <3> QED BY <2>2, <3>3, <3>4 DEF AckDeliver, AckDelivered, Deliver
  <2>3. CASE ReaderEnds
    <3> DEFINE reg == [n \in SeqNums |-> "none"]
    <3>1. Channels(reg, full, awaiting) /\ seq' = seq
      BY <2>3 DEF ReaderEnds
    <3>2. reg \in [SeqNums -> {"none"} \union Waiters]
      OBVIOUS
    <3> QED BY <3>1, <3>2, ChannelsKeep
  <2> QED BY <1>5, <2>1, <2>2, <2>3 DEF ReaderNext
<1>6. CASE ResendNow \/ ResendAcked \/ ResendTimeout
  <2>1. ASSUME NEW n \in SeqNums, ResendNext(n) PROVE ChannelInv'
    <3> DEFINE reg == [waiter EXCEPT ![n] = "resend"]
               res == [full EXCEPT !["resend"] = @ \ {n}]
    <3>1. Channels(reg, res, awaiting) /\ seq' = seq /\ n <= seq
      BY <2>1 DEF ResendNext, SentInv
    <3>2. /\ reg \in [SeqNums -> {"none"} \union Waiters]
          /\ res \in [Waiters -> SUBSET SeqNums]
      OBVIOUS
    <3>3. \A k \in SeqNums :
            reg[k] # "none" => k <= seq /\ k \notin res[reg[k]]
      BY <3>1
    <3>4. \A v \in Waiters : res[v] \subseteq 1..seq
      OBVIOUS
    <3> QED BY <3>1, <3>2, <3>3, <3>4, ChannelsKeep
  <2>2. CASE ResendFails
    <3> DEFINE reg == [waiter EXCEPT ![resend.cur] = "none"]
    <3>1. Channels(reg, full, awaiting) /\ seq' = seq
      BY <2>2 DEF ResendFails
    <3>2. reg \in [SeqNums -> {"none"} \union Waiters]
      OBVIOUS
    <3>3. \A k \in SeqNums :
            reg[k] # "none" => k <= seq /\ k \notin full[reg[k]]
      OBVIOUS
    <3> QED BY <3>1, <3>2, <3>3, ChannelsKeep
  <2>3. CASE ResendAcked \/ ResendTimeout
    BY <2>3, ChannelsKept DEF ResendAcked, ResendTimeout
  <2>4. CASE ResendList \/ ResendSent \/ ResendEnds \/ ClearSent
    BY <2>4 DEF ResendList, ResendSent, ResendEnds, ClearSent
  <2> QED BY <1>6, <2>1, <2>2, <2>3, <2>4 DEF ResendNow
<1>7. CASE RunnerNext
  BY <1>7 DEF RunnerNext, WatcherFires, WatcherEnds, RunReturns, WaitOver,
     ResumeBegin, ResumeOK, ResumeFails, ResumeTearDown, ResumeTornDown
<1>8. ASSUME NEW c \in Closers, CloserNext(c) PROVE ChannelInv'
  BY <1>8, IssueKeepsChannels DEF CloserNext, CloseSwap, FlushServed,
     FlushFails, DrainCheck, DrainLock, DrainList, DrainSize, DrainPark,
     Watchdog, CloseTearDown, CloseTornDown
<1>9. CASE UNCHANGED vars
  BY <1>9 DEF vars
<1> QED BY <1>1, <1>2, <1>3, <1>4, <1>5, <1>6, <1>7, <1>8, <1>9 DEF Next

LEMMA IssueKeepsSent ==
  ASSUME BufferTypes, SentInv, IssueChunk, UNCHANGED resend
  PROVE  SentInv'
<1>1. 1..seq \subseteq 1..(seq + 1) /\ seq + 1 \in 1..(seq + 1)
  BY DEF BufferTypes
<1> QED BY <1>1 DEF SentInv, IssueChunk, Issue

(* sentBuf and the resend list hold numbers that have been issued.         *)
LEMMA SentStep ==
  ASSUME TypeOK, SentInv, [Next]_vars
  PROVE  SentInv'
<1> USE DEF TypeOK, BufferTypes, SentInv
<1>1. CASE Connection
  BY <1>1 DEF Connection
<1>2. CASE CancelByConn
  BY <1>2 DEF CancelByConn
<1>3. CASE FlusherNext
  BY <1>3, IssueKeepsSent DEF FlusherNext, WriteTaken, FlushTick, FlushLast,
     FlushTearDown,
     FlushTornDown
<1>4. CASE SenderNext
  BY <1>4 DEF SenderNext, SendChunk, SendAcked, SendGivesUp
<1>5. CASE ReaderNext
  BY <1>5 DEF ReaderNext, AckRemove, AckDeliver, AckDelivered, ReaderEnds
<1>6. CASE ResendNow \/ ResendAcked \/ ResendTimeout
  <2>1. ASSUME NEW n \in SeqNums, ResendNext(n) PROVE SentInv'
    BY <2>1 DEF ResendNext
  <2>2. CASE ResendList \/ ResendEnds \/ ClearSent
    BY <2>2 DEF ResendList, ResendEnds, ClearSent, GoroutineTypes
  <2>3. CASE ResendSent \/ ResendFails
    BY <2>3 DEF ResendSent, ResendFails, GoroutineTypes
  <2>4. CASE ResendAcked \/ ResendTimeout
    <3>1. resend'.todo = resend.todo
      BY <2>4 DEF ResendAcked, ResendTimeout
    <3>2. UNCHANGED <<sent, seq>>
      BY <2>4 DEF ResendAcked, ResendTimeout
    <3> QED BY <3>1, <3>2
  <2> QED BY <1>6, <2>1, <2>2, <2>3, <2>4 DEF ResendNow
<1>7. CASE RunnerNext
  <2>1. CASE ResumeOK
    <3>1. resend'.todo = {} /\ UNCHANGED <<sent, seq>>
      BY <2>1 DEF ResumeOK, StartRun
    <3> QED BY <3>1
  <2>2. CASE RunnerNext /\ ~ResumeOK
    BY <2>2 DEF RunnerNext, WatcherFires, WatcherEnds, RunReturns, WaitOver,
       ResumeBegin, ResumeFails, ResumeTearDown, ResumeTornDown
  <2> QED BY <1>7, <2>1, <2>2
<1>8. ASSUME NEW c \in Closers, CloserNext(c) PROVE SentInv'
  BY <1>8, IssueKeepsSent DEF CloserNext, CloseSwap, FlushServed, FlushFails,
     DrainCheck,
     DrainLock, DrainList, DrainSize, DrainPark, Watchdog, CloseTearDown,
     CloseTornDown
<1>9. CASE UNCHANGED vars
  BY <1>9 DEF vars
<1> QED BY <1>1, <1>2, <1>3, <1>4, <1>5, <1>6, <1>7, <1>8, <1>9 DEF Next

-----------------------------------------------------------------------------
(* Nothing is forgotten that the broker has not received.                  *)

(* The broker acknowledges what it has received, and the step that forgets *)
(* unacknowledged chunks is not taken by a reliable stream.                *)
AckInv ==
  /\ acks \subseteq received
  /\ resend.pc = "clear" => qos # "Reliable"
  /\ UnackedKept

LEMMA AckStep ==
  ASSUME TypeOK, AckInv, [Next]_vars
  PROVE  AckInv'
<1> USE DEF TypeOK, AckInv, UnackedKept
<1>1. CASE Connection
  BY <1>1 DEF Connection
<1>2. CASE CancelByConn
  BY <1>2 DEF CancelByConn
<1>3. CASE FlusherNext
  BY <1>3 DEF FlusherNext, WriteTaken, FlushTick, FlushLast, FlushTearDown,
     FlushTornDown, IssueChunk, Issue, BufferTypes
<1>4. CASE SenderNext
  BY <1>4 DEF SenderNext, SendChunk, SendAcked, SendGivesUp, Receives
<1>5. CASE ReaderNext
  BY <1>5 DEF ReaderNext, AckRemove, AckDeliver, AckDelivered, ReaderEnds
<1>6. CASE ResendNow \/ ResendAcked \/ ResendTimeout
  <2> USE DEF GoroutineTypes
  <2>1. ASSUME NEW n \in SeqNums, ResendNext(n) PROVE AckInv'
    BY <2>1 DEF ResendNext
  <2>2. CASE ResendList \/ ResendEnds \/ ClearSent
    BY <2>2 DEF ResendList, ResendEnds, ClearSent
  <2>3. CASE ResendSent
    BY <2>3 DEF ResendSent, Receives
  <2>4. CASE ResendFails
    BY <2>4 DEF ResendFails, Receives
  <2>5. CASE ResendAcked \/ ResendTimeout
    BY <2>5 DEF ResendAcked, ResendTimeout
  <2> QED BY <1>6, <2>1, <2>2, <2>3, <2>4, <2>5 DEF ResendNow
<1>7. CASE RunnerNext
  BY <1>7 DEF RunnerNext, WatcherFires, WatcherEnds, RunReturns, WaitOver,
     ResumeBegin, ResumeOK, ResumeFails, ResumeTearDown, ResumeTornDown,
     StartRun
<1>8. ASSUME NEW c \in Closers, CloserNext(c) PROVE AckInv'
  BY <1>8 DEF CloserNext, CloseSwap, FlushServed, FlushFails, DrainCheck,
     DrainLock, DrainList, DrainSize, DrainPark, Watchdog, CloseTearDown,
     CloseTornDown, IssueChunk, Issue, BufferTypes
<1>9. CASE UNCHANGED vars
  BY <1>9 DEF vars
<1> QED BY <1>1, <1>2, <1>3, <1>4, <1>5, <1>6, <1>7, <1>8, <1>9 DEF Next

-----------------------------------------------------------------------------
(* One tear-down. *)

(* Who waits for the answer to a CloseRequest: the stream's goroutine, its *)
(* flushLoop or a closer.                                                  *)
FlusherTears == flusher \in {"request", "lastRequest"}
CloserTears  == \E c \in Closers : cpc[c] = "request"

(* At most one of them, which has made the only request and has not yet    *)
(* raised the event.                                                       *)
TearInv ==
  /\ rpc = "request" => ~FlusherTears /\ ~CloserTears
  /\ FlusherTears => ~CloserTears
  /\ \A c, d \in Closers : cpc[c] = "request" /\ cpc[d] = "request" => c = d
  /\ rpc = "request" \/ FlusherTears \/ CloserTears => requested /\ events = 0
  /\ requests = IF requested THEN 1 ELSE 0
  /\ events \in {0, 1}
  /\ events = 1 => closed /\ requested

(* A step that neither starts nor ends a tear-down.                        *)
LEMMA TearSame ==
  ASSUME TearInv, UNCHANGED <<closed, requested, requests, events>>,
         rpc' = "request" <=> rpc = "request",
         FlusherTears' <=> FlusherTears,
         \A c \in Closers : cpc'[c] = "request" <=> cpc[c] = "request"
  PROVE  TearInv'
BY DEF TearInv, CloserTears

LEMMA TearStep ==
  ASSUME TypeOK, TearInv, [Next]_vars
  PROVE  TearInv'
<1> USE DEF TypeOK, CloseTypes, GoroutineTypes, TearInv, FlusherTears,
            CloserTears
<1>1. CASE Connection
  BY <1>1 DEF Connection
<1>2. CASE CancelByConn
  BY <1>2 DEF CancelByConn
<1>3. CASE FlusherNext
  BY <1>3 DEF FlusherNext, WriteTaken, FlushTick, FlushLast, FlushTearDown,
     FlushTornDown, TearDown, TornDown, MayTearDown, TearDownOK,
     TearDownFails
<1>4. CASE SenderNext
  BY <1>4, TearSame DEF SenderNext, SendChunk, SendAcked, SendGivesUp
<1>5. CASE ReaderNext
  <2>1. \A c \in Closers : cpc'[c] = "request" <=> cpc[c] = "request"
    BY <1>5 DEF ReaderNext, AckRemove, AckDeliver, AckDelivered, ReaderEnds,
                Woken
  <2> QED BY <1>5, <2>1, TearSame
          DEF ReaderNext, AckRemove, AckDeliver, AckDelivered, ReaderEnds
<1>6. CASE ResendNow \/ ResendAcked \/ ResendTimeout
  BY <1>6, TearSame DEF ResendNow, ResendAcked, ResendTimeout, ResendList,
     ResendSent, ResendFails, ResendEnds, ClearSent, ResendNext
<1>7. CASE RunnerNext
  BY <1>7 DEF RunnerNext, WatcherFires, WatcherEnds, RunReturns, WaitOver,
     ResumeBegin, ResumeOK, ResumeFails, ResumeTearDown, ResumeTornDown,
     TearDown, TornDown, MayTearDown, TearDownOK, TearDownFails, StartRun
<1>8. ASSUME NEW c \in Closers, CloserNext(c) PROVE TearInv'
  <2>1. CASE CloseTearDown(c)
    BY <2>1 DEF CloseTearDown, TearDown, TornDown, MayTearDown, CloserStep
  <2>2. CASE CloseTornDown(c)
    BY <2>2 DEF CloseTornDown, TearDownOK, TearDownFails, CloserStep
  <2>3. CASE CloserNext(c) /\ ~CloseTearDown(c) /\ ~CloseTornDown(c)
    <3>1. \A d \in Closers : cpc'[d] = "request" <=> cpc[d] = "request"
      BY <2>3 DEF CloserNext, CloseSwap, FlushServed, FlushFails, DrainCheck,
         DrainLock, DrainList, DrainSize, DrainPark, Watchdog, CloserStep,
         Woken, LinkTypes
    <3>2. FlusherTears' <=> FlusherTears
      BY <2>3 DEF CloserNext, CloseSwap, FlushServed, FlushFails, DrainCheck,
         DrainLock, DrainList, DrainSize, DrainPark, Watchdog
    <3>3. UNCHANGED <<closed, requested, requests, events, rpc>>
      BY <2>3 DEF CloserNext, CloseSwap, FlushServed, FlushFails, DrainCheck,
         DrainLock, DrainList, DrainSize, DrainPark, Watchdog
    <3> QED BY <3>1, <3>2, <3>3, TearSame
  <2> QED BY <1>8, <2>1, <2>2, <2>3
<1>9. CASE UNCHANGED vars
  BY <1>9 DEF vars
<1> QED BY <1>1, <1>2, <1>3, <1>4, <1>5, <1>6, <1>7, <1>8, <1>9 DEF Next

-----------------------------------------------------------------------------
(* What the broker may receive.                                            *)

(* A chunk that is yet to be sent, or sent again, has been issued.         *)
FlightInv ==
  /\ \A m \in toSend : m.seq <= seq
  /\ resend.cur <= seq

LEMMA FlightStep ==
  ASSUME TypeOK, SentInv, FlightInv, [Next]_vars
  PROVE  FlightInv'
<1> USE DEF TypeOK, BufferTypes, GoroutineTypes, FlightInv
<1>1. CASE Connection \/ CancelByConn
  BY <1>1 DEF Connection, CancelByConn
<1>2. CASE FlusherNext
  BY <1>2 DEF FlusherNext, WriteTaken, FlushTick, FlushLast, FlushTearDown,
     FlushTornDown, IssueChunk, Issue
<1>3. CASE SenderNext
  BY <1>3 DEF SenderNext, SendChunk, SendAcked, SendGivesUp
<1>4. CASE ReaderNext
  BY <1>4 DEF ReaderNext, AckRemove, AckDeliver, AckDelivered, ReaderEnds
<1>5. CASE ResendNow \/ ResendAcked \/ ResendTimeout
  <2>1. ASSUME NEW n \in SeqNums, ResendNext(n) PROVE FlightInv'
    BY <2>1 DEF ResendNext, SentInv
  <2> QED BY <1>5, <2>1 DEF ResendNow, ResendAcked, ResendTimeout, ResendList,
             ResendSent, ResendFails, ResendEnds, ClearSent
<1>6. CASE RunnerNext
  BY <1>6 DEF RunnerNext, WatcherFires, WatcherEnds, RunReturns, WaitOver,
     ResumeBegin, ResumeOK, ResumeFails, ResumeTearDown, ResumeTornDown,
     StartRun
<1>7. ASSUME NEW c \in Closers, CloserNext(c) PROVE FlightInv'
  BY <1>7 DEF CloserNext, CloseSwap, FlushServed, FlushFails, DrainCheck,
     DrainLock, DrainList, DrainSize, DrainPark, Watchdog, CloseTearDown,
     CloseTornDown, IssueChunk, Issue
<1>8. CASE UNCHANGED vars
  BY <1>8 DEF vars
<1> QED BY <1>1, <1>2, <1>3, <1>4, <1>5, <1>6, <1>7, <1>8 DEF Next

-----------------------------------------------------------------------------
(* The inductive invariant and what it gives. *)

IInv == TypeOK /\ ChannelInv /\ SentInv /\ AckInv /\ TearInv /\ FlightInv

(* The stream keeps all of it, whatever its goroutines, its closers, the   *)
(* connection and the broker do.                                           *)
THEOREM UpstreamInvariant == Spec => []IInv
<1>1. Init => IInv
  <2> SUFFICES ASSUME Init PROVE IInv
    OBVIOUS
  <2>1. TypeOK
    BY InitTypes
  <2>2. ChannelInv
    BY DEF Init, ChannelInv, AckNeverBlocks
  <2>3. SentInv /\ AckInv
    BY DEF Init, SentInv, AckInv, UnackedKept
  <2>4. TearInv
    BY DEF Init, TearInv, FlusherTears, CloserTears
  <2>5. FlightInv
    BY DEF Init, FlightInv
  <2> QED BY <2>1, <2>2, <2>3, <2>4, <2>5 DEF IInv
<1>2. IInv /\ [Next]_vars => IInv'
  BY TypesStep, ChannelStep, SentStep, AckStep, TearStep, FlightStep DEF IInv
<1> QED BY <1>1, <1>2, PTL DEF Spec

(* Every variable keeps its type.                                          *)
THEOREM UpstreamTypes == Spec => []TypeOK
<1>1. IInv => TypeOK
  BY DEF IInv
<1> QED BY <1>1, UpstreamInvariant, PTL

(* A reliable stream keeps every chunk the broker has not received.        *)
THEOREM UpstreamKeepsUnacked == Spec => []UnackedKept
<1>1. IInv => UnackedKept
  BY DEF IInv, AckInv
<1> QED BY <1>1, UpstreamInvariant, PTL

(* The read loop never blocks on a result channel.                         *)
THEOREM UpstreamAckNeverBlocks == Spec => []AckNeverBlocks
<1>1. IInv => AckNeverBlocks
  BY DEF IInv, ChannelInv
<1> QED BY <1>1, UpstreamInvariant, PTL

(* The stream is torn down once. *)
THEOREM UpstreamOneTearDown == Spec => []OneTearDown
<1>1. IInv => OneTearDown
  BY DEF IInv, TearInv, OneTearDown
<1> QED BY <1>1, UpstreamInvariant, PTL

-----------------------------------------------------------------------------
(* The refinement. *)

(* A step the application sees nothing of.                                 *)
Quiet == UNCHANGED <<qos, seq, sent, received, requests, events, closed>>

Kept == Promise!Next \/ Quiet

(* A flush issues the next chunk.                                          *)
LEMMA IssueIsKept ==
  ASSUME IssueChunk, UNCHANGED <<qos, received, requests, events, closed>>
  PROVE  Promise!Issue
BY DEF IssueChunk, Issue, Promise!Issue, Promise!closeVars

(* The broker receives only what has been issued, and of a reliable stream *)
(* nothing new that is not kept.                                           *)
LEMMA ReceiptIsKept ==
  ASSUME IInv, NEW n \in SeqNums, n <= seq, Receives(n),
         UNCHANGED <<qos, seq, sent, requests, events, closed>>
  PROVE  Promise!Receive(n)
<1>1. qos = "Reliable" => n \in sent \union received
  BY DEF IInv, AckInv, UnackedKept, TypeOK, BufferTypes
<1> QED BY <1>1 DEF Receives, Promise!Receive, Promise!closeVars

(* closeWithError asks the broker once, and ends the stream once.          *)
LEMMA TearDownIsKept ==
  ASSUME IInv, UNCHANGED <<qos, seq, sent, received>>,
         \/ TearDown \/ TornDown \/ TearDownFails
         \/ TearDownOK /\ (rpc = "request" \/ FlusherTears \/ CloserTears)
  PROVE  Promise!Ask \/ Promise!Answer \/ Promise!End \/ Quiet
<1> USE DEF IInv, TypeOK, CloseTypes, TearInv, Promise!chunkVars, Quiet
<1>1. CASE TearDown
  BY <1>1 DEF TearDown, MayTearDown, Promise!Ask
<1>2. CASE TornDown
  BY <1>2 DEF TornDown
<1>3. CASE TearDownFails
  BY <1>3 DEF TearDownFails, Promise!End
<1>4. CASE TearDownOK /\ (rpc = "request" \/ FlusherTears \/ CloserTears)
  <2>1. requested /\ events = 0
    BY <1>4
  <2>2. requests = 1 /\ events' = 1
    BY <1>4, <2>1 DEF TearDownOK
  <2> QED BY <1>4, <2>1, <2>2 DEF TearDownOK, Promise!Answer
<1> QED BY <1>1, <1>2, <1>3, <1>4

(* Each step is one of the promise, or the application does not see it.    *)
LEMMA StepIsKept ==
  ASSUME IInv, [Next]_vars
  PROVE  Kept
<1> USE DEF Kept, Quiet
<1>1. CASE Connection
  BY <1>1 DEF Connection
<1>2. CASE CancelByConn
  BY <1>2 DEF CancelByConn, Promise!Next, Promise!End, Promise!chunkVars
<1>3. CASE FlusherNext
  <2>1. CASE WriteTaken
    BY <2>1 DEF WriteTaken
  <2>2. CASE FlushTick \/ FlushLast
    BY <2>2, IssueIsKept DEF FlushTick, FlushLast, Promise!Next
  <2>3. CASE FlushTearDown
    BY <2>3, TearDownIsKept DEF FlushTearDown, Promise!Next
  <2>4. CASE FlushTornDown
    BY <2>4, TearDownIsKept DEF FlushTornDown, FlusherTears, Promise!Next
  <2> QED BY <1>3, <2>1, <2>2, <2>3, <2>4 DEF FlusherNext
<1>4. CASE SenderNext
  <2>1. ASSUME NEW m \in toSend, SendChunk(m) PROVE Kept
    <3>1. m.seq \in SeqNums /\ m.seq <= seq
      BY DEF IInv, TypeOK, BufferTypes, FlightInv
    <3>2. UNCHANGED <<qos, seq, sent, requests, events, closed>>
      BY <2>1 DEF SendChunk
    <3>3. Receives(m.seq) \/ UNCHANGED brokerVars
      BY <2>1 DEF SendChunk
    <3> QED BY <3>1, <3>2, <3>3, ReceiptIsKept DEF Promise!Next
  <2> QED BY <1>4, <2>1 DEF SenderNext, SendAcked, SendGivesUp
<1>5. CASE ReaderNext
  <2>1. ASSUME NEW n \in SeqNums, AckRemove(n) PROVE Kept
    <3>1. n \in received
      BY <2>1 DEF AckRemove, IInv, AckInv
    <3>2. n \in sent => Promise!Forget(n)
      BY <2>1, <3>1 DEF AckRemove, Promise!Forget, Promise!closeVars
    <3>3. n \notin sent => Quiet
      BY <2>1 DEF AckRemove, IInv, TypeOK, BufferTypes
    <3> QED BY <3>2, <3>3 DEF Promise!Next
  <2> QED BY <1>5, <2>1 DEF ReaderNext, AckDeliver, AckDelivered, ReaderEnds
<1>6. CASE ResendNow \/ ResendAcked \/ ResendTimeout
  <2>1. CASE ResendSent \/ ResendFails
    <3>1. resend.pc = "send" => resend.cur \in SeqNums /\ resend.cur <= seq
      BY DEF IInv, TypeOK, GoroutineTypes, FlightInv
    <3>2. UNCHANGED <<qos, seq, sent, requests, events, closed>>
      BY <2>1 DEF ResendSent, ResendFails
    <3>3. \/ resend.pc = "send" /\ Receives(resend.cur)
          \/ UNCHANGED brokerVars
      BY <2>1 DEF ResendSent, ResendFails
    <3> QED BY <3>1, <3>2, <3>3, ReceiptIsKept DEF Promise!Next
  <2>2. CASE ClearSent
    <3>1. qos # "Reliable"
      BY <2>2 DEF ClearSent, IInv, AckInv
    <3> QED BY <2>2, <3>1 DEF ClearSent, Promise!Next, Promise!Abandon,
               Promise!closeVars
  <2>3. CASE ResendList \/ ResendEnds \/ ResendAcked \/ ResendTimeout
    BY <2>3 DEF ResendList, ResendEnds, ResendAcked, ResendTimeout
  <2>4. ASSUME NEW n \in SeqNums, ResendNext(n) PROVE Kept
    BY <2>4 DEF ResendNext
  <2> QED BY <1>6, <2>1, <2>2, <2>3, <2>4 DEF ResendNow
<1>7. CASE RunnerNext
  <2>1. CASE ResumeTearDown
    BY <2>1, TearDownIsKept DEF ResumeTearDown, Promise!Next
  <2>2. CASE ResumeTornDown
    BY <2>2, TearDownIsKept DEF ResumeTornDown, Promise!Next
  <2> QED BY <1>7, <2>1, <2>2 DEF RunnerNext, WatcherFires, WatcherEnds,
             RunReturns, WaitOver, ResumeBegin, ResumeOK, ResumeFails
<1>8. ASSUME NEW c \in Closers, CloserNext(c) PROVE Kept
  <2>1. CASE FlushServed(c)
    BY <2>1, IssueIsKept DEF FlushServed, Promise!Next
  <2>2. CASE CloseTearDown(c)
    BY <2>2, TearDownIsKept DEF CloseTearDown, Promise!Next
  <2>3. CASE CloseTornDown(c)
    BY <2>3, TearDownIsKept DEF CloseTornDown, CloserStep, CloserTears,
       Promise!Next
  <2> QED BY <1>8, <2>1, <2>2, <2>3 DEF CloserNext, CloseSwap, FlushFails,
             DrainCheck, DrainLock, DrainList, DrainSize, DrainPark, Watchdog
<1>9. CASE UNCHANGED vars
  BY <1>9 DEF vars
<1> QED BY <1>1, <1>2, <1>3, <1>4, <1>5, <1>6, <1>7, <1>8, <1>9 DEF Next

(* The stream keeps the promise of UpstreamPromise.                        *)
THEOREM UpstreamKeepsPromise == Spec => KeepsStreamPromise
<1>1. Init => Promise!Init
  BY DEF Init, Promise!Init
<1>2. IInv /\ [Next]_vars => [Promise!Next]_Promise!vars
  BY StepIsKept DEF Kept, Quiet, Promise!vars, Promise!chunkVars,
     Promise!closeVars
<1> QED BY <1>1, <1>2, UpstreamInvariant, PTL
        DEF Spec, KeepsStreamPromise, Promise!Spec

-----------------------------------------------------------------------------
(* No wake-up is lost. *)

(* A closer that is about to sleep on receivedAck, or sleeps, has an ack   *)
(* to come, data points to flush, or a Broadcast that still waits for the  *)
(* lock it is about to release: nothing it waits for has happened unseen   *)
(* between its look at sentBuf and Wait (upstream.go:283-301, 792-799).    *)
NoLostWakeup ==
  qos = "Reliable" =>
    \A c \in Closers : cpc[c] \in {"park", "waiting"} =>
      sent # {} \/ buffered \/ reader.pc = "deliver"

(* The goroutine that delivers acks belongs to a run.                      *)
ReaderInv == rpc # "run" => reader.pc = "ended"

LEMMA ReaderStep ==
  ASSUME ReaderInv, [Next]_vars
  PROVE  ReaderInv'
<1> USE DEF ReaderInv
<1>1. CASE Connection \/ CancelByConn
  BY <1>1 DEF Connection, CancelByConn
<1>2. CASE FlusherNext
  BY <1>2 DEF FlusherNext, WriteTaken, FlushTick, FlushLast, FlushTearDown,
     FlushTornDown
<1>3. CASE SenderNext
  BY <1>3 DEF SenderNext, SendChunk, SendAcked, SendGivesUp
<1>4. CASE ReaderNext
  BY <1>4 DEF ReaderNext, AckRemove, AckDeliver, AckDelivered, ReaderEnds
<1>5. CASE ResendNow \/ ResendAcked \/ ResendTimeout
  BY <1>5 DEF ResendNow, ResendAcked, ResendTimeout, ResendList, ResendNext,
     ResendSent, ResendFails, ResendEnds, ClearSent
<1>6. CASE RunnerNext
  BY <1>6 DEF RunnerNext, WatcherFires, WatcherEnds, RunReturns, WaitOver,
     ResumeBegin, ResumeOK, ResumeFails, ResumeTearDown, ResumeTornDown
<1>7. ASSUME NEW c \in Closers, CloserNext(c) PROVE ReaderInv'
  BY <1>7 DEF CloserNext, CloseSwap, FlushServed, FlushFails, DrainCheck,
     DrainLock, DrainList, DrainSize, DrainPark, Watchdog, CloseTearDown,
     CloseTornDown
<1>8. CASE UNCHANGED vars
  BY <1>8 DEF vars
<1> QED BY <1>1, <1>2, <1>3, <1>4, <1>5, <1>6, <1>7, <1>8 DEF Next

(* Only an ack takes a chunk from a reliable stream, only a flush empties  *)
(* the buffer, and an ack wakes whoever sleeps.                            *)
LEMMA SleepStep ==
  ASSUME IInv, ReaderInv, NoLostWakeup, [Next]_vars
  PROVE  NoLostWakeup'
<1> SUFFICES ASSUME qos' = "Reliable", NEW c \in Closers, cpc'[c] \in {"park", "waiting"}
             PROVE  sent' # {} \/ buffered' \/ reader'.pc = "deliver"
  BY DEF NoLostWakeup
<1> USE DEF NoLostWakeup, IInv, TypeOK, BufferTypes, GoroutineTypes
<1>1. CASE Connection \/ CancelByConn
  BY <1>1 DEF Connection, CancelByConn
<1>2. CASE FlusherNext
  BY <1>2 DEF FlusherNext, WriteTaken, FlushTick, FlushLast, FlushTearDown,
     FlushTornDown, IssueChunk, Issue
<1>3. CASE SenderNext
  BY <1>3 DEF SenderNext, SendChunk, SendAcked, SendGivesUp
<1>4. CASE ReaderNext
  <2>1. CASE (\E n \in SeqNums : AckRemove(n)) \/ ReaderEnds
    BY <2>1 DEF AckRemove, ReaderEnds
  <2>2. CASE AckDeliver
    <3>1. LockFree /\ cpc' = Woken
      BY <2>2 DEF AckDeliver, AckDelivered
    <3>2. cpc'[c] \notin {"park", "waiting"}
      BY <3>1 DEF LockFree, Woken
    <3> QED BY <3>2
  <2> QED BY <1>4, <2>1, <2>2 DEF ReaderNext
<1>5. CASE ResendNow \/ ResendAcked \/ ResendTimeout
  BY <1>5 DEF ResendNow, ResendAcked, ResendTimeout, ResendList, ResendNext,
     ResendSent, ResendFails, ResendEnds, ClearSent, AckInv
<1>6. CASE RunnerNext
  BY <1>6 DEF RunnerNext, WatcherFires, WatcherEnds, RunReturns, WaitOver,
     ResumeBegin, ResumeOK, ResumeFails, ResumeTearDown, ResumeTornDown,
     StartRun, ReaderInv
<1>7. ASSUME NEW d \in Closers, CloserNext(d)
      PROVE  sent' # {} \/ buffered' \/ reader'.pc = "deliver"
  <2>0. UNCHANGED <<qos, reader>>
    BY <1>7 DEF CloserNext, CloseSwap, FlushServed, FlushFails, DrainCheck,
       DrainLock, DrainList, DrainSize, DrainPark, Watchdog, CloseTearDown,
       CloseTornDown
  <2>1. CASE DrainList(d) \/ DrainSize(d)
    BY <2>0, <2>1 DEF DrainList, DrainSize, CloserStep
  <2>2. CASE FlushServed(d)
    <3>1. cpc'[c] = cpc[c] \/ cpc'[c] \in {"check", "flushing"}
      BY <2>2 DEF FlushServed, CloserStep
    <3>2. \/ UNCHANGED <<sent, buffered>>
          \/ seq + 1 \in sent'
      BY <2>2 DEF FlushServed, IssueChunk, Issue
    <3> QED BY <2>0, <3>1, <3>2
  <2>3. ASSUME \/ CloseSwap(d) \/ FlushFails(d) \/ DrainCheck(d) \/ DrainLock(d)
               \/ DrainPark(d) \/ Watchdog(d) \/ CloseTearDown(d) \/ CloseTornDown(d)
        PROVE  sent' # {} \/ buffered' \/ reader'.pc = "deliver"
    <3>1. UNCHANGED <<sent, buffered>>
      BY <2>3 DEF CloseSwap, FlushFails, DrainCheck, DrainLock, DrainPark, Watchdog,
         CloseTearDown, CloseTornDown
    <3>2. cpc[c] \in {"park", "waiting"}
      <4>1. CASE Watchdog(d)
        BY <4>1 DEF Watchdog, Woken
      <4>2. CASE CloseSwap(d)
        BY <4>2 DEF CloseSwap, CloserStep, LinkTypes
      <4>3. CASE FlushFails(d) \/ DrainCheck(d) \/ DrainLock(d) \/ DrainPark(d)
        BY <4>3 DEF FlushFails, DrainCheck, DrainLock, DrainPark, CloserStep
      <4>4. CASE CloseTearDown(d) \/ CloseTornDown(d)
        BY <4>4 DEF CloseTearDown, CloseTornDown, CloserStep
      <4> QED BY <2>3, <4>1, <4>2, <4>3, <4>4
    <3> QED BY <2>0, <3>1, <3>2
  <2> QED BY <1>7, <2>1, <2>2, <2>3 DEF CloserNext
<1>8. CASE UNCHANGED vars
  BY <1>8 DEF vars
<1> QED BY <1>1, <1>2, <1>3, <1>4, <1>5, <1>6, <1>7, <1>8 DEF Next

(* A draining Close does not sleep through the last ack. *)
THEOREM UpstreamNoLostWakeup == Spec => []NoLostWakeup
<1>1. Init => NoLostWakeup /\ ReaderInv
  BY DEF Init, NoLostWakeup, ReaderInv
<1> QED BY <1>1, UpstreamInvariant, ReaderStep, SleepStep, PTL DEF Spec

=============================================================================
