-------------------------- MODULE DownstreamProofs --------------------------
(***************************************************************************)
(* Proofs about Downstream for every set of sessions, closers and chunks,  *)
(* every bound on the aliases, and every connection that keeps             *)
(* ConnPromise.                                                            *)
(***************************************************************************)
EXTENDS Downstream, FiniteSetTheorems, TLAPS

USE DownstreamAssumption DEF
  Aliases, Full, netVars, chunkVars, aliasVars, flushVars, runVars, closeVars,
  linkVars, ChunkFrame, RunnerFrame, CloserFrame

(* Every alias in use is in the stream's table.                            *)
AliasInv ==
  /\ \A kind \in Kinds :
       /\ known[kind] \subseteq 1..assigned[kind]
       /\ ack[kind] \subseteq 1..assigned[kind]
       /\ pending[kind] \subseteq 1..assigned[kind]
  /\ \A k \in Chunks, kind \in Kinds :
       /\ carries[k][kind] <= assigned[kind]
       /\ place[k] = Announce(kind) => mine[k] \in 1..assigned[kind]
  /\ AliasesResolve

(* The bound on the aliases of the upstream holds.                         *)
BoundInv == "upstream" \in Kinds => AliasesTaken <= MaxAlias

(* A stream that is Connected and not cancelled has a run that flushes and *)
(* is not told to stop; between two runs nobody flushes.                   *)
RunInv ==
  /\ rpc # "run" => flusher = "ended"
  /\ watcher = "nil" => closed
  /\ state = "Connected" /\ ~closed =>
       watcher = "on" /\ ~stop /\ flusher \in {"loop", "loop send"}
  /\ flushed => flusher = "ended"

(* What a closer waits for is in the buffer or in the ack that is being    *)
(* sent, and no longer in the buffer once flushAckLoop has emptied it for  *)
(* the last time.                                                          *)
OwedInv ==
  /\ Sending # {} => flusher \in {"loop send", "final send", "last send"}
  /\ \A c \in Closers :
       /\ owed[c] \subseteq Buffered \union Sending
       /\ flusher \notin {"loop", "loop send", "final"} =>
            owed[c] \intersect Buffered = {}
  /\ FinalFlush

IInv == TypeOK /\ AliasInv /\ BoundInv /\ RunInv /\ OwedInv

-----------------------------------------------------------------------------
(* Every variable has its type initially, ...                              *)
LEMMA InitTypes == Init => TypeOK
<1> SUFFICES ASSUME Init PROVE TypeOK
  OBVIOUS
<1>1. LinkTypes
  BY DEF Init, Net!Init, LinkTypes
<1>2. ChunkTypes
  BY DEF Init, ChunkTypes, Place
<1>3. AliasTypes
  BY DEF Init, AliasTypes, Nothing
<1>4. GoroutineTypes
  BY DEF Init, Net!Init, GoroutineTypes, FlusherPC, RunnerPC, CloserPC
<1> QED BY <1>1, <1>2, <1>3, <1>4 DEF TypeOK

(* The chunks that will be given an upstream alias are finitely many, and  *)
(* a step that does not add to them keeps within the bound.                *)
LEMMA UnassignedFinite ==
  /\ IsFiniteSet(Unassigned)
  /\ Cardinality(Unassigned) \in Nat
<1>1. Unassigned \in SUBSET Chunks
  BY DEF Unassigned
<1>2. IsFiniteSet(Unassigned)
  BY <1>1, FS_Subset
<1> QED BY <1>2, FS_CardinalityType

LEMMA UnassignedFinitePrime ==
  /\ IsFiniteSet(Unassigned')
  /\ Cardinality(Unassigned') \in Nat
<1>1. Unassigned' \in SUBSET Chunks
  BY DEF Unassigned
<1>2. IsFiniteSet(Unassigned')
  BY <1>1, FS_Subset
<1> QED BY <1>2, FS_CardinalityType

LEMMA BoundKept ==
  ASSUME TypeOK, BoundInv, assigned'["upstream"] = assigned["upstream"],
         Unassigned' \subseteq Unassigned
  PROVE  BoundInv'
<1> SUFFICES ASSUME "upstream" \in Kinds PROVE AliasesTaken' <= MaxAlias
  BY DEF BoundInv
<1>1. Cardinality(Unassigned') <= Cardinality(Unassigned)
  BY UnassignedFinite, FS_Subset
<1>2. AliasesTaken <= MaxAlias /\ assigned["upstream"] \in Nat
  BY DEF BoundInv, TypeOK, AliasTypes
<1> QED
  BY <1>1, <1>2, UnassignedFinite, UnassignedFinitePrime DEF AliasesTaken

(* A chunk that is given an alias leaves room for it.                      *)
LEMMA RoomForAlias ==
  ASSUME TypeOK, BoundInv, NEW k \in Chunks, NEW kind \in {"upstream", "data"},
         place[k] = kind, NeedsAlias(k, kind)
  PROVE  assigned[kind] + 1 \in Aliases
<1>1. kind \in Kinds /\ assigned[kind] \in Nat
  BY DEF NeedsAlias, TypeOK, AliasTypes
<1>2. CASE kind = "data"
  BY <1>1, <1>2 DEF NeedsAlias
<1>3. CASE kind = "upstream"
  <2>1. k \in Unassigned
    BY <1>3 DEF Unassigned, NeedsAlias
  <2>2. Cardinality(Unassigned) # 0
    BY <2>1, UnassignedFinite, FS_EmptySet
  <2>3. assigned["upstream"] + Cardinality(Unassigned) <= MaxAlias
    BY <1>1, <1>3 DEF BoundInv, AliasesTaken
  <2> QED BY <1>1, <1>3, <2>2, <2>3, UnassignedFinite
<1> QED BY <1>2, <1>3

(* ... and keeps it in every step: the connection's and the stream's, ...  *)
LEMMA LinkStep ==
  ASSUME TypeOK, [Next]_vars
  PROVE  LinkTypes'
<1> USE DEF TypeOK, LinkTypes
<1>1. CASE Connection
  BY <1>1 DEF Connection, Net!Next, Net!End, Net!Suspend, Net!Install,
     Net!Shut
<1>2. CASE CancelByConn
  BY <1>2 DEF CancelByConn
<1>3. ASSUME NEW k \in Chunks,
             Deliver(k) \/ HandOver(k) \/ ReadTake(k) \/ ReadNext(k)
      PROVE  LinkTypes'
  BY <1>3 DEF Deliver, HandOver, ReadTake, ReadNext, Assign, PushAlias,
     PushResult
<1>4. CASE ReaderEnds
  BY <1>4 DEF ReaderEnds
<1>5. CASE FlusherNext
  BY <1>5 DEF FlusherNext, StopFlusher, FlushTick, FlushStop, FlushFinal,
     FlushClose, FlushTake, FlushSend
<1>6. CASE RunnerNext
  BY <1>6 DEF RunnerNext, WatcherFires, WatcherEnds, RunReturns, WaitOver,
     ResumeBegin, ResumeOK, ResumeFails, ResumeTearDown, ResumeTornDown
<1>7. ASSUME NEW c \in Closers, CloserNext(c) PROVE LinkTypes'
  BY <1>7 DEF CloserNext, CloseBegin, CloseSwap, CloseDrain, CloseFlushed,
     CloseGivesUp, CloseSend, CloseReturn
<1>8. CASE UNCHANGED vars
  BY <1>8 DEF vars
<1> QED BY <1>1, <1>2, <1>3, <1>4, <1>5, <1>6, <1>7, <1>8 DEF Next

(* the chunks, ...                                                         *)
LEMMA NoAlias == 0 \in 0..MaxAlias
OBVIOUS

LEMMA MoveTypes ==
  ASSUME ChunkTypes, NEW k \in Chunks, NEW from, NEW to \in Place,
         Move(k, from, to)
  PROVE  place' \in [Chunks -> Place]
BY DEF ChunkTypes, Move

LEMMA ChunkStep ==
  ASSUME TypeOK, BoundInv, [Next]_vars
  PROVE  ChunkTypes'
<1>0. ASSUME NEW k \in Chunks, NEW kind \in {"upstream", "data"},
             place[k] = kind, NeedsAlias(k, kind)
      PROVE  assigned[kind] + 1 \in 0..MaxAlias
  BY <1>0, RoomForAlias
<1> USE DEF TypeOK, ChunkTypes, Place, Reading
<1>1. CASE Connection
  BY <1>1 DEF Connection
<1>2. CASE CancelByConn
  BY <1>2 DEF CancelByConn
<1>3. ASSUME NEW k \in Chunks, Deliver(k) PROVE ChunkTypes'
  BY <1>3 DEF Deliver, Move
<1>4. ASSUME NEW k \in Chunks,
             HandOver(k) \/ ReadTake(k) \/ PushResult(k)
      PROVE  ChunkTypes'
  BY <1>4 DEF HandOver, ReadTake, PushResult, Move
<1>5. ASSUME NEW k \in Chunks, NEW kind \in {"upstream", "data"},
             Assign(k, kind)
      PROVE  ChunkTypes'
  <2>1. Announce(kind) \in Place /\ After(kind) \in Place
    BY DEF Announce, After
  <2>2. place' \in [Chunks -> Place]
    BY <1>5, <2>1 DEF Assign, Move
  <2>3. mine' \in [Chunks -> 0..MaxAlias]
    <3>1. CASE NeedsAlias(k, kind)
      <4>1. place[k] = kind
        BY <1>5 DEF Assign, Move
      <4>2. assigned[kind] + 1 \in 0..MaxAlias
        BY <1>0, <3>1, <4>1
      <4> QED BY <1>5, <3>1, <4>2 DEF Assign
    <3>2. CASE ~NeedsAlias(k, kind)
      BY <1>5, <3>2 DEF Assign
    <3> QED BY <3>1, <3>2
  <2> QED BY <1>5, <2>2, <2>3 DEF Assign
<1>6. ASSUME NEW k \in Chunks, NEW kind \in {"upstream", "data"},
             PushAlias(k, kind)
      PROVE  ChunkTypes'
  <2>1. After(kind) \in Place
    BY DEF After
  <2>2. place' \in [Chunks -> Place]
    BY <1>6, <2>1, MoveTypes DEF PushAlias
  <2>3. 0 \in 0..MaxAlias
    BY NoAlias
  <2>4. mine' \in [Chunks -> 0..MaxAlias]
    BY <1>6, <2>3 DEF PushAlias
  <2>5. carries' = carries
    BY <1>6 DEF PushAlias
  <2> QED BY <2>2, <2>4, <2>5
<1>7. CASE ReaderEnds
  BY <1>7 DEF ReaderEnds
<1>8. CASE FlusherNext
  BY <1>8 DEF FlusherNext, StopFlusher, FlushTick, FlushStop, FlushFinal,
     FlushClose, FlushTake, FlushSend
<1>9. CASE RunnerNext
  BY <1>9 DEF RunnerNext, WatcherFires, WatcherEnds, RunReturns, WaitOver,
     ResumeBegin, ResumeOK, NewChannels, ResumeFails, ResumeTearDown,
     ResumeTornDown
<1>10. ASSUME NEW c \in Closers, CloserNext(c) PROVE ChunkTypes'
  BY <1>10 DEF CloserNext, CloseBegin, CloseSwap, CloseDrain, CloseFlushed,
     CloseGivesUp, CloseSend, CloseReturn
<1>11. CASE UNCHANGED vars
  BY <1>11 DEF vars
<1> QED
  BY <1>1, <1>2, <1>3, <1>4, <1>5, <1>6, <1>7, <1>8, <1>9, <1>10, <1>11
  DEF Next, ReadNext

(* the aliases, ...                                                        *)
LEMMA AliasTypesStep ==
  ASSUME TypeOK, AliasInv, BoundInv, [Next]_vars
  PROVE  AliasTypes'
<1> USE DEF TypeOK, AliasTypes
<1>1. CASE Connection \/ CancelByConn \/ ReaderEnds
  BY <1>1 DEF Connection, CancelByConn, ReaderEnds
<1>2. ASSUME NEW k \in Chunks,
             Deliver(k) \/ HandOver(k) \/ ReadTake(k) \/ PushResult(k)
      PROVE  AliasTypes'
  BY <1>2 DEF Deliver, HandOver, ReadTake, PushResult
<1>3. ASSUME NEW k \in Chunks, NEW kind \in {"upstream", "data"},
             Assign(k, kind)
      PROVE  AliasTypes'
  <2>1. NeedsAlias(k, kind) /\ place[k] = kind =>
          assigned[kind] + 1 \in 0..MaxAlias
    BY RoomForAlias
  <2> QED BY <1>3, <2>1 DEF Assign, Move
<1>4. ASSUME NEW k \in Chunks, NEW kind \in {"upstream", "data"},
             PushAlias(k, kind)
      PROVE  AliasTypes'
  <2>1. kind \in Kinds => mine[k] \in Aliases
    BY <1>4 DEF AliasInv, PushAlias, Move
  <2> QED BY <1>4, <2>1 DEF PushAlias
<1>5. CASE FlusherNext
  <2>1. ASSUME NEW from, NEW to, NEW next, FlushTake(from, to, next)
        PROVE  AliasTypes'
    BY <2>1 DEF FlushTake, Nothing
  <2>2. ASSUME NEW from, NEW next, FlushSend(from, next) PROVE AliasTypes'
    BY <2>2 DEF FlushSend, Nothing
  <2>3. CASE StopFlusher \/ FlushStop \/ FlushClose
    BY <2>3 DEF StopFlusher, FlushStop, FlushClose
  <2> QED BY <1>5, <2>1, <2>2, <2>3 DEF FlusherNext, FlushTick, FlushFinal
<1>6. CASE RunnerNext
  BY <1>6 DEF RunnerNext, WatcherFires, WatcherEnds, RunReturns, WaitOver,
     ResumeBegin, ResumeOK, KeepAliases, ResumeFails, ResumeTearDown,
     ResumeTornDown
<1>7. ASSUME NEW c \in Closers, CloserNext(c) PROVE AliasTypes'
  BY <1>7 DEF CloserNext, CloseBegin, CloseSwap, CloseDrain, CloseFlushed,
     CloseGivesUp, CloseSend, CloseReturn
<1>8. CASE UNCHANGED vars
  BY <1>8 DEF vars
<1> QED BY <1>1, <1>2, <1>3, <1>4, <1>5, <1>6, <1>7, <1>8 DEF Next, ReadNext

(* and where every goroutine stands.                                       *)
LEMMA GoroutineStep ==
  ASSUME TypeOK, [Next]_vars
  PROVE  GoroutineTypes'
<1> USE DEF TypeOK, GoroutineTypes, FlusherPC, RunnerPC, CloserPC
<1>1. CASE Connection \/ CancelByConn \/ ReaderEnds
  <2>1. reader' \in {"on", "ended"}
    BY <1>1 DEF Connection, CancelByConn, ReaderEnds
  <2>2. UNCHANGED <<flushVars, watcher, rpc, closeVars>>
    BY <1>1 DEF Connection, CancelByConn, ReaderEnds
  <2> QED BY <2>1, <2>2 DEF flushVars, closeVars
<1>2. ASSUME NEW k \in Chunks,
             Deliver(k) \/ HandOver(k) \/ ReadTake(k) \/ ReadNext(k)
      PROVE  GoroutineTypes'
  <2>1. UNCHANGED <<flushVars, runVars, closeVars>>
    BY <1>2 DEF Deliver, HandOver, ReadTake, ReadNext, Assign, PushAlias,
       PushResult
  <2> QED BY <2>1
<1>3. CASE FlusherNext
  <2>1. ASSUME NEW from, NEW to \in FlusherPC, NEW next \in FlusherPC,
               FlushTake(from, to, next)
        PROVE  GoroutineTypes'
    <3>1. flusher' \in FlusherPC
      BY <2>1 DEF FlushTake
    <3>2. UNCHANGED <<stop, flushed, runVars, closeVars>>
      BY <2>1 DEF FlushTake
    <3> QED BY <3>1, <3>2 DEF flushVars, runVars, closeVars
  <2>2. ASSUME NEW from, NEW next \in FlusherPC, FlushSend(from, next)
        PROVE  GoroutineTypes'
    <3>1. flusher' \in FlusherPC
      BY <2>2 DEF FlushSend
    <3>2. owed' \in [Closers -> SUBSET Chunks]
      BY <2>2 DEF FlushSend
    <3>3. UNCHANGED <<stop, flushed, runVars, cpc, tearOn>>
      BY <2>2 DEF FlushSend
    <3> QED BY <3>1, <3>2, <3>3 DEF runVars
  <2>3. CASE StopFlusher \/ FlushStop \/ FlushClose
    <3>1. flusher' \in FlusherPC /\ stop' \in BOOLEAN /\ flushed' \in BOOLEAN
      BY <2>3 DEF StopFlusher, FlushStop, FlushClose
    <3>2. UNCHANGED <<runVars, closeVars>>
      BY <2>3 DEF StopFlusher, FlushStop, FlushClose
    <3> QED BY <3>1, <3>2 DEF runVars, closeVars
  <2> QED BY <1>3, <2>1, <2>2, <2>3 DEF FlusherNext, FlushTick, FlushFinal
<1>4. CASE RunnerNext
  <2>1. CASE ResumeOK
    <3>1. flusher' \in FlusherPC /\ rpc' \in RunnerPC
      BY <2>1 DEF ResumeOK, StartRun
    <3>2. stop' \in BOOLEAN /\ flushed' \in BOOLEAN
          /\ cpc' \in [Closers -> CloserPC]
      BY <2>1 DEF ResumeOK, StartRun, NewChannels
    <3>3. reader' = "on" /\ watcher' = "on" /\ UNCHANGED <<tearOn, owed>>
      BY <2>1 DEF ResumeOK, StartRun
    <3> QED BY <3>1, <3>2, <3>3
  <2>2. CASE WatcherFires \/ WatcherEnds \/ RunReturns \/ WaitOver
    BY <2>2 DEF WatcherFires, WatcherEnds, RunReturns, WaitOver
  <2>3. CASE ResumeBegin \/ ResumeFails \/ ResumeTearDown \/ ResumeTornDown
    <3>1. rpc' \in RunnerPC
      BY <2>3 DEF ResumeBegin, ResumeFails, ResumeTearDown, ResumeTornDown
    <3>2. UNCHANGED <<flushVars, reader, watcher, closeVars>>
      BY <2>3 DEF ResumeBegin, ResumeFails, ResumeTearDown, ResumeTornDown
    <3> QED BY <3>1, <3>2 DEF flushVars, closeVars
  <2> QED BY <1>4, <2>1, <2>2, <2>3 DEF RunnerNext
<1>5. ASSUME NEW c \in Closers, CloserNext(c) PROVE GoroutineTypes'
  <2>1. UNCHANGED <<flushVars, runVars>>
    BY <1>5 DEF CloserNext, CloseBegin, CloseSwap, CloseDrain, CloseFlushed,
       CloseGivesUp, CloseSend, CloseReturn
  <2>2. cpc' \in [Closers -> CloserPC]
    BY <1>5 DEF CloserNext, CloserStep, CloseBegin, CloseSwap, CloseDrain,
       CloseFlushed, CloseGivesUp, CloseSend, CloseReturn
  <2>3. tearOn' \in [Closers -> Sessions]
    BY <1>5 DEF CloserNext, CloseBegin, CloseSwap, CloseDrain, CloseFlushed,
       CloseGivesUp, CloseSend, CloseReturn, LinkTypes
  <2>4. Buffered \union Sending \subseteq Chunks
    BY DEF Buffered, Sending
  <2>5. owed' \in [Closers -> SUBSET Chunks]
    BY <1>5, <2>4 DEF CloserNext, CloseBegin, CloseSwap, CloseDrain,
       CloseFlushed, CloseGivesUp, CloseSend, CloseReturn
  <2> QED BY <2>1, <2>2, <2>3, <2>5
<1>6. CASE UNCHANGED vars
  BY <1>6 DEF vars
<1> QED BY <1>1, <1>2, <1>3, <1>4, <1>5, <1>6 DEF Next

LEMMA TypesStep ==
  ASSUME TypeOK, AliasInv, BoundInv, [Next]_vars
  PROVE  TypeOK'
BY LinkStep, ChunkStep, AliasTypesStep, GoroutineStep DEF TypeOK

-----------------------------------------------------------------------------
(* The bound on the aliases of the upstream.                               *)
LEMMA BoundStep ==
  ASSUME TypeOK, BoundInv, [Next]_vars
  PROVE  BoundInv'
<1>1. CASE Connection \/ CancelByConn \/ ReaderEnds
  <2>1. UNCHANGED <<place, carries, assigned>>
    BY <1>1 DEF Connection, CancelByConn, ReaderEnds
  <2> QED BY <2>1, BoundKept DEF Unassigned
<1>2. ASSUME NEW k \in Chunks, Deliver(k) PROVE BoundInv'
  <2> SUFFICES ASSUME "upstream" \in Kinds PROVE AliasesTaken' <= MaxAlias
    BY DEF BoundInv
  <2>1. assigned' = assigned /\ assigned["upstream"] \in Nat
    BY <1>2 DEF Deliver, TypeOK, AliasTypes
  <2>2. CASE carries'[k]["upstream"] = Full
    <3>1. Unassigned' \subseteq Unassigned \union {k}
      BY <1>2 DEF Deliver, Move, Unassigned, TypeOK, ChunkTypes
    <3>2. AliasesTaken < MaxAlias
      BY <1>2, <2>2 DEF Deliver, TypeOK, ChunkTypes
    <3>3. /\ IsFiniteSet(Unassigned \union {k})
          /\ Cardinality(Unassigned \union {k}) \in
               {Cardinality(Unassigned), Cardinality(Unassigned) + 1}
      BY UnassignedFinite, FS_AddElement
    <3>4. Cardinality(Unassigned') <= Cardinality(Unassigned) + 1
      BY <3>1, <3>3, FS_Subset, UnassignedFinite, UnassignedFinitePrime
    <3> QED
      BY <2>1, <3>2, <3>4, UnassignedFinite, UnassignedFinitePrime
      DEF AliasesTaken
  <2>3. CASE carries'[k]["upstream"] # Full
    <3>1. Unassigned' \subseteq Unassigned
      BY <1>2, <2>3 DEF Deliver, Move, Unassigned, TypeOK, ChunkTypes
    <3> QED BY <2>1, <3>1, BoundKept DEF BoundInv
  <2> QED BY <2>2, <2>3
<1>3. ASSUME NEW k \in Chunks, HandOver(k) \/ ReadTake(k) \/ PushResult(k)
      PROVE  BoundInv'
  <2>1. assigned' = assigned /\ carries' = carries
    BY <1>3 DEF HandOver, ReadTake, PushResult
  <2>2. Unassigned' \subseteq Unassigned
    BY <1>3 DEF HandOver, ReadTake, PushResult, Move, Unassigned, TypeOK,
       ChunkTypes
  <2> QED BY <2>1, <2>2, BoundKept
<1>4. ASSUME NEW k \in Chunks, NEW kind \in {"upstream", "data"},
             Assign(k, kind)
      PROVE  BoundInv'
  <2> SUFFICES ASSUME "upstream" \in Kinds PROVE BoundInv'
    BY DEF BoundInv
  <2>1. carries' = carries
    BY <1>4 DEF Assign
  <2>2. Unassigned' \subseteq Unassigned \ {k}
    BY <1>4 DEF Assign, Move, Announce, After, Unassigned, TypeOK, ChunkTypes
  <2>3. CASE assigned'["upstream"] = assigned["upstream"]
    BY <2>2, <2>3, BoundKept
  <2>4. CASE assigned'["upstream"] # assigned["upstream"]
    <3>1. /\ kind = "upstream" /\ NeedsAlias(k, kind) /\ place[k] = kind
          /\ assigned'["upstream"] = assigned["upstream"] + 1
      BY <1>4, <2>4 DEF Assign, Move, TypeOK, AliasTypes, NeedsAlias
    <3>2. "upstream" \in Kinds /\ k \in Unassigned
      BY <3>1 DEF NeedsAlias, Unassigned
    <3>3. /\ IsFiniteSet(Unassigned \ {k})
          /\ Cardinality(Unassigned \ {k}) = Cardinality(Unassigned) - 1
      BY <3>2, UnassignedFinite, FS_RemoveElement
    <3>4. Cardinality(Unassigned') <= Cardinality(Unassigned) - 1
      BY <2>2, <3>3, FS_Subset
    <3>5. assigned["upstream"] \in Nat /\ AliasesTaken <= MaxAlias
      BY <3>2 DEF TypeOK, AliasTypes, BoundInv
    <3> QED
      BY <3>1, <3>4, <3>5, UnassignedFinite, UnassignedFinitePrime
      DEF AliasesTaken, BoundInv
  <2> QED BY <2>3, <2>4
<1>5. ASSUME NEW k \in Chunks, NEW kind \in {"upstream", "data"},
             PushAlias(k, kind)
      PROVE  BoundInv'
  <2>1. assigned' = assigned /\ carries' = carries
    BY <1>5 DEF PushAlias
  <2>2. Unassigned' \subseteq Unassigned
    BY <1>5 DEF PushAlias, Move, After, Unassigned, TypeOK, ChunkTypes
  <2> QED BY <2>1, <2>2, BoundKept
<1>6. CASE FlusherNext
  <2>1. assigned' = assigned /\ carries' = carries
    BY <1>6 DEF FlusherNext, StopFlusher, FlushTick, FlushStop, FlushFinal,
       FlushClose, FlushTake, FlushSend
  <2>2. \A k \in Chunks : place'[k] \in {place[k], "sending", "none"}
    BY <1>6 DEF FlusherNext, StopFlusher, FlushTick, FlushStop, FlushFinal,
       FlushClose, FlushTake, FlushSend
  <2> QED BY <2>1, <2>2, BoundKept DEF Unassigned
<1>7. CASE RunnerNext
  <2>1. assigned' = assigned /\ carries' = carries
    BY <1>7 DEF RunnerNext, WatcherFires, WatcherEnds, RunReturns, WaitOver,
       ResumeBegin, ResumeOK, KeepAliases, ResumeFails, ResumeTearDown,
       ResumeTornDown
  <2>2. \A k \in Chunks : place'[k] \in {place[k], "none"}
    BY <1>7 DEF RunnerNext, WatcherFires, WatcherEnds, RunReturns, WaitOver,
       ResumeBegin, ResumeOK, NewChannels, ResumeFails, ResumeTearDown,
       ResumeTornDown
  <2> QED BY <2>1, <2>2, BoundKept DEF Unassigned
<1>8. ASSUME NEW c \in Closers, CloserNext(c) PROVE BoundInv'
  <2>1. UNCHANGED <<place, carries, assigned>>
    BY <1>8 DEF CloserNext, CloseBegin, CloseSwap, CloseDrain, CloseFlushed,
       CloseGivesUp, CloseSend, CloseReturn
  <2> QED BY <2>1, BoundKept DEF Unassigned
<1>9. CASE UNCHANGED vars
  <2>1. UNCHANGED <<place, carries, assigned>>
    BY <1>9 DEF vars
  <2> QED BY <2>1, BoundKept DEF Unassigned
<1> QED BY <1>1, <1>2, <1>3, <1>4, <1>5, <1>6, <1>7, <1>8, <1>9
        DEF Next, ReadNext

-----------------------------------------------------------------------------
(* The two aliases a chunk brings are announced at different places.       *)
LEMMA AnnounceApart ==
  \A a, b \in Kinds : Announce(a) = Announce(b) => a = b
BY DEF Announce

(* Every alias in use is in the stream's table.                            *)
LEMMA AliasKept ==
  ASSUME TypeOK, AliasInv, UNCHANGED <<assigned, pending, ack, known, carries>>,
         \A k \in Chunks :
           /\ place'[k] # "failed"
           /\ \A kind \in Kinds :
                place'[k] = Announce(kind) =>
                  place[k] = Announce(kind) /\ mine'[k] = mine[k]
  PROVE  AliasInv'
BY DEF AliasInv, AliasesResolve

LEMMA AliasStep ==
  ASSUME TypeOK, AliasInv, [Next]_vars
  PROVE  AliasInv'
<1>0. \A k \in Chunks : place[k] # "failed"
  BY DEF AliasInv, AliasesResolve
<1>1. CASE Connection \/ CancelByConn \/ ReaderEnds
  <2>1. UNCHANGED <<chunkVars, aliasVars>>
    BY <1>1 DEF Connection, CancelByConn, ReaderEnds
  <2> QED BY <1>0, <2>1, AliasKept
<1>2. ASSUME NEW k \in Chunks, Deliver(k) PROVE AliasInv'
  <2>1. \A kind \in Kinds : carries'[k][kind] <= assigned[kind]
    <3> SUFFICES ASSUME NEW kind \in Kinds
                 PROVE  carries'[k][kind] <= assigned[kind]
      OBVIOUS
    <3>1. carries'[k][kind] \in known[kind] \union {Full}
      BY <1>2 DEF Deliver, TypeOK, ChunkTypes
    <3>2. known[kind] \subseteq 1..assigned[kind] /\ assigned[kind] \in Nat
      BY DEF AliasInv, TypeOK, AliasTypes
    <3> QED BY <3>1, <3>2
  <2>2. \A j \in Chunks \ {k} : carries'[j] = carries[j] /\ place'[j] = place[j]
    BY <1>2 DEF Deliver, Move, TypeOK, ChunkTypes
  <2>3. place'[k] = "wire" /\ UNCHANGED <<mine, aliasVars>>
    BY <1>2 DEF Deliver, Move, TypeOK, ChunkTypes
  <2> QED BY <2>1, <2>2, <2>3 DEF AliasInv, AliasesResolve, Announce
<1>3. ASSUME NEW k \in Chunks, HandOver(k) \/ ReadTake(k) PROVE AliasInv'
  <2>1. UNCHANGED <<carries, mine, aliasVars>>
    BY <1>3 DEF HandOver, ReadTake
  <2>2. \A j \in Chunks : place'[j] \in {place[j], "app", "none", "upstream"}
    BY <1>3 DEF HandOver, ReadTake, Move, TypeOK, ChunkTypes
  <2> QED BY <1>0, <2>1, <2>2, AliasKept DEF Announce
<1>4. ASSUME NEW k \in Chunks, PushResult(k) PROVE AliasInv'
  <2>1. UNCHANGED <<carries, mine, aliasVars>>
    BY <1>4 DEF PushResult
  <2>2. Resolves(k)
    BY DEF AliasInv, Resolves
  <2>3. \A j \in Chunks : place'[j] \in {place[j], "buffered"}
    BY <1>4, <2>2 DEF PushResult, Move, TypeOK, ChunkTypes
  <2> QED BY <1>0, <2>1, <2>3, AliasKept DEF Announce
<1>5. ASSUME NEW k \in Chunks, NEW kind \in {"upstream", "data"},
             Assign(k, kind)
      PROVE  AliasInv'
  <2>1. UNCHANGED <<carries, pending, ack, known>>
    BY <1>5 DEF Assign
  <2>2. CASE NeedsAlias(k, kind)
    <3>1. /\ kind \in Kinds
          /\ assigned'[kind] = assigned[kind] + 1
          /\ \A other \in Kinds \ {kind} : assigned'[other] = assigned[other]
      BY <1>5, <2>2 DEF Assign, NeedsAlias, TypeOK, AliasTypes
    <3>2. \A other \in Kinds :
            /\ assigned[other] \in Nat /\ assigned'[other] \in Nat
            /\ assigned[other] <= assigned'[other]
      BY <3>1 DEF TypeOK, AliasTypes
    <3>3. \A other \in Kinds :
            1..assigned[other] \subseteq 1..assigned'[other]
      BY <3>2
    <3>4. /\ place'[k] = Announce(kind) /\ mine'[k] = assigned[kind] + 1
          /\ \A j \in Chunks \ {k} : place'[j] = place[j] /\ mine'[j] = mine[j]
      <4>1. place'[k] = Announce(kind)
            /\ \A j \in Chunks \ {k} : place'[j] = place[j]
        BY <1>5, <2>2 DEF Assign, Move, TypeOK, ChunkTypes
      <4>2. mine'[k] = assigned[kind] + 1
            /\ \A j \in Chunks \ {k} : mine'[j] = mine[j]
        BY <1>5, <2>2 DEF Assign, TypeOK, ChunkTypes
      <4> QED BY <4>1, <4>2
    <3>5. \A j \in Chunks, other \in Kinds :
            carries'[j][other] <= assigned'[other]
      BY <2>1, <3>1, <3>2 DEF AliasInv, TypeOK, ChunkTypes
    <3>6. \A j \in Chunks, other \in Kinds :
            place'[j] = Announce(other) => mine'[j] \in 1..assigned'[other]
      <4>1. \A other \in Kinds : Announce(other) = Announce(kind) => other = kind
        BY AnnounceApart, <3>1
      <4>2. mine'[k] \in 1..assigned'[kind]
        BY <3>1, <3>2, <3>4
      <4>3. \A j \in Chunks, other \in Kinds :
              place[j] = Announce(other) => mine[j] \in 1..assigned[other]
        BY DEF AliasInv
      <4> QED BY <3>3, <3>4, <4>1, <4>2, <4>3
    <3>7. \A j \in Chunks : place'[j] # "failed"
      BY <1>0, <3>4 DEF Announce
    <3> QED BY <2>1, <3>3, <3>5, <3>6, <3>7 DEF AliasInv, AliasesResolve
  <2>3. CASE ~NeedsAlias(k, kind)
    <3>1. UNCHANGED <<assigned, mine>>
      BY <1>5, <2>3 DEF Assign
    <3>2. \A j \in Chunks : place'[j] \in {place[j], "data", "resolve"}
      BY <1>5, <2>3 DEF Assign, Move, After, TypeOK, ChunkTypes
    <3> QED BY <1>0, <2>1, <3>1, <3>2, AliasKept DEF Announce
  <2> QED BY <2>2, <2>3
<1>6. ASSUME NEW k \in Chunks, NEW kind \in {"upstream", "data"},
             PushAlias(k, kind)
      PROVE  AliasInv'
  <2>1. UNCHANGED <<carries, assigned, ack, known>>
    BY <1>6 DEF PushAlias
  <2>2. \A other \in Kinds : pending'[other] \subseteq 1..assigned[other]
    <3>1. kind \in Kinds => mine[k] \in 1..assigned[kind]
      BY <1>6 DEF PushAlias, Move, AliasInv
    <3> QED BY <1>6, <3>1 DEF PushAlias, AliasInv, TypeOK, AliasTypes
  <2>3. \A j \in Chunks : \/ j # k /\ place'[j] = place[j] /\ mine'[j] = mine[j]
                          \/ place'[j] \in {"data", "resolve"}
    BY <1>6 DEF PushAlias, Move, After, TypeOK, ChunkTypes
  <2> QED BY <1>0, <2>1, <2>2, <2>3 DEF AliasInv, AliasesResolve, Announce
<1>7. CASE FlusherNext
  <2>1. ASSUME NEW from, NEW to, NEW next, FlushTake(from, to, next)
        PROVE  AliasInv'
    <3>1. UNCHANGED <<carries, assigned, known, mine>>
      BY <2>1 DEF FlushTake
    <3>2. \A j \in Chunks : place'[j] \in {place[j], "sending"}
      BY <2>1 DEF FlushTake
    <3>3. \A kind \in Kinds : /\ ack'[kind] \in {ack[kind], pending[kind]}
                             /\ pending'[kind] \in {pending[kind], {}}
      BY <2>1 DEF FlushTake, Nothing
    <3> QED BY <1>0, <3>1, <3>2, <3>3 DEF AliasInv, AliasesResolve, Announce
  <2>2. ASSUME NEW from, NEW next, FlushSend(from, next) PROVE AliasInv'
    <3>1. UNCHANGED <<carries, assigned, pending, mine>>
      BY <2>2 DEF FlushSend
    <3>2. \A j \in Chunks : place'[j] \in {place[j], "none"}
      BY <2>2 DEF FlushSend
    <3>3. \A kind \in Kinds :
            /\ ack'[kind] = {}
            /\ known'[kind] \in {known[kind], known[kind] \union ack[kind]}
      BY <2>2 DEF FlushSend, Nothing
    <3> QED BY <1>0, <3>1, <3>2, <3>3 DEF AliasInv, AliasesResolve, Announce
  <2>3. CASE StopFlusher \/ FlushStop \/ FlushClose
    <3>1. UNCHANGED <<chunkVars, aliasVars>>
      BY <2>3 DEF StopFlusher, FlushStop, FlushClose
    <3> QED BY <1>0, <3>1, AliasKept
  <2> QED BY <1>7, <2>1, <2>2, <2>3 DEF FlusherNext, FlushTick, FlushFinal
<1>8. CASE RunnerNext
  <2>1. UNCHANGED <<carries, mine, aliasVars>>
    BY <1>8 DEF RunnerNext, WatcherFires, WatcherEnds, RunReturns, WaitOver,
       ResumeBegin, ResumeOK, KeepAliases, ResumeFails, ResumeTearDown,
       ResumeTornDown
  <2>2. \A k \in Chunks : place'[k] \in {place[k], "none"}
    BY <1>8 DEF RunnerNext, WatcherFires, WatcherEnds, RunReturns, WaitOver,
       ResumeBegin, ResumeOK, NewChannels, ResumeFails, ResumeTearDown,
       ResumeTornDown
  <2> QED BY <1>0, <2>1, <2>2, AliasKept DEF Announce
<1>9. ASSUME NEW c \in Closers, CloserNext(c) PROVE AliasInv'
  <2>1. UNCHANGED <<chunkVars, aliasVars>>
    BY <1>9 DEF CloserNext, CloseBegin, CloseSwap, CloseDrain, CloseFlushed,
       CloseGivesUp, CloseSend, CloseReturn
  <2> QED BY <1>0, <2>1, AliasKept
<1>10. CASE UNCHANGED vars
  BY <1>0, <1>10, AliasKept DEF vars
<1> QED BY <1>1, <1>2, <1>3, <1>4, <1>5, <1>6, <1>7, <1>8, <1>9, <1>10
        DEF Next, ReadNext

-----------------------------------------------------------------------------
(* Where the runs, the flusher and the state of the stream stand together. *)
LEMMA RunStep ==
  ASSUME TypeOK, RunInv, [Next]_vars
  PROVE  RunInv'
<1> USE DEF RunInv
<1>1. CASE Connection \/ CancelByConn \/ ReaderEnds
  <2>1. /\ UNCHANGED <<flushVars, watcher, rpc, state>>
        /\ closed' = closed \/ closed' = TRUE
    BY <1>1 DEF Connection, CancelByConn, ReaderEnds
  <2> QED BY <2>1
<1>2. ASSUME NEW k \in Chunks,
             Deliver(k) \/ HandOver(k) \/ ReadTake(k) \/ ReadNext(k)
      PROVE  RunInv'
  <2>1. UNCHANGED <<flushVars, runVars, linkVars>>
    BY <1>2 DEF Deliver, HandOver, ReadTake, ReadNext, Assign, PushAlias,
       PushResult
  <2> QED BY <2>1
<1>3. CASE FlusherNext
  <2>1. CASE FlushTick
    <3>1. /\ flusher \in {"loop", "loop send"} /\ flusher' \in {"loop", "loop send"}
          /\ UNCHANGED <<stop, flushed, runVars, linkVars>>
      BY <2>1 DEF FlushTick, FlushTake, FlushSend
    <3> QED BY <3>1
  <2>2. CASE FlushFinal
    <3>1. /\ flusher \in {"final", "final send", "last", "last send"}
          /\ UNCHANGED <<stop, flushed, runVars, linkVars>>
      BY <2>2 DEF FlushFinal, FlushTake, FlushSend
    <3> QED BY <3>1
  <2>3. CASE StopFlusher
    BY <2>3 DEF StopFlusher
  <2>4. CASE FlushStop
    BY <2>4 DEF FlushStop, RunCancelled
  <2>5. CASE FlushClose
    BY <2>5 DEF FlushClose
  <2> QED BY <1>3, <2>1, <2>2, <2>3, <2>4, <2>5 DEF FlusherNext
<1>4. CASE RunnerNext
  <2>1. CASE WatcherFires
    <3>1. /\ state' = "Resuming" /\ watcher' = "err"
          /\ UNCHANGED <<flushVars, rpc>>
      BY <2>1 DEF WatcherFires
    <3> QED BY <3>1
  <2>2. CASE WatcherEnds
    <3>1. closed' /\ watcher' = "nil" /\ UNCHANGED <<flushVars, rpc>>
      BY <2>2 DEF WatcherEnds
    <3> QED BY <3>1
  <2>3. CASE RunReturns \/ WaitOver \/ ResumeFails
    BY <2>3 DEF RunReturns, WaitOver, ResumeFails
  <2>4. CASE ResumeBegin
    BY <2>4 DEF ResumeBegin
  <2>5. CASE ResumeOK
    BY <2>5 DEF ResumeOK, NewChannels, StartRun
  <2>6. CASE ResumeTearDown \/ ResumeTornDown
    BY <2>6 DEF ResumeTearDown, ResumeTornDown
  <2> QED BY <1>4, <2>1, <2>2, <2>3, <2>4, <2>5, <2>6 DEF RunnerNext
<1>5. ASSUME NEW c \in Closers, CloserNext(c) PROVE RunInv'
  <2>1. /\ UNCHANGED <<flushVars, runVars>>
        /\ closed => closed'
        /\ state' = state \/ state' = "Draining"
    BY <1>5 DEF CloserNext, CloseBegin, CloseSwap, CloseDrain, CloseFlushed,
       CloseGivesUp, CloseSend, CloseReturn
  <2> QED BY <2>1
<1>6. CASE UNCHANGED vars
  BY <1>6 DEF vars
<1> QED BY <1>1, <1>2, <1>3, <1>4, <1>5, <1>6 DEF Next

-----------------------------------------------------------------------------
(* What the closers wait for. *)
LEMMA OwedKept ==
  ASSUME OwedInv, UNCHANGED <<owed, flusher>>,
         \A k \in Chunks :
           /\ place'[k] = "sending" <=> place[k] = "sending"
           /\ place[k] = "buffered" => place'[k] = "buffered"
           /\ place'[k] = "buffered" =>
                \/ place[k] = "buffered"
                \/ \A c \in Closers : k \notin owed[c],
         \A c \in Closers : cpc'[c] = "flushed" => cpc[c] = "flushed"
  PROVE  OwedInv'
<1>1. Sending' = Sending
  BY DEF Sending
<1>2. Buffered \subseteq Buffered'
  BY DEF Buffered
<1>3. \A c \in Closers : owed[c] \intersect Buffered' \subseteq Buffered
  BY DEF Buffered
<1> QED BY <1>1, <1>2, <1>3 DEF OwedInv, FinalFlush

LEMMA OwedStep ==
  ASSUME TypeOK, RunInv, OwedInv, [Next]_vars
  PROVE  OwedInv'
<1>1. CASE Connection \/ CancelByConn \/ ReaderEnds
  BY <1>1, OwedKept DEF Connection, CancelByConn, ReaderEnds
<1>2. ASSUME NEW k \in Chunks,
             Deliver(k) \/ HandOver(k) \/ ReadTake(k) \/ ReadNext(k)
      PROVE  OwedInv'
  <2>1. UNCHANGED <<flusher, cpc, owed>>
    BY <1>2 DEF Deliver, HandOver, ReadTake, ReadNext, Assign, PushAlias,
       PushResult
  <2>2. /\ place[k] \in {"none", "wire", "app"} \union Reading
        /\ place'[k] \in Place \ {"sending"}
        /\ \A j \in Chunks \ {k} : place'[j] = place[j]
    BY <1>2 DEF Deliver, HandOver, ReadTake, ReadNext, Assign, PushAlias,
       PushResult, Move, After, Announce, Reading, Place, TypeOK, ChunkTypes
  <2>3. \A c \in Closers : k \notin owed[c]
    BY <2>2 DEF OwedInv, Buffered, Sending, Reading
  <2> QED BY <2>1, <2>2, <2>3, OwedKept DEF Reading
<1>3. CASE FlusherNext
  <2>1. ASSUME NEW from, NEW to, NEW next, FlushTake(from, to, next),
               <<from, to, next>> \in {<<"loop", "loop send", "loop">>,
                                      <<"final", "final send", "last">>,
                                      <<"last", "last send", "closing">>}
        PROVE  OwedInv'
    <3>1. flusher = from /\ UNCHANGED <<cpc, owed>> /\ Sending = {}
      BY <2>1 DEF FlushTake, OwedInv
    <3>2. CASE Buffered = {} /\ pending = Nothing
      <4>1. flusher' = next /\ UNCHANGED place
        BY <2>1, <3>2 DEF FlushTake
      <4>2. Sending' = {} /\ Buffered' = {}
        BY <3>1, <3>2, <4>1 DEF Sending, Buffered
      <4> QED BY <3>1, <3>2, <4>2 DEF OwedInv, FinalFlush
    <3>3. CASE ~(Buffered = {} /\ pending = Nothing)
      <4>1. flusher' = to
        BY <2>1, <3>3 DEF FlushTake
      <4>2. Sending' = Buffered /\ Buffered' = {}
        BY <2>1, <3>1, <3>3 DEF FlushTake, Sending, Buffered
      <4> QED BY <2>1, <3>1, <4>1, <4>2 DEF OwedInv, FinalFlush
    <3> QED BY <3>2, <3>3
  <2>2. ASSUME NEW from, NEW next, FlushSend(from, next),
               <<from, next>> \in {<<"loop send", "loop">>,
                                  <<"final send", "last">>,
                                  <<"last send", "closing">>}
        PROVE  OwedInv'
    <3>1. Sending' = {} /\ Buffered' = Buffered
      BY <2>2 DEF FlushSend, Sending, Buffered
    <3>2. \A c \in Closers : owed'[c] = owed[c] \ Sending
      BY <2>2 DEF FlushSend
    <3>3. flusher = from /\ flusher' = next /\ cpc' = cpc
      BY <2>2 DEF FlushSend
    <3> QED BY <2>2, <3>1, <3>2, <3>3 DEF OwedInv, FinalFlush
  <2>3. CASE StopFlusher
    BY <2>3, OwedKept DEF StopFlusher
  <2>4. CASE FlushStop \/ FlushClose
    <3>1. /\ flusher \in {"loop", "closing"}
          /\ flusher' = IF flusher = "loop" THEN "final" ELSE "ended"
          /\ UNCHANGED <<place, owed, cpc>>
      BY <2>4 DEF FlushStop, FlushClose
    <3>2. Sending' = Sending /\ Buffered' = Buffered
      BY <3>1 DEF Sending, Buffered
    <3> QED BY <3>1, <3>2 DEF OwedInv, FinalFlush
  <2> QED BY <1>3, <2>1, <2>2, <2>3, <2>4 DEF FlusherNext, FlushTick, FlushFinal
<1>4. CASE RunnerNext
  <2>1. CASE ResumeOK
    <3>1. flusher = "ended" /\ flusher' = "loop" /\ owed' = owed
      BY <2>1 DEF ResumeOK, StartRun, RunInv
    <3>2. Sending' = Sending /\ Buffered' = Buffered
      BY <2>1 DEF ResumeOK, NewChannels, Sending, Buffered
    <3>3. \A c \in Closers : owed[c] = {}
      BY <3>1 DEF OwedInv
    <3> QED BY <3>1, <3>2, <3>3 DEF OwedInv, FinalFlush
  <2>2. CASE ~ResumeOK
    <3>1. UNCHANGED <<place, flusher, cpc, owed>>
      BY <1>4, <2>2 DEF RunnerNext, WatcherFires, WatcherEnds, RunReturns,
         WaitOver, ResumeBegin, ResumeFails, ResumeTearDown, ResumeTornDown
    <3> QED BY <3>1, OwedKept
  <2> QED BY <2>1, <2>2
<1>5. ASSUME NEW c \in Closers, CloserNext(c) PROVE OwedInv'
  <2>1. UNCHANGED <<place, flusher>>
    BY <1>5 DEF CloserNext, CloseBegin, CloseSwap, CloseDrain, CloseFlushed,
       CloseGivesUp, CloseSend, CloseReturn
  <2>2. Sending' = Sending /\ Buffered' = Buffered
    BY <2>1 DEF Sending, Buffered
  <2>3. CASE CloseSwap(c)
    <3>1. \A d \in Closers : cpc'[d] = "flushed" => cpc[d] = "flushed"
      BY <2>3 DEF CloseSwap, CloserStep, TypeOK, GoroutineTypes
    <3>2. CASE owed' = owed
      BY <2>1, <3>1, <3>2, OwedKept
    <3>3. CASE owed' # owed
      <4>1. state = "Connected" /\ cpc'[c] = "drain"
        BY <2>3, <3>3 DEF CloseSwap, CloserStep, TypeOK, GoroutineTypes
      <4>2. owed'[c] = {} \/ (~closed /\ owed'[c] = Buffered \union Sending)
        BY <2>3, <3>3 DEF CloseSwap, TypeOK, GoroutineTypes
      <4>3. \A d \in Closers \ {c} : owed'[d] = owed[d]
        BY <2>3 DEF CloseSwap, TypeOK, GoroutineTypes
      <4>4. ~closed => flusher \in {"loop", "loop send"}
        BY <4>1 DEF RunInv
      <4> QED BY <2>1, <2>2, <3>1, <4>1, <4>2, <4>3, <4>4
              DEF OwedInv, FinalFlush
    <3> QED BY <3>2, <3>3
  <2>4. CASE CloseFlushed(c)
    <3>1. flusher = "ended" /\ owed' = owed
      BY <2>4 DEF CloseFlushed, RunInv
    <3>2. \A d \in Closers : owed[d] = {}
      BY <3>1 DEF OwedInv
    <3> QED BY <2>1, <2>2, <3>1, <3>2 DEF OwedInv, FinalFlush
  <2>5. CASE ~CloseSwap(c) /\ ~CloseFlushed(c)
    <3>1. /\ owed' = owed
          /\ \A d \in Closers : cpc'[d] = "flushed" => cpc[d] = "flushed"
      BY <1>5, <2>5 DEF CloserNext, CloseBegin, CloseDrain, CloseGivesUp,
         CloseSend, CloseReturn, CloserStep, TypeOK, GoroutineTypes
    <3> QED BY <2>1, <3>1, OwedKept
  <2> QED BY <2>3, <2>4, <2>5
<1>6. CASE UNCHANGED vars
  BY <1>6, OwedKept DEF vars
<1> QED BY <1>1, <1>2, <1>3, <1>4, <1>5, <1>6 DEF Next

-----------------------------------------------------------------------------
(* The inductive invariant: it holds of every behaviour of Downstream.     *)
THEOREM DownstreamInvariant == Spec => []IInv
<1>1. Init => IInv
  <2> SUFFICES ASSUME Init PROVE IInv
    OBVIOUS
  <2>1. TypeOK
    BY InitTypes
  <2>2. AliasInv
    BY DEF Init, AliasInv, AliasesResolve, Nothing, Announce
  <2>3. BoundInv
    <3>1. Unassigned = {}
      BY DEF Init, Unassigned
    <3>2. Cardinality(Unassigned) = 0
      BY <3>1, FS_EmptySet
    <3> QED BY <3>2 DEF Init, BoundInv, AliasesTaken
  <2>4. RunInv
    BY DEF Init, RunInv
  <2>5. OwedInv
    BY DEF Init, OwedInv, FinalFlush, Sending, Buffered
  <2> QED BY <2>1, <2>2, <2>3, <2>4, <2>5 DEF IInv
<1>2. IInv /\ [Next]_vars => IInv'
  BY TypesStep, AliasStep, BoundStep, RunStep, OwedStep DEF IInv
<1> QED BY <1>1, <1>2, PTL DEF Spec

(* Every variable keeps its type, and the aliases keep within the bound    *)
(* TLC's run is given.                                                     *)
THEOREM DownstreamTypes == Spec => []TypeOK
<1>1. IInv => TypeOK
  BY DEF IInv
<1> QED BY <1>1, DownstreamInvariant, PTL

(* No chunk is refused for an alias the stream does not know, across any   *)
(* number of resumes.                                                      *)
THEOREM DownstreamAliasesResolve == Spec => []AliasesResolve
<1>1. IInv => AliasesResolve
  BY DEF IInv, AliasInv
<1> QED BY <1>1, DownstreamInvariant, PTL

(* finalAckFlushed is never closed a second time.                          *)
THEOREM DownstreamFlushedClosedOnce == Spec => []FlushedClosedOnce
<1>1. IInv => FlushedClosedOnce
  BY DEF IInv, RunInv, FlushedClosedOnce
<1> QED BY <1>1, DownstreamInvariant, PTL

(* A Close that finalAckFlushed let through has nothing left to be sent.   *)
THEOREM DownstreamFinalFlush == Spec => []FinalFlush
<1>1. IInv => FinalFlush
  BY DEF IInv, OwedInv
<1> QED BY <1>1, DownstreamInvariant, PTL

=============================================================================
