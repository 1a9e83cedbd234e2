-------------------------- MODULE ReconnectProofs --------------------------
(***************************************************************************)
(* Proofs about Reconnect for every set of callers, every limit of the     *)
(* attempts and any number of transports.                                  *)
(***************************************************************************)
EXTENDS Reconnect, FiniteSetTheorems, TLAPS

(* mu is held exactly by the loop that dials.                              *)
LockInv == \A l \in Loops : mu = l <=> at[l] \in {"dial", "dialling"}

(* Until initialConnect has installed its transport there is none, and no  *)
(* loop goes where it would need one.                                      *)
FirstInv ==
  /\ at["initial"] \in {"dial", "dialling", "install"} => transport = None
  /\ at["initial"] = "announce" => transport # None
  /\ doneCh = "ok" \/ status \in {"Connected", "Reconnecting"}
       => transport # None
  /\ at["write"] \in {"lookup", "busy", "reconnect", "dial", "dialling"}
       => transport # None
  /\ at["read"] \in {"busy", "reconnect", "dial", "dialling", "deliver", "pong"}
       => transport # None
  /\ at["read"] = "head" => cancelled \/ transport # None

(* Who has not been closed: the transport in use, or the one that          *)
(* initialConnect has dialled; and nobody while a loop dials.              *)
LinkInv ==
  /\ at["initial"] = "install" => held["initial"] \in Transports
  /\ \A t \in Unclosed :
       t = transport \/ (at["initial"] = "install" /\ held["initial"] = t)
  /\ \A l \in Loops : at[l] \in {"dial", "dialling"} => transport \notin Unclosed

(* A closer that has been through mu has left nothing behind, and no loop  *)
(* in the middle of a reconnection.                                        *)
CloserInv ==
  \A c \in Closers :
    /\ closer[c] # "idle" => cancelled
    /\ closer[c] = "closed" =>
         /\ mu = "free"
         /\ status # "Reconnecting"
         /\ transport \notin Unclosed

IInv == TypeOK /\ LockInv /\ FirstInv /\ LinkInv /\ CloserInv

-----------------------------------------------------------------------------
USE ReconnectAssumption
    DEF Transports, None, Loops, Dialers, Requesters, InitialPC, LoopPC, Goto, Hold, Restart,
        stateVars, linkVars, loopVars, queueVars, readVars, userVars

(* The invariant holds at first. *)
LEMMA InitIInv == Init => IInv
<1> SUFFICES ASSUME Init PROVE IInv
  OBVIOUS
<1>1. TypeOK
  <2>1. at \in [Dialers -> InitialPC \union LoopPC]
    BY DEF Init
  <2>2. queue \in Seq(Requesters) /\ inbox \in Seq({"data", "error"}) /\ Len(inbox) <= InboxSize
    BY DEF Init
  <2>3. transport \in Transports \union {None} /\ limit \in Limits
    BY DEF Init
  <2> QED BY <2>1, <2>2, <2>3 DEF Init, TypeOK
<1>2. LockInv /\ FirstInv /\ CloserInv
  BY DEF Init, LockInv, FirstInv, CloserInv
<1>3. LinkInv
  BY DEF Init, LinkInv, Unclosed
<1> QED BY <1>1, <1>2, <1>3 DEF IInv

(* readResCh is not filled beyond its capacity. *)
LEMMA DeliverTypes ==
  ASSUME TypeOK, NEW item \in {"data", "error"}, Deliver(item)
  PROVE  inbox' \in Seq({"data", "error"}) /\ Len(inbox') <= InboxSize
<1>1. inbox \in Seq({"data", "error"}) /\ Len(inbox) <= InboxSize
  BY DEF TypeOK
<1>2. CASE Len(inbox) < InboxSize /\ inbox' = Append(inbox, item)
  <2>1. Len(inbox') = Len(inbox) + 1 /\ inbox' \in Seq({"data", "error"})
    BY <1>1, <1>2
  <2> QED BY <1>1, <1>2, <2>1
<1> QED BY <1>1, <1>2 DEF Deliver

USE DEF IInv, TypeOK, LockInv, FirstInv, LinkInv, CloserInv, Unclosed

(* initialConnect. *)
LEMMA InitialIInv ==
  ASSUME IInv,
         \/ InitialGivesUp \/ Install \/ InstallClosed \/ Announce
         \/ AnnounceFailure \/ Abort \/ InitialDialOK
  PROVE  IInv'
<1>1. CASE InitialGivesUp
  BY <1>1 DEF InitialGivesUp, Exhausted
<1>2. CASE Install
  BY <1>2 DEF Install
<1>3. CASE InstallClosed
  BY <1>3 DEF InstallClosed
<1>4. CASE Announce
  BY <1>4 DEF Announce
<1>5. CASE AnnounceFailure
  BY <1>5 DEF AnnounceFailure
<1>6. CASE Abort
  BY <1>6 DEF Abort
<1>7. CASE InitialDialOK
  BY <1>7 DEF InitialDialOK, Fresh
<1> QED BY <1>1, <1>2, <1>3, <1>4, <1>5, <1>6, <1>7

(* pingLoop. *)
LEMMA PingIInv ==
  ASSUME IInv, PingStart \/ PingAwaited \/ PingSend \/ PingSent \/ PingEnds
  PROVE  IInv'
<1>1. CASE PingStart
  BY <1>1 DEF PingStart, Refused, MustWait
<1>2. CASE PingAwaited
  BY <1>2 DEF PingAwaited, Awaited
<1>3. CASE PingSend
  BY <1>3 DEF PingSend, Request
<1>4. CASE PingSent
  BY <1>4 DEF PingSent, Return
<1>5. CASE PingEnds
  BY <1>5 DEF PingEnds
<1> QED BY <1>1, <1>2, <1>3, <1>4, <1>5

(* writeLoop, but for its reconnections. *)
LEMMA WriteIInv ==
  ASSUME IInv,
         \/ WriteTake \/ WriteStart \/ WriteAwaited \/ WriteLookup
         \/ WriteOK \/ WriteFails \/ WriteEnds
  PROVE  IInv'
<1>1. CASE WriteTake
  BY <1>1 DEF WriteTake
<1>2. CASE WriteStart
  BY <1>2 DEF WriteStart, Refused, MustWait, Answer
<1>3. CASE WriteAwaited
  BY <1>3 DEF WriteAwaited, Awaited, Answer
<1>4. CASE WriteLookup
  BY <1>4 DEF WriteLookup
<1>5. CASE WriteOK
  BY <1>5 DEF WriteOK, Answer
<1>6. CASE WriteFails
  BY <1>6 DEF WriteFails
<1>7. CASE WriteEnds
  BY <1>7 DEF WriteEnds
<1> QED BY <1>1, <1>2, <1>3, <1>4, <1>5, <1>6, <1>7

(* readLoop, but for its reconnections, and the peer. *)
LEMMA ReadIInv ==
  ASSUME IInv,
         \/ ReadStart \/ ReadAwaited \/ ReadLookup \/ ReadEnds \/ PongSent
         \/ ReadDeliver \/ ReadReport \/ ReadFails \/ ReadData \/ ReadPing \/ Read
  PROVE  IInv'
<1>1. CASE ReadStart
  <2>1. CASE Refused
    BY <1>1, <2>1 DEF ReadStart, ReadLeaves
  <2>2. CASE ~Refused
    <3>1. ~MustWait => cancelled \/ transport # None
      BY <2>2 DEF Refused, MustWait
    <3> QED BY <1>1, <2>2, <3>1 DEF ReadStart
  <2> QED BY <2>1, <2>2
<1>2. CASE ReadAwaited
  <2>1. CASE Awaited(TRUE) /\ Goto("read", "head") /\ UNCHANGED readClosed
    <3>1. transport # None
      BY <2>1 DEF Awaited
    <3> QED BY <1>2, <2>1, <3>1 DEF ReadAwaited
  <2>2. CASE ReadLeaves
    BY <1>2, <2>2 DEF ReadAwaited, ReadLeaves
  <2> QED BY <1>2, <2>1, <2>2 DEF ReadAwaited
<1>3. CASE ReadLookup
  BY <1>3 DEF ReadLookup
<1>4. CASE ReadEnds
  BY <1>4 DEF ReadEnds, ReadLeaves
<1>5. CASE PongSent
  BY <1>5 DEF PongSent, Return
<1>6. CASE ReadDeliver
  <2>1. inbox' \in Seq({"data", "error"}) /\ Len(inbox') <= InboxSize
    BY <1>6, DeliverTypes DEF ReadDeliver
  <2> QED BY <1>6, <2>1 DEF ReadDeliver
<1>7. CASE ReadReport
  <2>1. inbox' \in Seq({"data", "error"}) /\ Len(inbox') <= InboxSize
    BY <1>7, DeliverTypes DEF ReadReport
  <2> QED BY <1>7, <2>1 DEF ReadReport, ReadLeaves
<1>8. CASE ReadFails
  BY <1>8 DEF ReadFails
<1>9. CASE ReadData
  BY <1>9 DEF ReadData, Arrives
<1>10. CASE ReadPing
  BY <1>10 DEF ReadPing, Arrives, Request
<1>11. CASE Read
  BY <1>11 DEF Read, Refused, MustWait
<1> QED BY <1>1, <1>2, <1>3, <1>4, <1>5, <1>6, <1>7, <1>8, <1>9, <1>10, <1>11

(* The dials. *)
LEMMA DialIInv ==
  ASSUME IInv, NEW d \in Dialers, Dial(d)
  PROVE  IInv'
<1>1. CASE DialBegin(d)
  BY <1>1 DEF DialBegin
<1>2. CASE DialFails(d)
  BY <1>2 DEF DialFails, CountAttempt
<1> QED BY <1>1, <1>2 DEF Dial

(* The reconnections of the two loops. *)
LEMMA ReconnectIInv ==
  ASSUME IInv, NEW l \in Loops, Reconnect(l) \/ ReconnectOK(l)
  PROVE  IInv'
<1>1. CASE ReconnectClosed(l)
  BY <1>1 DEF ReconnectClosed, Fails, Answer
<1>2. CASE ReconnectStale(l)
  BY <1>2 DEF ReconnectStale, Succeeds
<1>3. CASE ReconnectBegin(l)
  BY <1>3 DEF ReconnectBegin
<1>4. CASE ReconnectGivesUp(l)
  BY <1>4 DEF ReconnectGivesUp, Fails, Answer
<1>5. CASE ReconnectOK(l)
  BY <1>5 DEF ReconnectOK, Succeeds, Fresh
<1> QED BY <1>1, <1>2, <1>3, <1>4, <1>5 DEF Reconnect

(* The callers of Write and of CloseWithStatus, and the network. *)
LEMMA CallersIInv ==
  ASSUME IInv,
         \/ \E w \in Writers : WriteBegin(w) \/ WriteReturns(w)
         \/ \E c \in Closers : CloseCancel(c) \/ CloseLocked(c)
         \/ \E t \in Transports : Break(t)
  PROVE  IInv'
<1>1. ASSUME NEW w \in Writers, WriteBegin(w) PROVE IInv'
  BY <1>1 DEF WriteBegin, Request
<1>2. ASSUME NEW w \in Writers, WriteReturns(w) PROVE IInv'
  BY <1>2 DEF WriteReturns, Return
<1>3. ASSUME NEW c \in Closers, CloseCancel(c) PROVE IInv'
  BY <1>3 DEF CloseCancel
<1>4. ASSUME NEW c \in Closers, CloseLocked(c) PROVE IInv'
  BY <1>4 DEF CloseLocked
<1>5. ASSUME NEW t \in Transports, Break(t) PROVE IInv'
  BY <1>5 DEF Break
<1> QED BY <1>1, <1>2, <1>3, <1>4, <1>5

(* The invariant holds in every reachable state. *)
THEOREM ReconnectInvariant == Spec => []IInv
<1>1. IInv /\ [Next]_vars => IInv'
  <2> SUFFICES ASSUME IInv, [Next]_vars PROVE IInv'
    OBVIOUS
  <2>1. CASE Initial \/ InitialDialOK
    BY <2>1, InitialIInv, DialIInv DEF Initial
  <2>2. CASE PingLoop
    BY <2>2, PingIInv DEF PingLoop
  <2>3. CASE WriteLoop
    BY <2>3, WriteIInv, ReconnectIInv, DialIInv DEF WriteLoop
  <2>4. CASE ReadLoop \/ Peer \/ Read
    BY <2>4, ReadIInv, ReconnectIInv, DialIInv DEF ReadLoop, Peer
  <2>5. CASE DialOK
    BY <2>1, <2>5, ReconnectIInv DEF DialOK
  <2>6. CASE UNCHANGED vars
    BY <2>6 DEF vars
  <2> QED BY <2>1, <2>2, <2>3, <2>4, <2>5, <2>6, CallersIInv DEF Next
<1> QED BY InitIInv, <1>1, PTL DEF Spec

-----------------------------------------------------------------------------
(* What the invariant gives: the properties of Reconnect. *)

(* Every variable keeps its type. *)
THEOREM ReconnectTypes == Spec => []TypeOK
<1>1. IInv => TypeOK
  OBVIOUS
<1> QED BY ReconnectInvariant, <1>1, PTL

(* There is one transport that is not closed at a time, through all        *)
(* reconnections.                                                          *)
THEOREM ReconnectOneTransport == Spec => []OneTransport
<1>1. IInv => OneTransport
  <2> SUFFICES ASSUME IInv PROVE OneTransport
    OBVIOUS
  <2> DEFINE last == IF at["initial"] = "install" THEN held["initial"] ELSE transport
  <2>1. Unclosed \subseteq {last}
    OBVIOUS
  <2>2. Cardinality(Unclosed) <= 1
    <3> HIDE DEF Unclosed, last
    <3>1. Unclosed = {} \/ Unclosed = {last}
      BY <2>1
    <3>2. Cardinality({}) = 0 /\ Cardinality({last}) = 1
      BY FS_EmptySet, FS_Singleton
    <3>3. Cardinality(Unclosed) \in {0, 1}
      BY <3>1, <3>2
    <3> QED BY <3>3
  <2> QED BY <2>2 DEF OneTransport
<1> QED BY ReconnectInvariant, <1>1, PTL

(* A CloseWithStatus that has returned leaves no transport behind.         *)
THEOREM ReconnectNoTransportLeak == Spec => []NoTransportLeak
<1>1. IInv => NoTransportLeak
  BY DEF NoTransportLeak
<1> QED BY ReconnectInvariant, <1>1, PTL

(* Nothing replaces the transport of a Transport that is closed.           *)
THEOREM ReconnectStaysClosed == Spec => StaysClosed
<1> DEFINE Closed == \E c \in Closers : closer[c] = "closed"
           Settled == status' \in {status, "Disconnected"} \/ at["initial"] = "announce"
           Stays == Closed => transport' = transport /\ status' # "Reconnecting" /\ Settled
<1>1. ASSUME IInv, [Next]_vars PROVE Stays
  <2> SUFFICES ASSUME Closed
               PROVE  transport' = transport /\ status' # "Reconnecting" /\ Settled
    OBVIOUS
  <2>1. /\ cancelled /\ mu = "free" /\ status # "Reconnecting"
        /\ \A l \in Loops : at[l] \notin {"dial", "dialling"}
    BY <1>1
  <2>2. ASSUME NEW l \in Loops, Reconnect(l) \/ ReconnectOK(l)
        PROVE  UNCHANGED <<transport, status>>
    BY <2>1, <2>2 DEF Reconnect, ReconnectClosed, ReconnectStale, ReconnectBegin,
       ReconnectGivesUp, ReconnectOK
  <2>3. ASSUME NEW d \in Dialers, Dial(d) PROVE UNCHANGED <<transport, status>>
    BY <2>3 DEF Dial, DialBegin, DialFails
  <2>4. CASE Initial \/ InitialDialOK
    BY <2>1, <2>3, <2>4 DEF Initial, InitialGivesUp, Install, InstallClosed, Announce,
       AnnounceFailure, Abort, InitialDialOK
  <2>5. CASE PingLoop
    BY <2>1, <2>5 DEF PingLoop, PingStart, PingAwaited, PingSend, PingSent, PingEnds
  <2>6. CASE WriteLoop
    BY <2>1, <2>2, <2>3, <2>6 DEF WriteLoop, WriteTake, WriteStart, WriteAwaited,
       WriteLookup, WriteOK, WriteFails, WriteEnds
  <2>7. CASE ReadLoop \/ Peer \/ Read
    BY <2>1, <2>2, <2>3, <2>7 DEF ReadLoop, Peer, ReadStart, ReadAwaited, ReadLookup,
       ReadEnds, PongSent, ReadDeliver, ReadReport, ReadFails, ReadData, ReadPing, Read
  <2>8. CASE \E w \in Writers : WriteBegin(w) \/ WriteReturns(w)
    BY <2>1, <2>8 DEF WriteBegin, WriteReturns
  <2>9. CASE \E c \in Closers : CloseCancel(c) \/ CloseLocked(c)
    BY <2>1, <2>9 DEF CloseCancel, CloseLocked
  <2>10. CASE \E t \in Transports : Break(t)
    BY <2>1, <2>10 DEF Break
  <2>11. CASE UNCHANGED vars
    BY <2>1, <2>11 DEF vars
  <2> QED BY <1>1, <2>2, <2>4, <2>5, <2>6, <2>7, <2>8, <2>9, <2>10, <2>11 DEF Next, DialOK
<1> QED BY <1>1, ReconnectInvariant, PTL DEF Spec, StaysClosed

(* A transport that works is closed only for a failure of its own, or      *)
(* because all is over.                                                    *)
THEOREM ReconnectWorkingTransportKept == Spec => WorkingTransportKept
<1> DEFINE Kept == \A t \in Transports :
             link[t] = "open" /\ link'[t] = "closed" =>
               cancelled \/ \E l \in Loops : at[l] = "reconnect" /\ held[l] = t
<1>1. ASSUME IInv, [Next]_vars PROVE Kept
  <2>1. ASSUME NEW l \in Loops, Reconnect(l) \/ ReconnectOK(l) PROVE Kept
    <3>1. CASE ReconnectBegin(l)
      BY <1>1, <3>1 DEF ReconnectBegin
    <3>2. CASE ReconnectOK(l)
      BY <1>1, <3>2 DEF ReconnectOK, Fresh
    <3> QED BY <2>1, <3>1, <3>2 DEF Reconnect, ReconnectClosed, ReconnectStale, ReconnectGivesUp
  <2>2. ASSUME NEW d \in Dialers, Dial(d) PROVE Kept
    BY <2>2 DEF Dial, DialBegin, DialFails
  <2>3. CASE InitialDialOK
    BY <1>1, <2>3 DEF InitialDialOK, Fresh
  <2>4. CASE Initial
    BY <2>2, <2>4 DEF Initial, InitialGivesUp, Install, InstallClosed, Announce,
       AnnounceFailure, Abort
  <2>5. CASE PingLoop
    BY <2>5 DEF PingLoop, PingStart, PingAwaited, PingSend, PingSent, PingEnds
  <2>6. CASE WriteLoop
    BY <2>1, <2>2, <2>6 DEF WriteLoop, WriteTake, WriteStart, WriteAwaited,
       WriteLookup, WriteOK, WriteFails, WriteEnds
  <2>7. CASE ReadLoop \/ Peer \/ Read
    BY <2>1, <2>2, <2>7 DEF ReadLoop, Peer, ReadStart, ReadAwaited, ReadLookup,
       ReadEnds, PongSent, ReadDeliver, ReadReport, ReadFails, ReadData, ReadPing, Read
  <2>8. CASE \E w \in Writers : WriteBegin(w) \/ WriteReturns(w)
    BY <2>8 DEF WriteBegin, WriteReturns
  <2>9. ASSUME NEW c \in Closers, CloseCancel(c) \/ CloseLocked(c) PROVE Kept
    BY <1>1, <2>9 DEF CloseCancel, CloseLocked
  <2>10. ASSUME NEW t \in Transports, Break(t) PROVE Kept
    BY <1>1, <2>10 DEF Break
  <2>11. CASE UNCHANGED vars
    BY <2>11 DEF vars
  <2> QED BY <1>1, <2>1, <2>3, <2>4, <2>5, <2>6, <2>7, <2>8, <2>9, <2>10, <2>11 DEF Next, DialOK
<1> QED BY <1>1, ReconnectInvariant, PTL DEF Spec, WorkingTransportKept

-----------------------------------------------------------------------------
(* What becomes of the requests to write. *)

Queued(q) == \E i \in 1..Len(queue) : queue[i] = q

(* A request that was made and neither answered nor called off by the end  *)
(* of the transport is in writeReqCh or with a write loop that goes on     *)
(* working on it: no reconnection of either loop, refusal, failure or late *)
(* answer loses one, and none is left in the hand of a loop that has ended *)
(* (transport.go:407-504).                                                 *)
NoRequestLost ==
  ~cancelled =>
    \A q \in Requesters :
      call[q] = "waiting" /\ answer[q] = "none" =>
        Queued(q) \/ (inHand = q /\ at["write"] # "left")

(* The write loop has a request exactly between taking and answering it.   *)
HandInv ==
  /\ at["write"] = "head" => inHand = "none"
  /\ at["write"] = "left" => cancelled \/ inHand = "none"

RequestInv == NoRequestLost /\ HandInv

(* A new request is queued behind the others. *)
LEMMA RequestIsQueued ==
  ASSUME IInv, NEW q \in Requesters, Request(q)
  PROVE  \A r \in Requesters : Queued(r) \/ r = q => Queued(r)'
<1>1. queue' = Append(queue, q) /\ queue \in Seq(Requesters)
  BY DEF Request, IInv, TypeOK
<1>2. /\ Len(queue) \in Nat /\ Len(queue') = Len(queue) + 1
      /\ \A i \in 1..Len(queue) : queue'[i] = queue[i]
      /\ queue'[Len(queue) + 1] = q
  BY <1>1
<1>3. Queued(q)'
  BY <1>2 DEF Queued
<1>4. ASSUME NEW r \in Requesters, Queued(r) PROVE Queued(r)'
  BY <1>2, <1>4 DEF Queued
<1> QED BY <1>3, <1>4

(* The first request leaves the queue. *)
LEMMA HeadIsTaken ==
  ASSUME IInv, queue # <<>>, queue' = Tail(queue), NEW r \in Requesters, Queued(r)
  PROVE  r = Head(queue) \/ Queued(r)'
<1>1. queue \in Seq(Requesters)
  BY DEF IInv, TypeOK
<1>2. /\ Len(queue) \in Nat \ {0} /\ Len(queue') = Len(queue) - 1
      /\ \A i \in 1..(Len(queue) - 1) : queue'[i] = queue[i + 1]
      /\ Head(queue) = queue[1]
  BY <1>1
<1>3. PICK i \in 1..Len(queue) : queue[i] = r
  BY DEF Queued
<1>4. CASE i = 1
  BY <1>2, <1>3, <1>4
<1>5. CASE i # 1
  <2>1. i - 1 \in 1..Len(queue') /\ queue'[i - 1] = r
    BY <1>2, <1>3, <1>5
  <2> QED BY <2>1 DEF Queued
<1> QED BY <1>4, <1>5

(* The steps of others leave the requests where they are. *)
LEMMA RequestsStay ==
  ASSUME RequestInv, UNCHANGED queueVars, cancelled => cancelled',
         at'["write"] \notin {"head", "left"} \/ at'["write"] = at["write"]
           \/ (at'["write"] = "left" /\ cancelled)
  PROVE  RequestInv'
<1>1. HandInv'
  BY DEF RequestInv, HandInv
<1>2. ASSUME ~cancelled', NEW q \in Requesters, call'[q] = "waiting", answer'[q] = "none"
      PROVE  Queued(q)' \/ (inHand' = q /\ at'["write"] # "left")
  <2>1. Queued(q) \/ (inHand = q /\ at["write"] # "left")
    BY <1>2 DEF RequestInv, NoRequestLost
  <2>2. Queued(q) => Queued(q)'
    BY DEF Queued
  <2> QED BY <1>2, <2>1, <2>2
<1> QED BY <1>1, <1>2 DEF RequestInv, NoRequestLost

(* A request is answered, or its caller has gone. *)
LEMMA RequestAnswered ==
  ASSUME IInv, RequestInv, NEW result \in {"ok", "failed"}, Answer(result),
         UNCHANGED <<queue, call, cancelled>>
  PROVE  RequestInv'
<1>1. inHand' = "none" /\ HandInv'
  BY DEF Answer, HandInv
<1>2. ASSUME ~cancelled', NEW q \in Requesters, call'[q] = "waiting", answer'[q] = "none"
      PROVE  Queued(q)'
  <2>1. answer[q] = "none" /\ q # inHand
    BY <1>2 DEF Answer, IInv, TypeOK
  <2> QED BY <1>2, <2>1 DEF RequestInv, NoRequestLost, Queued
<1> QED BY <1>1, <1>2 DEF RequestInv, NoRequestLost

(* A request is made. *)
LEMMA RequestMade ==
  ASSUME IInv, RequestInv, NEW q \in Requesters, Request(q),
         UNCHANGED <<inHand, answer, cancelled>>, at'["write"] = at["write"]
  PROVE  RequestInv'
<1>1. \A r \in Requesters : r # q => call'[r] = call[r]
  BY DEF Request, IInv, TypeOK
<1> QED BY <1>1, RequestIsQueued DEF RequestInv, NoRequestLost, HandInv

(* A caller goes, with or without an answer. *)
LEMMA CallerGoes ==
  ASSUME IInv, RequestInv, NEW q \in Requesters, NEW result, NEW next \in {"idle", "ok", "failed"},
         Return(q, result, next), UNCHANGED cancelled, at'["write"] = at["write"]
  PROVE  RequestInv'
<1>1. /\ \A r \in Requesters : r # q => call'[r] = call[r] /\ answer'[r] = answer[r]
      /\ call'[q] # "waiting"
      /\ UNCHANGED <<queue, inHand>>
  BY DEF Return, IInv, TypeOK
<1>2. HandInv'
  BY <1>1 DEF RequestInv, HandInv
<1>3. ASSUME ~cancelled', NEW r \in Requesters, call'[r] = "waiting", answer'[r] = "none"
      PROVE  Queued(r)' \/ (inHand' = r /\ at'["write"] # "left")
  <2>1. Queued(r) \/ (inHand = r /\ at["write"] # "left")
    BY <1>1, <1>3 DEF RequestInv, NoRequestLost
  <2>2. Queued(r) => Queued(r)'
    BY <1>1 DEF Queued
  <2> QED BY <1>1, <2>1, <2>2
<1> QED BY <1>2, <1>3 DEF RequestInv, NoRequestLost

(* The loops and their reconnections. *)
LEMMA ReconnectRequests ==
  ASSUME IInv, RequestInv, NEW l \in Loops, Reconnect(l) \/ ReconnectOK(l)
  PROVE  RequestInv'
<1> USE DEF IInv, TypeOK
<1>1. CASE ReconnectStale(l) \/ ReconnectBegin(l) \/ ReconnectOK(l)
  <2>1. UNCHANGED <<queueVars, cancelled>>
    BY <1>1 DEF ReconnectStale, ReconnectBegin, ReconnectOK, Succeeds
  <2>2. at'["write"] \notin {"head", "left"} \/ at'["write"] = at["write"]
    BY <1>1 DEF ReconnectStale, ReconnectBegin, ReconnectOK, Succeeds
  <2> QED BY <2>1, <2>2, RequestsStay
<1>2. CASE ReconnectClosed(l) \/ ReconnectGivesUp(l)
  <2>1. Fails(l) /\ UNCHANGED <<queue, call, cancelled>>
    BY <1>2 DEF ReconnectClosed, ReconnectGivesUp
  <2>2. CASE l = "write"
    BY <2>1, <2>2, RequestAnswered DEF Fails
  <2>3. CASE l = "read"
    <3>1. UNCHANGED queueVars /\ at'["write"] = at["write"]
      BY <2>1, <2>3 DEF Fails
    <3> QED BY <2>1, <3>1, RequestsStay
  <2> QED BY <2>2, <2>3
<1> QED BY <1>1, <1>2 DEF Reconnect

LEMMA DialRequests ==
  ASSUME IInv, RequestInv, NEW d \in Dialers, Dial(d)
  PROVE  RequestInv'
<1>1. UNCHANGED <<queueVars, cancelled>>
  BY DEF Dial, DialBegin, DialFails
<1>2. at'["write"] \notin {"head", "left"} \/ at'["write"] = at["write"]
  BY DEF Dial, DialBegin, DialFails, IInv, TypeOK
<1> QED BY <1>1, <1>2, RequestsStay

LEMMA WriteRequests ==
  ASSUME IInv, RequestInv, WriteLoop
  PROVE  RequestInv'
<1> USE DEF IInv, TypeOK
<1>1. CASE WriteTake
  <2>1. /\ queue # <<>> /\ queue' = Tail(queue) /\ inHand' = Head(queue)
        /\ inHand = "none" /\ at'["write"] \in {"start", "lookup"}
        /\ UNCHANGED <<call, answer, cancelled>>
    BY <1>1 DEF WriteTake, RequestInv, HandInv
  <2>2. ASSUME ~cancelled', NEW q \in Requesters, call'[q] = "waiting", answer'[q] = "none"
        PROVE  Queued(q)' \/ (inHand' = q /\ at'["write"] # "left")
    <3>1. Queued(q)
      BY <2>1, <2>2 DEF RequestInv, NoRequestLost
    <3> QED BY <2>1, <3>1, HeadIsTaken
  <2> QED BY <2>1, <2>2 DEF RequestInv, NoRequestLost, HandInv
<1>2. CASE \E result \in {"ok", "failed"} : Answer(result) /\ (WriteStart \/ WriteAwaited \/ WriteOK)
  <2>1. UNCHANGED <<queue, call, cancelled>>
    BY <1>2 DEF WriteStart, WriteAwaited, WriteOK
  <2> QED BY <1>2, <2>1, RequestAnswered
<1>3. CASE \/ WriteStart /\ UNCHANGED <<inHand, answer>>
           \/ WriteAwaited /\ UNCHANGED <<inHand, answer>>
           \/ WriteLookup \/ WriteFails \/ WriteEnds
  <2>1. UNCHANGED <<queueVars, cancelled>>
    BY <1>3 DEF WriteStart, WriteAwaited, WriteLookup, WriteFails, WriteEnds
  <2>2. CASE WriteAwaited /\ UNCHANGED <<inHand, answer>>
    <3>1. at'["write"] = "lookup" \/ (at'["write"] = "head" /\ inHand = "none")
      BY <2>2 DEF WriteAwaited, Answer
    <3> QED BY <2>1, <3>1, RequestsStay DEF RequestInv, NoRequestLost, HandInv, Queued
  <2>3. CASE WriteStart /\ UNCHANGED <<inHand, answer>>
    <3>1. \/ at'["write"] \in {"await", "lookup"}
          \/ at'["write"] = "left" /\ cancelled
          \/ at'["write"] = "head" /\ inHand = "none"
      BY <2>3 DEF WriteStart, Answer
    <3> QED BY <2>1, <3>1, RequestsStay DEF RequestInv, NoRequestLost, HandInv, Queued
  <2>4. CASE WriteLookup \/ WriteFails \/ WriteEnds
    <3>1. \/ at'["write"] \in {"busy", "reconnect"}
          \/ at'["write"] = "left" /\ cancelled
      BY <2>4 DEF WriteLookup, WriteFails, WriteEnds
    <3> QED BY <2>1, <3>1, RequestsStay
  <2> QED BY <1>3, <2>2, <2>3, <2>4
<1>4. CASE Reconnect("write") \/ Dial("write")
  BY <1>4, ReconnectRequests, DialRequests
<1>5. ASSUME WriteStart \/ WriteAwaited \/ WriteOK
      PROVE  UNCHANGED <<inHand, answer>> \/ \E result \in {"ok", "failed"} : Answer(result)
  BY <1>5 DEF WriteStart, WriteAwaited, WriteOK
<1>6. WriteOK => Answer("ok")
  BY DEF WriteOK
<1> QED BY <1>1, <1>2, <1>3, <1>4, <1>5, <1>6 DEF WriteLoop

LEMMA ReadRequests ==
  ASSUME IInv, RequestInv, ReadLoop \/ Peer \/ Read
  PROVE  RequestInv'
<1> USE DEF IInv, TypeOK
<1>1. CASE Reconnect("read") \/ Dial("read")
  BY <1>1, ReconnectRequests, DialRequests
<1>2. CASE ReadPing
  <2>1. /\ Request("pong") /\ UNCHANGED <<inHand, answer, cancelled>>
        /\ at'["write"] = at["write"]
    BY <1>2 DEF ReadPing
  <2> QED BY <2>1, RequestMade
<1>3. CASE PongSent
  <2>1. UNCHANGED cancelled /\ at'["write"] = at["write"]
    BY <1>3 DEF PongSent
  <2> QED BY <1>3, <2>1, CallerGoes DEF PongSent
<1>4. CASE \/ ReadStart \/ ReadAwaited \/ ReadLookup \/ ReadEnds
           \/ ReadDeliver \/ ReadReport \/ ReadFails \/ ReadData \/ Read
  <2>1. UNCHANGED <<queueVars, cancelled>> /\ at'["write"] = at["write"]
    BY <1>4 DEF ReadStart, ReadAwaited, ReadLookup, ReadEnds, ReadLeaves, ReadDeliver,
       ReadReport, ReadFails, ReadData, Read
  <2> QED BY <2>1, RequestsStay
<1> QED BY <1>1, <1>2, <1>3, <1>4 DEF ReadLoop, Peer

LEMMA OtherRequests ==
  ASSUME IInv, RequestInv, [Next]_vars, ~WriteLoop, ~ReadLoop, ~Peer, ~Read
  PROVE  RequestInv'
<1> USE DEF IInv, TypeOK
<1>1. CASE DialOK
  <2>1. CASE \E l \in Loops : ReconnectOK(l)
    BY <2>1, ReconnectRequests
  <2>2. CASE InitialDialOK
    <3>1. UNCHANGED <<queueVars, cancelled>> /\ at'["write"] = at["write"]
      BY <2>2 DEF InitialDialOK
    <3> QED BY <3>1, RequestsStay
  <2> QED BY <1>1, <2>1, <2>2 DEF DialOK
<1>2. CASE Initial
  <2>1. CASE Dial("initial")
    BY <2>1, DialRequests
  <2>2. CASE ~Dial("initial")
    <3>1. UNCHANGED queueVars /\ (cancelled => cancelled') /\ at'["write"] = at["write"]
      BY <1>2, <2>2 DEF Initial, InitialGivesUp, Install, InstallClosed, Announce,
         AnnounceFailure, Abort
    <3> QED BY <3>1, RequestsStay
  <2> QED BY <2>1, <2>2
<1>3. CASE PingSend
  <2>1. /\ Request("ping") /\ UNCHANGED <<inHand, answer, cancelled>>
        /\ at'["write"] = at["write"]
    BY <1>3 DEF PingSend
  <2> QED BY <2>1, RequestMade
<1>4. CASE PingSent
  <2>1. UNCHANGED cancelled /\ at'["write"] = at["write"]
    BY <1>4 DEF PingSent
  <2> QED BY <1>4, <2>1, CallerGoes DEF PingSent
<1>5. ASSUME NEW w \in Writers, WriteBegin(w) PROVE RequestInv'
  <2>1. /\ Request(w) /\ UNCHANGED <<inHand, answer, cancelled>>
        /\ at'["write"] = at["write"]
    BY <1>5 DEF WriteBegin
  <2> QED BY <2>1, RequestMade
<1>6. ASSUME NEW w \in Writers, WriteReturns(w) PROVE RequestInv'
  <2>1. UNCHANGED cancelled /\ at'["write"] = at["write"]
    BY <1>6 DEF WriteReturns
  <2> QED BY <1>6, <2>1, CallerGoes DEF WriteReturns
<1>7. CASE \/ PingStart \/ PingAwaited \/ PingEnds
           \/ \E c \in Closers : CloseCancel(c) \/ CloseLocked(c)
           \/ \E t \in Transports : Break(t)
           \/ UNCHANGED vars
  <2>1. UNCHANGED queueVars /\ (cancelled => cancelled') /\ at'["write"] = at["write"]
    BY <1>7 DEF PingStart, PingAwaited, PingEnds, CloseCancel, CloseLocked, Break, vars
  <2> QED BY <2>1, RequestsStay
<1> QED BY <1>1, <1>2, <1>3, <1>4, <1>5, <1>6, <1>7 DEF Next, PingLoop

(* No request to write is lost. *)
THEOREM ReconnectNoRequestLost == Spec => []NoRequestLost
<1>1. Init => RequestInv
  BY DEF Init, RequestInv, NoRequestLost, HandInv
<1>2. ASSUME IInv, RequestInv, [Next]_vars PROVE RequestInv'
  BY <1>2, WriteRequests, ReadRequests, OtherRequests
<1>3. RequestInv => NoRequestLost
  BY DEF RequestInv
<1> QED BY <1>1, <1>2, <1>3, ReconnectInvariant, PTL DEF Spec

=============================================================================
