----------------------------- MODULE ConnProofs -----------------------------
(***************************************************************************)
(* Proofs about Conn for every set of sessions, users and closers.         *)
(***************************************************************************)
EXTENDS Conn, TLAPS

(* wireConnMu is held exactly in the sections the code locks.              *)
LockInv ==
  /\ mu = Loop <=> lpc \in {"swap", "assign"}
  /\ \A u \in Callers : mu = u <=> upc[u] = "writing"
  /\ \A c \in Closers : mu = c <=> cpc[c] = "disconnect"

(* reconnect holds a new session exactly between its dial and the swap.    *)
ResInv ==
  /\ res # NoSession <=> lpc \in {"dialed", "swap", "assign"}
  /\ res # wireConn

(* From CloseOld to SwapAssign the session in wireConn is closed, so the   *)
(* only session that can be alive is the new one.                          *)
SessionInv ==
  /\ \A s \in Sessions : status[s] # "closed" => s \in {wireConn, res}
  /\ lpc \in {"dial", "backoff", "dialed", "swap", "assign"} =>
       status[wireConn] = "closed"

(* What each program counter knows about the shared state.                 *)
StateInv ==
  /\ state = "Connected" => lpc \in {"run", "reconnect"}
  /\ lpc = "done" => state = "Closed"
  /\ cancelled => state = "Closed"
  /\ \A c \in Closers : cpc[c] # "idle" => state = "Closed"

(* Once a Close has returned, the loop cannot install a session: it would  *)
(* have to hold the lock, and it checks the state after taking it.         *)
CloseInv ==
  \A c \in Closers : cpc[c] = "done" =>
    /\ status[wireConn] = "closed"
    /\ lpc # "assign"

IInv == TypeOK /\ LockInv /\ ResInv /\ SessionInv /\ StateInv /\ CloseInv

-----------------------------------------------------------------------------
(* Every preservation step below is about the invariant's parts and the    *)
(* types of the variables; the action it is about is named in each step.   *)
USE ConnAssumption DEF
  IInv, TypeOK, LockInv, ResInv, SessionInv, StateInv, CloseInv,
  ConnStatus, LoopPC, UserPC, CloserPC, Users, loopVars, userVars

(* The initial state satisfies the invariant.                              *)
LEMMA InitIInv == Init => IInv
<1> SUFFICES ASSUME Init PROVE IInv
  OBVIOUS
<1>1. TypeOK
  BY DEF Init
<1>2. LockInv /\ ResInv
  BY DEF Init
<1>3. SessionInv /\ StateInv /\ CloseInv
  BY DEF Init
<1> QED BY <1>1, <1>2, <1>3

(* The loop goroutine: run, redial and swap. *)
LEMMA LoopIInv ==
  ASSUME IInv, LoopNext
  PROVE  IInv'
<1>1. CASE RunFails
  BY <1>1 DEF RunFails, LoopStep
<1>2. CASE RunEnds
  BY <1>2 DEF RunEnds, LoopStep
<1>3. CASE CancelLoop
  BY <1>3 DEF CancelLoop
<1>4. CASE ReconnectBegin
  BY <1>4 DEF ReconnectBegin, CASNotClosedToReconnecting
<1>5. CASE CloseOld
  BY <1>5 DEF CloseOld, LoopStep, CloseSession
<1>6. CASE DialFails
  BY <1>6 DEF DialFails
<1>7. CASE BackoffOver
  BY <1>7 DEF BackoffOver, LoopStep
<1>8. CASE RetryCancelled
  BY <1>8 DEF RetryCancelled
<1>9. CASE SwapLock
  BY <1>9 DEF SwapLock, LoopStep
<1>10. CASE SwapClosed
  BY <1>10 DEF SwapClosed, LoopStep, CloseSession
<1>11. CASE SwapNotClosed
  BY <1>11 DEF SwapNotClosed, LoopStep
<1>12. CASE SwapAssign
  BY <1>12 DEF SwapAssign, CASReconnectingToConnected
<1>13. ASSUME NEW s \in Sessions, DialOK(s) PROVE IInv'
  BY <1>13 DEF DialOK, LoopStep, Unreferenced
<1> QED BY <1>1, <1>2, <1>3, <1>4, <1>5, <1>6, <1>7, <1>8, <1>9,
         <1>10, <1>11, <1>12, <1>13 DEF LoopNext

(* The part of send that senders and callers share. *)
LEMMA SendIInv ==
  ASSUME IInv, NEW u \in Users, SendNext(u)
  PROVE  IInv'
<1>1. CASE SendBegin(u)
  BY <1>1 DEF SendBegin, UserStep
<1>2. CASE SendReady(u)
  BY <1>2 DEF SendReady, UserStep
<1>3. CASE SendRejected(u)
  BY <1>3 DEF SendRejected, UserStep
<1>4. CASE SendAgain(u)
  BY <1>4 DEF SendAgain, CASNotClosedToReconnecting
<1>5. CASE SendCancelled(u)
  BY <1>5 DEF SendCancelled
<1>6. CASE SendReturns(u)
  BY <1>6 DEF SendReturns
<1> QED BY <1>1, <1>2, <1>3, <1>4, <1>5, <1>6 DEF SendNext

(* A sender's round trip on its snapshot.                                  *)
LEMMA SenderIInv ==
  ASSUME IInv, NEW u \in Senders, SenderNext(u)
  PROVE  IInv'
<1>1. CASE Snapshot(u)
  BY <1>1 DEF Snapshot, UserStep
<1>2. CASE Reply(u)
  BY <1>2 DEF Reply, UserStep
<1>3. CASE RequestFails(u)
  BY <1>3 DEF RequestFails, UserStep
<1>4. CASE SendNext(u)
  BY <1>4, SendIInv
<1> QED BY <1>1, <1>2, <1>3, <1>4 DEF SenderNext

(* A caller's Write under wireConnMu.                                      *)
LEMMA CallerIInv ==
  ASSUME IInv, NEW u \in Callers, CallerNext(u)
  PROVE  IInv'
<1>1. CASE CallLock(u)
  BY <1>1 DEF CallLock, UserStep
<1>2. CASE CallWritten(u)
  BY <1>2 DEF CallWritten, UserStep
<1>3. CASE CallWriteFails(u)
  BY <1>3 DEF CallWriteFails, UserStep
<1>4. CASE CallAcked(u)
  BY <1>4 DEF CallAcked, UserStep
<1>5. CASE CallAborted(u)
  BY <1>5 DEF CallAborted, UserStep
<1>6. CASE SendNext(u)
  BY <1>6, SendIInv
<1> QED BY <1>1, <1>2, <1>3, <1>4, <1>5, <1>6 DEF CallerNext

(* Conn.close. *)
LEMMA CloserIInv ==
  ASSUME IInv, NEW c \in Closers, CloserNext(c)
  PROVE  IInv'
<1>1. CASE CloseSwap(c)
  BY <1>1 DEF CloseSwap, CloserStep
<1>2. CASE CloseSave(c)
  BY <1>2 DEF CloseSave, CloserStep
<1>3. CASE CloseLock(c)
  BY <1>3 DEF CloseLock, CloserStep
<1>4. CASE CloseFinish(c)
  BY <1>4 DEF CloseFinish, CloserStep, CloseSession
<1> QED BY <1>1, <1>2, <1>3, <1>4 DEF CloserNext

(* Sessions are lost and closed by the network and the keep-alive.         *)
LEMMA SessionIInv ==
  ASSUME IInv, NEW s \in Sessions, Break(s) \/ Expire(s)
  PROVE  IInv'
<1>1. CASE Break(s)
  BY <1>1 DEF Break
<1>2. CASE Expire(s)
  BY <1>2 DEF Expire, CloseSession
<1> QED BY <1>1, <1>2

(* The invariant holds in every reachable state.                           *)
THEOREM ConnInvariant == Spec => []IInv
<1>1. IInv /\ [Next]_connVars => IInv'
  <2> SUFFICES ASSUME IInv, [Next]_connVars PROVE IInv'
    OBVIOUS
  <2>1. CASE LoopNext
    BY <2>1, LoopIInv
  <2>2. CASE \E s \in Sessions : Break(s) \/ Expire(s)
    BY <2>2, SessionIInv
  <2>3. CASE \E u \in Senders : SenderNext(u)
    BY <2>3, SenderIInv
  <2>4. CASE \E u \in Callers : CallerNext(u)
    BY <2>4, CallerIInv
  <2>5. CASE \E c \in Closers : CloserNext(c)
    BY <2>5, CloserIInv
  <2>6. CASE UNCHANGED connVars
    BY <2>6 DEF connVars
  <2> QED BY <2>1, <2>2, <2>3, <2>4, <2>5, <2>6 DEF Next
<1> QED BY InitIInv, <1>1, PTL DEF Spec

-----------------------------------------------------------------------------
(* What the invariant gives: the properties of Conn, for all constants.    *)

(* Every variable keeps its type.                                          *)
THEOREM ConnTypes == Spec => []TypeOK
  BY ConnInvariant, PTL

(* The broker never sees two live sessions of one connection.              *)
THEOREM ConnOneLiveSession == Spec => []OneLiveSession
<1>1. IInv => OneLiveSession
  <2> SUFFICES ASSUME IInv, NEW s \in Live, NEW t \in Live
               PROVE  Live \subseteq {wireConn, res} /\ s = t
    BY DEF OneLiveSession, Live
  <2>1. Live \subseteq {wireConn, res}
    BY DEF Live
  <2>2. status[wireConn] = "closed" \/ res = NoSession
    OBVIOUS
  <2> QED BY <2>1, <2>2 DEF Live
<1> QED BY ConnInvariant, <1>1, PTL

(* No sender is released while the loop redials.                           *)
THEOREM ConnSendersHeldBack == Spec => []SendersHeldBack
<1>1. IInv => SendersHeldBack
  BY DEF SendersHeldBack
<1> QED BY ConnInvariant, <1>1, PTL

(* Close racing with a reconnection leaks no session.                      *)
THEOREM ConnNoSessionLeak == Spec => []NoSessionLeak
<1>1. IInv => NoSessionLeak
  <2> SUFFICES ASSUME IInv, NEW c \in Closers, cpc[c] = "done"
               PROVE  /\ state = "Closed"
                      /\ status[wireConn] = "closed"
                      /\ lpc = "done" => Live = {}
    BY DEF NoSessionLeak
  <2>1. lpc = "done" => res = NoSession
    OBVIOUS
  <2> QED BY <2>1 DEF Live
<1> QED BY ConnInvariant, <1>1, PTL

(* Only Close ends the loop.                                               *)
THEOREM ConnLoopOutlives == Spec => []LoopOutlivesConn
<1>1. IInv => LoopOutlivesConn
  BY DEF LoopOutlivesConn
<1> QED BY ConnInvariant, <1>1, PTL

-----------------------------------------------------------------------------
(* Each step keeps the promise: it is a step of ConnPromise, or it changes *)
(* none of the variables the promise is about.                             *)

Up == status[wireConn] # "closed"
Quiet == state' = state /\ wireConn' = wireConn /\ (Up' <=> Up)

(* Closing a session ends the current one, or is no matter of the promise. *)
LEMMA CloseEnds ==
  ASSUME IInv, NEW s \in Sessions, CloseSession(s),
         UNCHANGED <<state, wireConn>>
  PROVE  Promise!End \/ Quiet
<1>1. CASE s = wireConn /\ Up
  BY <1>1 DEF CloseSession, Up, Promise!End
<1>2. CASE s # wireConn \/ ~Up
  BY <1>2 DEF CloseSession, Up, Quiet
<1> QED BY <1>1, <1>2

LEMMA StepKeepsPromise ==
  ASSUME IInv, [Next]_connVars
  PROVE  [Promise!Next]_Promise!vars
<1> SUFFICES Promise!Next \/ Quiet
  BY DEF Promise!vars, Quiet, Up
<1>1. ASSUME NEW s \in Sessions, Break(s) PROVE Quiet
  BY <1>1 DEF Break, Quiet, Up
<1>2. ASSUME NEW s \in Sessions, Expire(s) PROVE Promise!Next \/ Quiet
  BY <1>2, CloseEnds DEF Expire, Promise!Next
<1>3. CASE RunFails \/ RunEnds \/ CancelLoop \/ DialFails \/ BackoffOver
           \/ RetryCancelled \/ SwapLock \/ SwapNotClosed
  BY <1>3 DEF RunFails, RunEnds, CancelLoop, DialFails, BackoffOver,
              RetryCancelled, SwapLock, SwapNotClosed, LoopStep, Quiet, Up
<1>4. CASE ReconnectBegin
  BY <1>4 DEF ReconnectBegin, CASNotClosedToReconnecting, Quiet, Up,
              Promise!Next, Promise!Suspend
<1>5. CASE CloseOld
  BY <1>5, CloseEnds DEF CloseOld, LoopStep, Promise!Next
<1>6. ASSUME NEW s \in Sessions, DialOK(s) PROVE Quiet
  BY <1>6 DEF DialOK, LoopStep, Unreferenced, Quiet, Up
<1>7. CASE SwapClosed
  BY <1>7, CloseEnds DEF SwapClosed, LoopStep, Promise!Next
<1>8. CASE SwapAssign
  <2>1. state # "Connected" /\ ~Up /\ res \in Sessions \ {wireConn}
    BY <1>8 DEF SwapAssign, Up
  <2>2. Up' \in BOOLEAN
    BY DEF Up
  <2> QED BY <1>8, <2>1, <2>2 DEF SwapAssign, CASReconnectingToConnected, Up,
             Promise!Next, Promise!Install
<1>9. ASSUME NEW u \in Users, SendNext(u) PROVE Promise!Next \/ Quiet
  <2>1. CASE SendAgain(u)
    BY <2>1 DEF SendAgain, CASNotClosedToReconnecting, Quiet, Up,
                Promise!Next, Promise!Suspend
  <2> QED BY <1>9, <2>1 DEF SendNext, SendBegin, SendReady, SendRejected,
             SendCancelled, SendReturns, UserStep, Quiet, Up
<1>10. ASSUME NEW u \in Senders, SenderNext(u) PROVE Promise!Next \/ Quiet
  BY <1>9, <1>10 DEF SenderNext, Snapshot, Reply, RequestFails, UserStep,
                     Quiet, Up
<1>11. ASSUME NEW u \in Callers, CallerNext(u) PROVE Promise!Next \/ Quiet
  BY <1>9, <1>11 DEF CallerNext, CallLock, CallWritten, CallWriteFails,
                     CallAcked, CallAborted, UserStep, Quiet, Up
<1>12. ASSUME NEW c \in Closers, CloserNext(c) PROVE Promise!Next \/ Quiet
  <2>1. CASE CloseSwap(c)
    BY <2>1 DEF CloseSwap, Quiet, Up, Promise!Next, Promise!Shut
  <2>2. CASE CloseFinish(c)
    BY <2>2, CloseEnds DEF CloseFinish, Promise!Next
  <2> QED BY <1>12, <2>1, <2>2
          DEF CloserNext, CloseSave, CloseLock, CloserStep, Quiet, Up
<1>13. CASE UNCHANGED connVars
  BY <1>13 DEF connVars, Quiet, Up
<1> QED BY <1>1, <1>2, <1>3, <1>4, <1>5, <1>6, <1>7, <1>8, <1>10, <1>11,
           <1>12, <1>13 DEF Next, LoopNext

(* Conn implements ConnPromise.                                            *)
THEOREM ConnKeepsPromise == Spec => KeepsPromise
<1>1. Init => Promise!Init
  BY DEF Init, Promise!Init
<1> QED BY <1>1, StepKeepsPromise, ConnInvariant, PTL
        DEF Spec, KeepsPromise, Promise!Spec

(* Closed is final, and so is wireConn once a Close has returned.          *)
THEOREM ConnClosedIsFinal == Spec => ClosedIsFinal
<1> DEFINE Final == /\ state = "Closed" => state' = "Closed"
                    /\ (\E c \in Closers : cpc[c] = "done") =>
                         wireConn' = wireConn
<1>1. ASSUME IInv, [Next]_connVars PROVE [Final]_connVars
  <2>1. state = "Closed" => state' = "Closed"
    BY <1>1, StepKeepsPromise DEF Promise!Next, Promise!vars, Promise!End,
       Promise!Suspend, Promise!Install, Promise!Shut
  <2>2. CASE SwapAssign
    BY <1>1, <2>1, <2>2 DEF SwapAssign
  <2>3. CASE LoopNext /\ ~SwapAssign
    BY <1>1, <2>1, <2>3 DEF LoopNext, RunFails, RunEnds, CancelLoop, DialFails,
       BackoffOver, RetryCancelled, SwapLock, SwapClosed, SwapNotClosed,
       ReconnectBegin, CloseOld, DialOK
  <2>4. ASSUME ~LoopNext PROVE wireConn' = wireConn
    BY <1>1, <2>4 DEF Next, connVars, Break, Expire, SenderNext, CallerNext,
       CloserNext, SendNext, SendBegin, SendReady, SendRejected, SendAgain,
       SendCancelled, SendReturns, Snapshot, Reply, RequestFails, CallLock,
       CallWritten, CallWriteFails, CallAcked, CallAborted, CloseSwap,
       CloseSave, CloseLock, CloseFinish
  <2> QED BY <2>1, <2>2, <2>3, <2>4
<1> QED BY <1>1, ConnInvariant, PTL DEF Spec, ClosedIsFinal

=============================================================================
