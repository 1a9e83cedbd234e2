-------------------------------- MODULE Conn --------------------------------
(***************************************************************************)
(* The life of an iscp.Conn (iscp/conn.go, iscp/state.go, iscp/e2e.go):    *)
(* the shared connection state, the current wire session behind            *)
(* wireConnMu, the goroutine that runs the session and redials a lost one, *)
(* the callers of Conn.send, and the callers of Conn.Close.                *)
(*                                                                         *)
(* A session stands for one wire.ClientConn.  It is "open" while its       *)
(* transport works, "broken" once its transport is gone (every Write then  *)
(* returns ErrConnectionClosed) and "closed" once its context is cancelled *)
(* (ClientConn.Closed() is readable).  Sessions are pointers: one that     *)
(* nobody refers to any more is the identity the next dial may return.     *)
(***************************************************************************)
EXTENDS FiniteSets

CONSTANTS
  Sessions,   (* identities of wire.ClientConn objects                     *)
  Senders,    (* callers of OpenUpstream, OpenDownstream, SendMetadata     *)
  Callers,    (* callers of the E2E operations, which end in Conn.call     *)
  Closers,    (* callers of Conn.Close                                     *)
  Loop,       (* the goroutine started by ConnectWithConfig                *)
  Nobody,     (* the holder of a free wireConnMu                           *)
  NoSession   (* a nil *wire.ClientConn                                    *)

Users == Senders \union Callers

ASSUME ConnAssumption ==
  /\ Loop # Nobody
  /\ {Loop, Nobody} \intersect (Users \union Closers) = {}
  /\ Senders \intersect Callers = {}
  /\ Users \intersect Closers = {}
  /\ NoSession \notin Sessions

VARIABLES
  state,      (* Conn.state                                                *)
  wireConn,   (* Conn.wireConn                                             *)
  mu,         (* the holder of Conn.wireConnMu                             *)
  status,     (* of every session: open, broken, closed                    *)
  lpc,        (* where the Loop goroutine stands                           *)
  res,        (* the session reconnect has dialled and not yet installed   *)
  cancelled,  (* the context of the loop's current iteration is cancelled  *)
  upc,        (* where each user stands in send                            *)
  sess,       (* the session each user has snapshotted                     *)
  cpc         (* where each closer stands in close                         *)

connVars == <<state, wireConn, mu, status, lpc, res, cancelled, upc, sess, cpc>>
userVars == <<upc, sess>>
loopVars == <<lpc, res, cancelled>>

ConnStatus == {"Connected", "Reconnecting", "Closed"}
LoopPC == {"run", "reconnect", "closeOld", "dial", "backoff", "dialed",
           "swap", "assign", "done"}
UserPC == {"idle", "wait", "ready", "inflight", "writing", "ackwait",
           "failed", "ok", "errClosed", "errCtx"}
CloserPC == {"idle", "save", "lock", "disconnect", "done"}

TypeOK ==
  /\ state \in ConnStatus
  /\ wireConn \in Sessions
  /\ mu \in {Loop, Nobody} \union Callers \union Closers
  /\ status \in [Sessions -> {"open", "broken", "closed"}]
  /\ lpc \in LoopPC
  /\ res \in Sessions \union {NoSession}
  /\ cancelled \in BOOLEAN
  /\ upc \in [Users -> UserPC]
  /\ sess \in [Users -> Sessions \union {NoSession}]
  /\ cpc \in [Closers -> CloserPC]

(* ConnectWithConfig has dialled the first session and started the loop.   *)
Init ==
  /\ state = "Connected"
  /\ wireConn \in Sessions
  /\ mu = Nobody
  /\ status = [s \in Sessions |-> IF s = wireConn THEN "open" ELSE "closed"]
  /\ lpc = "run"
  /\ res = NoSession
  /\ cancelled = FALSE
  /\ upc = [u \in Users |-> "idle"]
  /\ sess = [u \in Users |-> NoSession]
  /\ cpc = [c \in Closers |-> "idle"]

-----------------------------------------------------------------------------
(* Operators named ..._Bug are plausible mistakes in the definition that   *)
(* follows them; each property is known to fail under one of them.         *)

CASNotClosedToReconnecting_Bug == state' = "Reconnecting"

(* connStatus.CompareAndSwapNot(connStatusClosed, connStatusReconnecting).  *)
CASNotClosedToReconnecting ==
  state' = IF state = "Closed" THEN state ELSE "Reconnecting"

CASReconnectingToConnected_Bug == state' = "Connected"

(* connStatus.CompareAndSwap(connStatusReconnecting, connStatusConnected).  *)
CASReconnectingToConnected ==
  state' = IF state = "Reconnecting" THEN "Connected" ELSE state

(* ClientConn.Close.  Closing a closed session changes nothing.            *)
CloseSession(s) == status' = [status EXCEPT ![s] = "closed"]

-----------------------------------------------------------------------------
(* The wire session and the network.                                        *)

(* The transport of a session fails, or readDisconnectLoop closes it after *)
(* a Disconnect of the broker.                                              *)
Break(s) ==
  /\ status[s] = "open"
  /\ status' = [status EXCEPT ![s] = "broken"]
  /\ UNCHANGED <<state, wireConn, mu, loopVars, userVars, cpc>>

(* keepAliveLoop cannot send its next ping and closes the session.         *)
Expire(s) ==
  /\ status[s] = "broken"
  /\ CloseSession(s)
  /\ UNCHANGED <<state, wireConn, mu, loopVars, userVars, cpc>>

-----------------------------------------------------------------------------
(* The Loop goroutine: run, then reconnect, then run again.                 *)

LoopStep(from, to) == lpc = from /\ lpc' = to

(* Without observeConnClose.                                                *)
RunFails_Bug ==
  /\ LoopStep("run", "reconnect")
  /\ state = "Reconnecting"
  /\ UNCHANGED <<state, wireConn, mu, status, res, cancelled, userVars, cpc>>

(* run returns an error: its first goroutine saw Reconnecting, or          *)
(* observeConnClose saw the session closed before the connection was.      *)
RunFails ==
  /\ LoopStep("run", "reconnect")
  /\ \/ state = "Reconnecting"
     \/ state # "Closed" /\ status[wireConn] = "closed"
  /\ UNCHANGED <<state, wireConn, mu, status, res, cancelled, userVars, cpc>>

(* run returns nil: the connection is closed and every goroutine of run    *)
(* has left, by its context or because the session is closed too.          *)
RunEnds ==
  /\ LoopStep("run", "done")
  /\ state = "Closed"
  /\ cancelled \/ status[wireConn] = "closed"
  /\ UNCHANGED <<state, wireConn, mu, status, res, cancelled, userVars, cpc>>

(* The goroutine that waits for Closed cancels the iteration's context.    *)
CancelLoop ==
  /\ state = "Closed"
  /\ ~cancelled
  /\ cancelled' = TRUE
  /\ UNCHANGED <<state, wireConn, mu, status, lpc, res, userVars, cpc>>

(* Senders are not held back.                                               *)
ReconnectBegin_Bug ==
  /\ lpc = "reconnect"
  /\ mu = Nobody
  /\ lpc' = IF state = "Closed" THEN "done" ELSE "closeOld"
  /\ UNCHANGED <<state, wireConn, mu, status, res, cancelled, userVars, cpc>>

(* reconnect's first locked section: hold the senders back and read the    *)
(* old session, unless the connection is closed.                           *)
ReconnectBegin ==
  /\ lpc = "reconnect"
  /\ mu = Nobody
  /\ CASNotClosedToReconnecting
  /\ lpc' = IF state = "Closed" THEN "done" ELSE "closeOld"
  /\ UNCHANGED <<wireConn, mu, status, res, cancelled, userVars, cpc>>

(* The old session is left to its keep-alive.                              *)
CloseOld_Bug ==
  /\ LoopStep("closeOld", "dial")
  /\ UNCHANGED <<state, wireConn, mu, status, res, cancelled, userVars, cpc>>

CloseOld ==
  /\ LoopStep("closeOld", "dial")
  /\ CloseSession(wireConn)
  /\ UNCHANGED <<state, wireConn, mu, res, cancelled, userVars, cpc>>

(* A session object that no variable refers to.                            *)
Unreferenced(s) == s # wireConn /\ \A u \in Users : sess[u] # s

(* connectWire succeeds.                                                    *)
DialOK(s) ==
  /\ LoopStep("dial", "dialed")
  /\ status[s] = "closed"
  /\ Unreferenced(s)
  /\ status' = [status EXCEPT ![s] = "open"]
  /\ res' = s
  /\ UNCHANGED <<state, wireConn, mu, cancelled, userVars, cpc>>

(* connectWire fails: the retry ends if the connection is closed, else it  *)
(* sleeps before the next attempt.                                         *)
DialFails ==
  /\ lpc = "dial"
  /\ lpc' = IF state = "Closed" THEN "done" ELSE "backoff"
  /\ UNCHANGED <<state, wireConn, mu, status, res, cancelled, userVars, cpc>>

BackoffOver ==
  /\ LoopStep("backoff", "dial")
  /\ UNCHANGED <<state, wireConn, mu, status, res, cancelled, userVars, cpc>>

(* retry.DoWithContext sees the cancelled context, before an attempt or in *)
(* its sleep; reconnect returns without a session.                         *)
RetryCancelled ==
  /\ lpc \in {"dial", "backoff"}
  /\ cancelled
  /\ lpc' = "done"
  /\ UNCHANGED <<state, wireConn, mu, status, res, cancelled, userVars, cpc>>

(* reconnect's second locked section, from here to SwapClosed or           *)
(* SwapAssign: Close may change the state at any point of it.              *)
SwapLock ==
  /\ LoopStep("dialed", "swap")
  /\ mu = Nobody
  /\ mu' = Loop
  /\ UNCHANGED <<state, wireConn, status, res, cancelled, userVars, cpc>>

(* The new session is forgotten, not closed.                               *)
SwapClosed_BugLeak ==
  /\ LoopStep("swap", "done")
  /\ state = "Closed"
  /\ mu' = Nobody
  /\ res' = NoSession
  /\ UNCHANGED <<state, wireConn, status, cancelled, userVars, cpc>>

(* The connection was closed while dialling: drop the new session.         *)
SwapClosed ==
  /\ LoopStep("swap", "done")
  /\ state = "Closed"
  /\ CloseSession(res)
  /\ mu' = Nobody
  /\ res' = NoSession
  /\ UNCHANGED <<state, wireConn, cancelled, userVars, cpc>>

SwapNotClosed ==
  /\ LoopStep("swap", "assign")
  /\ state # "Closed"
  /\ UNCHANGED <<state, wireConn, mu, status, res, cancelled, userVars, cpc>>

(* Install the session.  If the swap of the state fails the connection is  *)
(* closed, and its closer, waiting for wireConnMu, closes the session.     *)
(* Otherwise the loop starts its next iteration with a fresh context.      *)
SwapAssign ==
  /\ lpc = "assign"
  /\ wireConn' = res
  /\ CASReconnectingToConnected
  /\ IF state = "Reconnecting"
     THEN lpc' = "run"  /\ cancelled' = FALSE
     ELSE lpc' = "done" /\ UNCHANGED cancelled
  /\ mu' = Nobody
  /\ res' = NoSession
  /\ UNCHANGED <<status, userVars, cpc>>

-----------------------------------------------------------------------------
(* Conn.send, for Senders (round trip on a snapshot, outside the lock) and *)
(* for Callers (a Write under wireConnMu, then a wait for the call's ack).  *)

UserStep(u, from, to) ==
  /\ upc[u] = from
  /\ upc' = [upc EXCEPT ![u] = to]

SendBegin(u) ==
  /\ UserStep(u, "idle", "wait")
  /\ UNCHANGED <<state, wireConn, mu, status, loopVars, sess, cpc>>

(* WaitUntilOrClosed(connStatusConnected) returns nil.                     *)
SendReady(u) ==
  /\ UserStep(u, "wait", "ready")
  /\ state = "Connected"
  /\ UNCHANGED <<state, wireConn, mu, status, loopVars, sess, cpc>>

(* WaitUntil instead of WaitUntilOrClosed.                                  *)
SendRejected_Bug(u) == FALSE /\ UNCHANGED connVars

SendRejected(u) ==
  /\ UserStep(u, "wait", "errClosed")
  /\ state = "Closed"
  /\ UNCHANGED <<state, wireConn, mu, status, loopVars, sess, cpc>>

(* A sender takes its snapshot of wireConn and sends its request on it.    *)
Snapshot(u) ==
  /\ UserStep(u, "ready", "inflight")
  /\ mu = Nobody
  /\ sess' = [sess EXCEPT ![u] = wireConn]
  /\ UNCHANGED <<state, wireConn, mu, status, loopVars, cpc>>

(* The reply to the request arrives on the session that carried it.        *)
Reply(u) ==
  /\ UserStep(u, "inflight", "ok")
  /\ status[sess[u]] = "open"
  /\ UNCHANGED <<state, wireConn, mu, status, loopVars, sess, cpc>>

(* The session is gone: ErrConnectionClosed.                               *)
RequestFails(u) ==
  /\ UserStep(u, "inflight", "failed")
  /\ status[sess[u]] # "open"
  /\ UNCHANGED <<state, wireConn, mu, status, loopVars, sess, cpc>>

(* A caller writes its UpstreamCall with wireConnMu held.                  *)
CallLock(u) ==
  /\ UserStep(u, "ready", "writing")
  /\ mu = Nobody
  /\ mu' = u
  /\ sess' = [sess EXCEPT ![u] = wireConn]
  /\ UNCHANGED <<state, wireConn, status, loopVars, cpc>>

CallWritten(u) ==
  /\ UserStep(u, "writing", "ackwait")
  /\ status[sess[u]] = "open"
  /\ mu' = Nobody
  /\ UNCHANGED <<state, wireConn, status, loopVars, sess, cpc>>

CallWriteFails(u) ==
  /\ UserStep(u, "writing", "failed")
  /\ status[sess[u]] # "open"
  /\ mu' = Nobody
  /\ UNCHANGED <<state, wireConn, status, loopVars, sess, cpc>>

(* The ack of the call arrives on the session that carried it; a call      *)
(* whose session is gone is not sent again and waits for its context.      *)
CallAcked(u) ==
  /\ UserStep(u, "ackwait", "ok")
  /\ status[sess[u]] = "open"
  /\ UNCHANGED <<state, wireConn, mu, status, loopVars, sess, cpc>>

CallAborted(u) ==
  /\ UserStep(u, "ackwait", "errClosed")
  /\ state = "Closed"
  /\ UNCHANGED <<state, wireConn, mu, status, loopVars, sess, cpc>>

(* After ErrConnectionClosed send asks for a reconnection and tries again, *)
(* unless the connection is closed.                                        *)
SendAgain(u) ==
  /\ upc[u] = "failed"
  /\ CASNotClosedToReconnecting
  /\ upc' = [upc EXCEPT ![u] = IF state = "Closed" THEN "errClosed" ELSE "wait"]
  /\ sess' = [sess EXCEPT ![u] = NoSession]
  /\ UNCHANGED <<wireConn, mu, status, loopVars, cpc>>

(* The user's own context ends while send or call looks at it.             *)
SendCancelled(u) ==
  /\ upc[u] \in {"wait", "inflight", "ackwait"}
  /\ upc' = [upc EXCEPT ![u] = "errCtx"]
  /\ UNCHANGED <<state, wireConn, mu, status, loopVars, sess, cpc>>

(* The operation returns and the user may start another.                   *)
SendReturns(u) ==
  /\ upc[u] \in {"ok", "errClosed", "errCtx"}
  /\ upc' = [upc EXCEPT ![u] = "idle"]
  /\ sess' = [sess EXCEPT ![u] = NoSession]
  /\ UNCHANGED <<state, wireConn, mu, status, loopVars, cpc>>

-----------------------------------------------------------------------------
(* Conn.close.                                                              *)

CloserStep(c, from, to) ==
  /\ cpc[c] = from
  /\ cpc' = [cpc EXCEPT ![c] = to]

(* Swap(connStatusClosed): only the first closer saves the streams.        *)
CloseSwap(c) ==
  /\ CloserStep(c, "idle", IF state = "Closed" THEN "lock" ELSE "save")
  /\ state' = "Closed"
  /\ UNCHANGED <<wireConn, mu, status, loopVars, userVars>>

CloseSave(c) ==
  /\ CloserStep(c, "save", "lock")
  /\ UNCHANGED <<state, wireConn, mu, status, loopVars, userVars>>

CloseLock(c) ==
  /\ CloserStep(c, "lock", "disconnect")
  /\ mu = Nobody
  /\ mu' = c
  /\ UNCHANGED <<state, wireConn, status, loopVars, userVars>>

(* Whether Disconnect was sent, failed or took longer than                 *)
(* disconnectSendTimeout, the session is closed and the lock released.     *)
CloseFinish(c) ==
  /\ CloserStep(c, "disconnect", "done")
  /\ CloseSession(wireConn)
  /\ mu' = Nobody
  /\ UNCHANGED <<state, wireConn, loopVars, userVars>>

-----------------------------------------------------------------------------
LoopNext ==
  \/ RunFails \/ RunEnds \/ CancelLoop
  \/ ReconnectBegin \/ CloseOld
  \/ \E s \in Sessions : DialOK(s)
  \/ DialFails \/ BackoffOver \/ RetryCancelled
  \/ SwapLock \/ SwapClosed \/ SwapNotClosed \/ SwapAssign

SendNext(u) ==
  \/ SendBegin(u) \/ SendReady(u) \/ SendRejected(u)
  \/ SendAgain(u) \/ SendCancelled(u) \/ SendReturns(u)

SenderNext(u) == SendNext(u) \/ Snapshot(u) \/ Reply(u) \/ RequestFails(u)

CallerNext(u) ==
  \/ SendNext(u)
  \/ CallLock(u) \/ CallWritten(u) \/ CallWriteFails(u)
  \/ CallAcked(u) \/ CallAborted(u)

CloserNext(c) == CloseSwap(c) \/ CloseSave(c) \/ CloseLock(c) \/ CloseFinish(c)

Next ==
  \/ \E s \in Sessions : Break(s) \/ Expire(s)
  \/ LoopNext
  \/ \E u \in Senders : SenderNext(u)
  \/ \E u \in Callers : CallerNext(u)
  \/ \E c \in Closers : CloserNext(c)

Spec == Init /\ [][Next]_connVars

(* Goroutines keep running, so their steps are weakly fair.  A goroutine   *)
(* waiting for wireConnMu gets it if it is free again and again (Go's      *)
(* mutex is starvation-free), and a broker that is dialled again and again *)
(* answers one day: these steps are strongly fair.  Nothing is assumed of  *)
(* Break, of the application's own calls, or of a Write that may block     *)
(* (CallWritten) or an ack that may not come (CallAcked).                  *)
Fairness ==
  /\ \A s \in Sessions : WF_connVars(Expire(s))
  /\ WF_connVars(RunFails \/ RunEnds)
  /\ WF_connVars(CancelLoop)
  /\ SF_connVars(ReconnectBegin)
  /\ WF_connVars(CloseOld \/ BackoffOver
                    \/ SwapClosed \/ SwapNotClosed \/ SwapAssign)
  /\ SF_connVars(\E s \in Sessions : DialOK(s))
  /\ WF_connVars(RetryCancelled)
  /\ SF_connVars(SwapLock)
  /\ \A u \in Users :
       WF_connVars(SendReady(u) \/ SendRejected(u) \/ SendAgain(u)
                     \/ SendReturns(u))
  /\ \A u \in Senders :
       /\ SF_connVars(Snapshot(u))
       /\ WF_connVars(Reply(u) \/ RequestFails(u))
  /\ \A u \in Callers :
       /\ SF_connVars(CallLock(u))
       /\ WF_connVars(CallWriteFails(u) \/ CallAborted(u))
  /\ \A c \in Closers :
       /\ WF_connVars(CloseSave(c) \/ CloseFinish(c))
       /\ SF_connVars(CloseLock(c))

FairSpec == Spec /\ Fairness

-----------------------------------------------------------------------------
(* Properties.                                                              *)

Live == {s \in Sessions : status[s] # "closed"}

(* At most one session is alive at any time, the one in wireConn or the    *)
(* one reconnect is about to install: reconnect closes the old session     *)
(* before it dials (conn.go:681-706), so that the broker never sees two    *)
(* sessions of one node.                                                   *)
OneLiveSession ==
  /\ Live \subseteq {wireConn, res}
  /\ \A s, t \in Live : s = t

(* Senders are released only while the loop runs a session or has just     *)
(* lost it, never while it closes, dials or installs one, whatever senders *)
(* and closers do to the shared state meanwhile (conn.go:640-656).         *)
SendersHeldBack == state = "Connected" => lpc \in {"run", "reconnect"}

(* The race that conn.go:716-733 is about: when Close has returned and the *)
(* loop has ended, nobody is left to close a session, so none may be open; *)
(* and from the moment Close has returned wireConn holds a closed session. *)
NoSessionLeak ==
  \A c \in Closers : cpc[c] = "done" =>
    /\ state = "Closed"
    /\ status[wireConn] = "closed"
    /\ lpc = "done" => Live = {}

(* The loop's goroutine ends only when the connection is closed: a lost    *)
(* session always leaves somebody to replace it.                           *)
LoopOutlivesConn == lpc = "done" => state = "Closed"

(* Closed is final (a late sender or the loop never overwrites it), and    *)
(* once a Close has returned wireConn is not replaced any more.            *)
ClosedIsFinal ==
  [][/\ state = "Closed" => state' = "Closed"
     /\ (\E c \in Closers : cpc[c] = "done") => wireConn' = wireConn]_connVars

Promise == INSTANCE ConnPromise
             WITH phase <- state, current <- wireConn,
                  up <- status[wireConn] # "closed"

(* The connection keeps the promise of ConnPromise.                        *)
KeepsPromise == Promise!Spec

(* Every Close returns: it waits for wireConnMu, whose holders the comment *)
(* in close (conn.go:772-780) lists and calls bounded.                     *)
CloseReturns ==
  \A c \in Closers : cpc[c] \in {"save", "lock"} ~> cpc[c] = "done"

(* A closed connection ends its goroutine and all of its sessions,         *)
(* including one that was being dialled.                                   *)
ShutdownCompletes == state = "Closed" ~> (lpc = "done" /\ Live = {})

(* A connection that is asked to close comes to its end.                   *)
Terminates == CloseReturns /\ ShutdownCompletes

(* A lost session is replaced, or the connection is closed: whether it is  *)
(* a sender or the keep-alive that notices, and however often dials fail.  *)
LostSessionReplaced ==
  \A s \in Sessions :
    wireConn = s /\ status[s] # "open" ~> wireConn # s \/ state = "Closed"

(* Once the network stops losing sessions, every send comes back: with a   *)
(* reply, with its context's error, or with ErrConnectionClosed.           *)
SendComesBack ==
  <>[][\A s \in Sessions : ~Break(s)]_connVars =>
    \A u \in Users : upc[u] = "wait" ~> upc[u] \in {"ok", "errClosed", "errCtx"}

(* What the comment on send says (conn.go:635-639): a send that fails with *)
(* ErrConnectionClosed waits for the reconnection to complete and tries    *)
(* again.  So a send does not push a connection that has already completed *)
(* its reconnection, and works, into another one.                          *)
HealthySessionKept ==
  [][state = "Connected" /\ status[wireConn] = "open" =>
       state' # "Reconnecting"]_connVars

=============================================================================
