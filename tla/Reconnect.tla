------------------------------ MODULE Reconnect ------------------------------
(***************************************************************************)
(* reconnect.Transport (transport/reconnect/transport.go): a transport     *)
(* that replaces the one under it when that one fails.  Its goroutines     *)
(* (initialConnect, pingLoop, readLoop, writeLoop) and its callers (Write, *)
(* Read, CloseWithStatus) meet at the mutex mu, at the queues writeReqCh   *)
(* and readResCh, at the channel initialConnectDoneCh and at a status with *)
(* a lock of its own.                                                      *)
(*                                                                         *)
(* The transports under it are external: one is open, has broken, or was   *)
(* closed from this side.  Message contents, RTT values and metrics are    *)
(* not modelled.  Local variables are forgotten when they are dead.        *)
(***************************************************************************)
EXTENDS Integers, Sequences, FiniteSets

CONSTANTS
  Writers,        (* callers of Write, each for one message                *)
  Closers,        (* callers of CloseWithStatus                            *)
  Limits,         (* the values of maxReconnectAttempts, negative: no end  *)
  MaxTransports,  (* a bound on the transports ever dialled: the last one  *)
                  (* does not fail                                         *)
  InboxSize       (* the capacity of readResCh                             *)

ASSUME ReconnectAssumption ==
  /\ MaxTransports \in Nat \ {0} /\ InboxSize \in Nat \ {0}
  /\ Limits \subseteq Int \ {0}
  /\ Writers \cap {"ping", "pong", "none"} = {}

None == 0      (* nil, where a transport is expected                       *)
Transports == 1..MaxTransports
Requesters == Writers \union {"ping", "pong"}
Loops == {"write", "read"}
Dialers == Loops \union {"initial"}

VARIABLES
  status,      (* Transport.status                                         *)
  cancelled,   (* Transport.ctx has ended                                  *)
  limit,       (* maxReconnectAttempts                                     *)
  doneCh,      (* initialConnectDoneCh: nothing yet, or a result and its   *)
               (* being closed, which its receivers cannot tell apart      *)
  mu,          (* the loop that holds Transport.mu across a reconnection   *)
  transport,   (* Transport.transport                                      *)
  link,        (* external: what has become of each transport              *)
  at,          (* where initialConnect and the two loops stand             *)
  held,        (* the transport each of them has in a local variable       *)
  attempts,    (* its dial attempts so far                                 *)
  queue,       (* writeReqCh                                               *)
  inHand,      (* the request writeLoop works on                           *)
  call,        (* the callers of writeReqRes                               *)
  answer,      (* writeResCh                                               *)
  inbox,       (* readResCh                                                *)
  readClosed,  (* readResCh is closed                                      *)
  ping,        (* where pingLoop stands                                    *)
  closer       (* where each caller of CloseWithStatus stands              *)

stateVars == <<status, cancelled, limit, doneCh>>
linkVars  == <<mu, transport, link>>
loopVars  == <<at, held, attempts>>
queueVars == <<queue, inHand, call, answer>>
readVars  == <<inbox, readClosed>>
userVars  == <<ping, closer>>
vars == <<stateVars, linkVars, loopVars, queueVars, readVars, userVars>>

InitialPC == {"dial", "dialling", "install", "announce", "refused", "abort",
              "done"}
LoopPC == {"start", "await", "head", "lookup", "busy", "reconnect", "dial",
           "dialling", "deliver", "pong", "report", "left"}

TypeOK ==
  /\ status \in {"Connecting", "Connected", "Reconnecting", "Disconnected"}
  /\ cancelled \in BOOLEAN /\ limit \in Limits
  /\ doneCh \in {"empty", "ok", "error"}
  /\ mu \in Loops \union {"free"}
  /\ transport \in Transports \union {None}
  /\ link \in [Transports -> {"unused", "open", "broken", "closed"}]
  /\ at \in [Dialers -> InitialPC \union LoopPC]
  /\ held \in [Dialers -> Transports \union {None}]
  /\ attempts \in [Dialers -> Nat]
  /\ queue \in Seq(Requesters) /\ inHand \in Requesters \union {"none"}
  /\ call \in [Requesters -> {"idle", "waiting", "ok", "failed"}]
  /\ answer \in [Requesters -> {"none", "ok", "failed"}]
  /\ inbox \in Seq({"data", "error"}) /\ Len(inbox) <= InboxSize
  /\ readClosed \in BOOLEAN
  /\ ping \in {"start", "await", "tick", "sending", "left"}
  /\ closer \in [Closers -> {"idle", "lock", "closed"}]

(* Dial has built the Transport and started its goroutines.                *)
Init ==
  /\ status = "Connecting" /\ cancelled = FALSE /\ limit \in Limits
  /\ doneCh = "empty"
  /\ mu = "free" /\ transport = None
  /\ link = [t \in Transports |-> "unused"]
  /\ at = [d \in Dialers |-> CASE d = "initial" -> "dial"
                               [] d = "read" -> "start"
                               [] d = "write" -> "head"]
  /\ held = [d \in Dialers |-> None] /\ attempts = [d \in Dialers |-> 0]
  /\ queue = <<>> /\ inHand = "none"
  /\ call = [q \in Requesters |-> "idle"]
  /\ answer = [q \in Requesters |-> "none"]
  /\ inbox = <<>> /\ readClosed = FALSE
  /\ ping = "start"
  /\ closer = [c \in Closers |-> "idle"]

Goto(d, pc) == at' = [at EXCEPT ![d] = pc]
Hold(d, t) == held' = [held EXCEPT ![d] = t]
Restart(d) == attempts' = [attempts EXCEPT ![d] = 0]

-----------------------------------------------------------------------------
(* The transports under it, and dialling one.                              *)

(* The next transport a dialler would hand out.                            *)
Fresh == {t \in Transports : /\ link[t] = "unused"
                             /\ \A s \in 1..(t - 1) : link[s] # "unused"}

Break(t) ==
  /\ link[t] = "open" /\ t < MaxTransports
  /\ link' = [link EXCEPT ![t] = "broken"]
  /\ UNCHANGED <<stateVars, mu, transport, loopVars, queueVars, readVars,
                 userVars>>

Exhausted(d) == limit >= 0 /\ attempts[d] >= limit

(* The attempts a limited dialler has made; an unlimited one keeps none.   *)
CountAttempt(d) ==
  attempts' = [attempts EXCEPT ![d] = IF limit >= 0 THEN @ + 1 ELSE @]

DialBegin(d) ==
  /\ at[d] = "dial" /\ ~cancelled /\ ~Exhausted(d)
  /\ Goto(d, "dialling")
  /\ UNCHANGED <<stateVars, linkVars, held, attempts, queueVars, readVars,
                 userVars>>

(* The wait for reconnectInterval is part of the place "dial".             *)
DialFails(d) ==
  /\ at[d] = "dialling"
  /\ Goto(d, "dial") /\ CountAttempt(d)
  /\ UNCHANGED <<stateVars, linkVars, held, queueVars, readVars, userVars>>

-----------------------------------------------------------------------------
(* initialConnect.                                                         *)

InitialDialOK ==
  /\ at["initial"] = "dialling"
  /\ \E t \in Fresh :
       link' = [link EXCEPT ![t] = "open"] /\ Hold("initial", t)
  /\ Goto("initial", "install") /\ Restart("initial")
  /\ UNCHANGED <<stateVars, mu, transport, queueVars, readVars, userVars>>

(* All attempts have failed, or the transport was closed meanwhile.        *)
InitialGivesUp ==
  /\ at["initial"] = "dial" /\ (Exhausted("initial") \/ cancelled)
  /\ Goto("initial", "refused") /\ Restart("initial")
  /\ UNCHANGED <<stateVars, linkVars, held, queueVars, readVars, userVars>>

(* Under mu: closed is looked at and the transport installed in one.       *)
Install ==
  /\ at["initial"] = "install" /\ mu = "free" /\ ~cancelled
  /\ transport' = held["initial"]
  /\ Goto("initial", "announce") /\ Hold("initial", None)
  /\ UNCHANGED <<stateVars, mu, link, attempts, queueVars, readVars, userVars>>


(* A mutant: the transport dialled too late is forgotten.                  *)
InstallClosed_BugLeak ==
  /\ at["initial"] = "install" /\ mu = "free" /\ cancelled
  /\ Goto("initial", "refused") /\ Hold("initial", None)
  /\ UNCHANGED <<stateVars, linkVars, attempts, queueVars, readVars, userVars>>

InstallClosed ==
  /\ at["initial"] = "install" /\ mu = "free" /\ cancelled
  /\ link' = [link EXCEPT ![held["initial"]] = "closed"]
  /\ Goto("initial", "refused") /\ Hold("initial", None)
  /\ UNCHANGED <<stateVars, mu, transport, attempts, queueVars, readVars,
                 userVars>>

(* doneProcess: the status, then the channel; mu is not held.              *)
Announce ==
  /\ at["initial"] = "announce"
  /\ status' = "Connected" /\ doneCh' = "ok"
  /\ Goto("initial", "done")
  /\ UNCHANGED <<cancelled, limit, linkVars, held, attempts, queueVars,
                 readVars, userVars>>

AnnounceFailure ==
  /\ at["initial"] = "refused"
  /\ status' = "Disconnected" /\ doneCh' = "error"
  /\ Goto("initial", "abort")
  /\ UNCHANGED <<cancelled, limit, linkVars, held, attempts, queueVars,
                 readVars, userVars>>

Abort ==
  /\ at["initial"] = "abort"
  /\ cancelled' = TRUE
  /\ Goto("initial", "done")
  /\ UNCHANGED <<status, limit, doneCh, linkVars, held, attempts, queueVars,
                 readVars, userVars>>

-----------------------------------------------------------------------------
(* waitForConnection.                                                      *)

MustWait == status = "Connecting"
Refused  == status = "Disconnected" /\ ~cancelled

(* The select: what comes from initialConnectDoneCh counts only if the     *)
(* status is Connected at that moment.                                     *)
Awaited(ok) ==
  \/ cancelled /\ ~ok
  \/ doneCh # "empty" /\ ok = (doneCh = "ok" /\ status = "Connected")

-----------------------------------------------------------------------------
(* writeReqRes.                                                            *)

Request(q) ==
  /\ call' = [call EXCEPT ![q] = "waiting"]
  /\ queue' = Append(queue, q)

(* writeReqRes returns with the answer, or because the transport is closed,*)
(* and takes its channel out of writeResCh.                                *)
Return(q, result, next) ==
  /\ call[q] = "waiting"
  /\ \/ result = answer[q] /\ result # "none"
     \/ result = "failed" /\ cancelled
  /\ call' = [call EXCEPT ![q] = next]
  /\ answer' = [answer EXCEPT ![q] = "none"]
  /\ UNCHANGED <<queue, inHand>>

WriteBegin(w) ==
  /\ call[w] = "idle"
  /\ Request(w)
  /\ UNCHANGED <<stateVars, linkVars, loopVars, inHand, answer, readVars,
                 userVars>>

WriteReturns(w) ==
  /\ \E result \in {"ok", "failed"} : Return(w, result, result)
  /\ UNCHANGED <<stateVars, linkVars, loopVars, readVars, userVars>>

-----------------------------------------------------------------------------
(* pingLoop.                                                               *)

PingStart ==
  /\ ping = "start"
  /\ ping' = IF Refused THEN "left" ELSE IF MustWait THEN "await" ELSE "tick"
  /\ UNCHANGED <<stateVars, linkVars, loopVars, queueVars, readVars, closer>>

PingAwaited ==
  /\ ping = "await"
  /\ \E ok \in BOOLEAN : Awaited(ok) /\ ping' = IF ok THEN "tick" ELSE "left"
  /\ UNCHANGED <<stateVars, linkVars, loopVars, queueVars, readVars, closer>>

PingSend ==
  /\ ping = "tick" /\ Request("ping") /\ ping' = "sending"
  /\ UNCHANGED <<stateVars, linkVars, loopVars, inHand, answer,
                 readVars, closer>>

PingSent ==
  /\ ping = "sending"
  /\ \E result \in {"ok", "failed"} :
       /\ Return("ping", result, "idle")
       /\ ping' = IF result = "ok" THEN "tick" ELSE "left"
  /\ UNCHANGED <<stateVars, linkVars, loopVars, readVars, closer>>

PingEnds ==
  /\ ping = "tick" /\ cancelled /\ ping' = "left"
  /\ UNCHANGED <<stateVars, linkVars, loopVars, queueVars, readVars, closer>>

-----------------------------------------------------------------------------
(* writeLoop.  "head": waiting for a request; "start": it has one and no   *)
(* transport yet; "lookup": about to take the transport; "busy": in its    *)
(* Write.                                                                  *)

WriteTake ==
  /\ at["write"] = "head" /\ queue # <<>> /\ mu = "free"
  /\ inHand' = Head(queue) /\ queue' = Tail(queue)
  /\ Goto("write", IF transport = None THEN "start" ELSE "lookup")
  /\ UNCHANGED <<stateVars, linkVars, held, attempts, call, answer,
                 readVars, userVars>>

(* The request is done with; the channel of a caller that has gone is no   *)
(* longer in writeResCh.                                                   *)
Answer(result) ==
  /\ answer' = IF call[inHand] = "waiting"
               THEN [answer EXCEPT ![inHand] = result] ELSE answer
  /\ inHand' = "none"

WriteStart ==
  /\ at["write"] = "start"
  /\ IF cancelled \/ MustWait
     THEN /\ Goto("write", IF cancelled THEN "left" ELSE "await")
          /\ UNCHANGED <<inHand, answer>>
     ELSE IF Refused THEN Goto("write", "head") /\ Answer("failed")
     ELSE Goto("write", "lookup") /\ UNCHANGED <<inHand, answer>>
  /\ UNCHANGED <<stateVars, linkVars, held, attempts, queue, call,
                 readVars, userVars>>


(* A mutant: the request is dropped without an answer.                     *)
WriteAwaited_BugSilent ==
  /\ at["write"] = "await"
  /\ \E ok \in BOOLEAN :
       Awaited(ok) /\ Goto("write", IF ok THEN "lookup" ELSE "head")
  /\ UNCHANGED <<stateVars, linkVars, held, attempts, queueVars, readVars,
                 userVars>>

WriteAwaited ==
  /\ at["write"] = "await"
  /\ \E ok \in BOOLEAN :
       /\ Awaited(ok)
       /\ IF ok THEN Goto("write", "lookup") /\ UNCHANGED <<inHand, answer>>
                ELSE Goto("write", "head") /\ Answer("failed")
  /\ UNCHANGED <<stateVars, linkVars, held, attempts, queue, call,
                 readVars, userVars>>

WriteLookup ==
  /\ at["write"] = "lookup" /\ mu = "free"
  /\ Hold("write", transport) /\ Goto("write", "busy")
  /\ UNCHANGED <<stateVars, linkVars, attempts, queueVars, readVars, userVars>>

WriteOK ==
  /\ at["write"] = "busy" /\ link[held["write"]] = "open"
  /\ Answer("ok")
  /\ Goto("write", "head") /\ Hold("write", None)
  /\ UNCHANGED <<stateVars, linkVars, attempts, queue, call, readVars,
                 userVars>>

(* Whether the message got through is not known; it will be written again. *)
WriteFails ==
  /\ at["write"] = "busy" /\ link[held["write"]] # "open"
  /\ Goto("write", IF cancelled THEN "left" ELSE "reconnect")
  /\ UNCHANGED <<stateVars, linkVars, held, attempts, queue, inHand, call,
                 answer, readVars, userVars>>

WriteEnds ==
  /\ at["write"] = "head" /\ cancelled /\ Goto("write", "left")
  /\ UNCHANGED <<stateVars, linkVars, held, attempts, queueVars, readVars,
                 userVars>>

-----------------------------------------------------------------------------
(* readLoop.  "head": about to take the transport; "busy": its inner       *)
(* goroutine is in the transport's Read.                                   *)

ReadLeaves == Goto("read", "left") /\ readClosed' = TRUE

ReadStart ==
  /\ at["read"] = "start"
  /\ IF Refused THEN ReadLeaves
     ELSE /\ Goto("read", IF MustWait THEN "await" ELSE "head")
          /\ UNCHANGED readClosed
  /\ UNCHANGED <<stateVars, linkVars, held, attempts, queueVars, inbox,
                 userVars>>

ReadAwaited ==
  /\ at["read"] = "await"
  /\ \E ok \in BOOLEAN :
       /\ Awaited(ok)
       /\ IF ok THEN Goto("read", "head") /\ UNCHANGED readClosed
                ELSE ReadLeaves
  /\ UNCHANGED <<stateVars, linkVars, held, attempts, queueVars, inbox,
                 userVars>>

ReadLookup ==
  /\ at["read"] = "head" /\ ~cancelled /\ mu = "free"
  /\ Hold("read", transport) /\ Goto("read", "busy")
  /\ UNCHANGED <<stateVars, linkVars, attempts, queueVars, readVars, userVars>>

ReadEnds ==
  /\ at["read"] \in {"head", "busy"} /\ cancelled
  /\ ReadLeaves /\ Hold("read", None)
  /\ UNCHANGED <<stateVars, linkVars, attempts, queueVars, inbox, userVars>>

(* The Read fails, or nothing came for readTimeout, or what came is not a  *)
(* control message; the last two only while a transport may still fail.    *)
ReadFails ==
  /\ at["read"] = "busy"
  /\ link[held["read"]] # "open" \/ held["read"] < MaxTransports
  /\ Goto("read", "reconnect")
  /\ UNCHANGED <<stateVars, linkVars, held, attempts, queueVars, readVars,
                 userVars>>

Arrives == at["read"] = "busy" /\ link[held["read"]] = "open"

ReadData ==
  /\ Arrives /\ Goto("read", "deliver") /\ Hold("read", None)
  /\ UNCHANGED <<stateVars, linkVars, attempts, queueVars, readVars, userVars>>

(* sendPong: the read loop itself waits for writeLoop.                     *)
ReadPing ==
  /\ Arrives /\ Request("pong") /\ Goto("read", "pong") /\ Hold("read", None)
  /\ UNCHANGED <<stateVars, linkVars, attempts, inHand, answer,
                 readVars, userVars>>

PongSent ==
  /\ at["read"] = "pong"
  /\ \E result \in {"ok", "failed"} : Return("pong", result, "idle")
  /\ Goto("read", "head")
  /\ UNCHANGED <<stateVars, linkVars, held, attempts, readVars, userVars>>


(* writeOrDone into readResCh: waits for room or for the end of ctx.       *)
Deliver(item) ==
  \/ Len(inbox) < InboxSize /\ inbox' = Append(inbox, item)
  \/ cancelled /\ UNCHANGED inbox

ReadDeliver ==
  /\ at["read"] = "deliver" /\ Deliver("data") /\ Goto("read", "head")
  /\ UNCHANGED <<stateVars, linkVars, held, attempts, queueVars, readClosed,
                 userVars>>

ReadReport ==
  /\ at["read"] = "report" /\ Deliver("error") /\ ReadLeaves
  /\ UNCHANGED <<stateVars, linkVars, held, attempts, queueVars, userVars>>

-----------------------------------------------------------------------------
(* reconnect, called by either loop with the transport that failed it.     *)

Succeeds(l) ==
  /\ Goto(l, IF l = "write" THEN "lookup" ELSE "head")
  /\ Hold(l, None)
  /\ UNCHANGED <<inHand, answer>>

(* writeLoop answers the request it holds and leaves; readLoop reports.    *)
Fails(l) ==
  /\ Goto(l, IF l = "write" THEN "left" ELSE "report")
  /\ Hold(l, None)
  /\ IF l = "write" THEN Answer("failed") ELSE UNCHANGED <<inHand, answer>>


(* A mutant: the status is changed before closed is looked at.             *)
ReconnectClosed_BugStatus(l) ==
  /\ at[l] = "reconnect" /\ mu = "free" /\ cancelled
  /\ status' = "Reconnecting" /\ Fails(l)
  /\ UNCHANGED <<cancelled, limit, doneCh, linkVars, attempts, queue, call,
                 readVars, userVars>>

ReconnectClosed(l) ==
  /\ at[l] = "reconnect" /\ mu = "free" /\ cancelled
  /\ Fails(l)
  /\ UNCHANGED <<stateVars, linkVars, attempts, queue, call,
                 readVars, userVars>>


(* A mutant: the transport of the caller is not compared with the current. *)
ReconnectStale_BugAgain(l) ==
  /\ at[l] = "reconnect" /\ mu = "free" /\ ~cancelled /\ held[l] # transport
  /\ status' = "Reconnecting" /\ mu' = l
  /\ link' = [link EXCEPT ![transport] = "closed"]
  /\ Goto(l, "dial") /\ Hold(l, None)
  /\ UNCHANGED <<cancelled, limit, doneCh, transport, attempts, queueVars,
                 readVars, userVars>>

(* The status is changed before the transport is compared.                 *)
ReconnectStale(l) ==
  /\ at[l] = "reconnect" /\ mu = "free" /\ ~cancelled /\ held[l] # transport
  /\ status' = "Reconnecting"
  /\ Succeeds(l)
  /\ UNCHANGED <<cancelled, limit, doneCh, linkVars, attempts, queue, call,
                 readVars, userVars>>


(* A mutant: the old transport is not closed.                              *)
ReconnectBegin_BugKeep(l) ==
  /\ at[l] = "reconnect" /\ mu = "free" /\ ~cancelled /\ held[l] = transport
  /\ status' = "Reconnecting" /\ mu' = l
  /\ Goto(l, "dial") /\ Hold(l, None)
  /\ UNCHANGED <<cancelled, limit, doneCh, transport, link, attempts, queueVars,
                 readVars, userVars>>

ReconnectBegin(l) ==
  /\ at[l] = "reconnect" /\ mu = "free" /\ ~cancelled /\ held[l] = transport
  /\ status' = "Reconnecting" /\ mu' = l
  /\ link' = [link EXCEPT ![held[l]] = "closed"]
  /\ Goto(l, "dial") /\ Hold(l, None)
  /\ UNCHANGED <<cancelled, limit, doneCh, transport, attempts, queueVars,
                 readVars, userVars>>


(* A mutant: the end of ctx does not end the attempts.                     *)
ReconnectGivesUp_BugGoesOn(l) ==
  /\ l \in Loops /\ at[l] = "dial" /\ Exhausted(l)
  /\ mu' = "free" /\ Fails(l) /\ Restart(l)
  /\ UNCHANGED <<stateVars, transport, link, queue, call, readVars, userVars>>

ReconnectGivesUp(l) ==
  /\ l \in Loops /\ at[l] = "dial" /\ (Exhausted(l) \/ cancelled)
  /\ mu' = "free" /\ Fails(l) /\ Restart(l)
  /\ UNCHANGED <<stateVars, transport, link, queue, call, readVars,
                 userVars>>

(* The new transport is installed even if the old one was closed meanwhile:*)
(* that Close still waits for mu and will close it.                        *)
ReconnectOK(l) ==
  /\ l \in Loops /\ at[l] = "dialling"
  /\ \E t \in Fresh : link' = [link EXCEPT ![t] = "open"] /\ transport' = t
  /\ status' = "Connected" /\ mu' = "free"
  /\ Succeeds(l) /\ Restart(l)
  /\ UNCHANGED <<cancelled, limit, doneCh, queue, call, readVars,
                 userVars>>

-----------------------------------------------------------------------------
(* Read: one that is refused or that waits changes nothing.                *)

Read ==
  /\ ~Refused /\ ~MustWait
  /\ inbox # <<>> /\ inbox' = Tail(inbox)
  /\ UNCHANGED <<stateVars, linkVars, loopVars, queueVars, readClosed, ping,
                 closer>>

-----------------------------------------------------------------------------
(* CloseWithStatus.                                                        *)

CloseCancel(c) ==
  /\ closer[c] = "idle"
  /\ cancelled' = TRUE
  /\ closer' = [closer EXCEPT ![c] = "lock"]
  /\ UNCHANGED <<status, limit, doneCh, linkVars, loopVars, queueVars,
                 readVars, ping>>

CloseLocked(c) ==
  /\ closer[c] = "lock" /\ mu = "free"
  /\ link' = IF transport = None THEN link
             ELSE [link EXCEPT ![transport] = "closed"]
  /\ status' = "Disconnected"
  /\ closer' = [closer EXCEPT ![c] = "closed"]
  /\ UNCHANGED <<cancelled, limit, doneCh, mu, transport, loopVars, queueVars,
                 readVars, ping>>

-----------------------------------------------------------------------------
Dial(d) == DialBegin(d) \/ DialFails(d)

Reconnect(l) == \/ ReconnectClosed(l) \/ ReconnectStale(l)
                \/ ReconnectBegin(l) \/ ReconnectGivesUp(l)

Initial == InitialGivesUp \/ Install \/ InstallClosed
             \/ Announce \/ AnnounceFailure \/ Abort \/ Dial("initial")

DialOK == InitialDialOK \/ \E l \in Loops : ReconnectOK(l)

PingLoop == PingStart \/ PingAwaited \/ PingSend \/ PingSent \/ PingEnds

WriteLoop == WriteTake \/ WriteStart \/ WriteAwaited \/ WriteLookup
               \/ WriteOK \/ WriteFails \/ WriteEnds
               \/ Reconnect("write") \/ Dial("write")

(* What readLoop does of its own accord, and what makes its Read return.   *)
ReadLoop == ReadStart \/ ReadAwaited \/ ReadLookup \/ ReadEnds \/ PongSent
              \/ ReadDeliver \/ ReadReport
              \/ Reconnect("read") \/ Dial("read")
Peer == ReadFails \/ ReadData \/ ReadPing

Next ==
  \/ \E t \in Transports : Break(t)
  \/ Initial \/ PingLoop \/ WriteLoop \/ ReadLoop \/ Peer \/ Read
  \/ DialOK
  \/ \E w \in Writers : WriteBegin(w) \/ WriteReturns(w)
  \/ \E c \in Closers : CloseCancel(c) \/ CloseLocked(c)

Spec == Init /\ [][Next]_vars

(***************************************************************************)
(* A goroutine that can go on does so, and a dial that is tried again and  *)
(* again succeeds at last.  That mu goes to whoever waits for it need not  *)
(* be assumed: it is held only across the dials of a reconnection.         *)
(* Nothing is asked of the peer, the application or the network: no        *)
(* message need come, nobody need call.                                    *)
(***************************************************************************)
Fairness ==
  /\ WF_vars(Initial) /\ WF_vars(PingLoop)
  /\ WF_vars(WriteLoop) /\ WF_vars(ReadLoop)
  /\ SF_vars(DialOK)
  /\ \A w \in Writers : WF_vars(WriteReturns(w))
  /\ \A c \in Closers : WF_vars(CloseLocked(c))

FairSpec == Spec /\ Fairness

-----------------------------------------------------------------------------
(* Safety.                                                                 *)

Unclosed == {t \in Transports : link[t] \in {"open", "broken"}}

(* A transport that was dialled and not closed is the one in use, or the   *)
(* one initialConnect has dialled and is about to install, and there is    *)
(* never a second one: reconnect closes the old before it dials the new.   *)
OneTransport ==
  /\ Cardinality(Unclosed) <= 1
  /\ \A t \in Unclosed :
       t = transport \/ (at["initial"] = "install" /\ held["initial"] = t)

(* Nothing that was dialled outlives a CloseWithStatus that has returned,  *)
(* whatever dial it overtook, except a dial of initialConnect that has not *)
(* come back yet and is closed there.                                      *)
NoTransportLeak ==
  (\E c \in Closers : closer[c] = "closed")
     => Unclosed = {} \/ at["initial"] = "install"

(* Once a CloseWithStatus has returned, no reconnection replaces the       *)
(* transport or reports Reconnecting, and the status changes no more       *)
(* (transport_test.go:325, close_race_test.go:105), but for what an        *)
(* initialConnect that was faster than the Close has still to announce     *)
(* (transport.go:313-314).                                                 *)
StaysClosed ==
  [][(\E c \in Closers : closer[c] = "closed") =>
       /\ transport' = transport
       /\ status' # "Reconnecting"
       /\ status' \in {status, "Disconnected"} \/ at["initial"] = "announce"]_vars

(* Without that exception: a Transport that reports Disconnected never     *)
(* reports anything else.  The code does not keep this.                    *)
DisconnectedIsFinal ==
  [][status = "Disconnected" => status' = "Disconnected"]_vars

(* A transport that works is not taken down for the failure of another:    *)
(* when both loops fail on the same transport, only the first reconnects.  *)
WorkingTransportKept ==
  [][\A t \in Transports :
       link[t] = "open" /\ link'[t] = "closed" =>
         cancelled \/ \E l \in Loops : at[l] = "reconnect" /\ held[l] = t]_vars

-----------------------------------------------------------------------------
(* Liveness.                                                               *)

(* CloseWithStatus returns, also during a reconnection without end.        *)
CloseReturns ==
  \A c \in Closers : closer[c] = "lock" ~> closer[c] = "closed"

(* A closed transport ends its goroutines and lets every caller go.        *)
ShutdownCompletes ==
  cancelled ~> /\ at["initial"] = "done" /\ ping = "left"
               /\ \A l \in Loops : at[l] = "left"
               /\ readClosed

(* A transport that is closed comes to its end.                            *)
Terminates == CloseReturns /\ ShutdownCompletes

(* With an unlimited number of attempts every Write is answered, through   *)
(* any number of reconnections.                                            *)
WritesAnswered ==
  \A w \in Writers :
    limit < 0 /\ call[w] = "waiting" ~> call[w] # "waiting"
=============================================================================
