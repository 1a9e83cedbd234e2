------------------------------- MODULE Multi -------------------------------
(***************************************************************************)
(* multi.Transport (transport/multi/transport.go): one transport made of   *)
(* several reconnect.Transports.  A Write holds the read lock of the map   *)
(* while a selector chooses one of them and while that one writes; a       *)
(* reader per transport takes its transport out of the map when it can not *)
(* be read any more; a monitor shuts all down when none is left; and Close *)
(* closes those that are in the map.                                       *)
(*                                                                         *)
(* The lock is a sync.RWMutex: a Lock that waits keeps new readers out, the*)
(* ones that hold the lock already included.  It is not a variable: who    *)
(* holds it and who waits for it shows in what each goroutine does.        *)
(*                                                                         *)
(* The inner transports are what Reconnect promises: connected and         *)
(* reconnecting by turns, until they are disconnected for good (but for an *)
(* announcement that a Close has overtaken, which only a Write after that  *)
(* Close could see); a Write waits while its transport reconnects, and     *)
(* Close comes back.                                                       *)
(***************************************************************************)
EXTENDS Selectors, FiniteSetsExt

CONSTANTS
  Order,      \* the transport ids, in the order of the selectors' list
  Writers,    \* the callers of Write
  Kinds,      \* the selectors: a subset of AllKinds
  Profiles,   \* bound: what each transport may measure of itself
  MaxSize,    \* bound: the size of the data
  MaxBytes,   \* bound: bytes by which the counters of transports differ
  Nics,       \* the network interfaces
  NicOf,      \* NICEventSubscriber.NICTransportID: the transport of an interface
  MaxChanges, \* bound: calls of ChangeNIC
  PipeSize    \* capacity of the channels between the manager and the scheduler

AllKinds == {"roundRobin", "byteBalanced", "minRTT", "ecf", "polled", "scheduled"}
Ids == ToSet(Order)

ASSUME MultiAssumption ==
  /\ Order \in Seq(Ids) /\ Order # <<>>
  /\ Kinds \subseteq AllKinds
  /\ IsFiniteSet(Writers)
  /\ {MaxSize, MaxBytes, MaxChanges, PipeSize} \subseteq Nat
  /\ NicOf \in [Nics -> Ids \cup {Nil}]

VARIABLES
  kind,      \* the selector
  status,    \* the status of each inner transport
  loop,      \* readLoopTransport: "reading", "deleting" or "ended"
  ctx,       \* Transport.ctx: "open", or who cancelled it first: "monitor" or "close"
  monitor,   \* statusMonitorLoop: "idle", "shutting" down or "ended"
  closer,    \* CloseWithStatus: "idle", "cancelled", "closing" or "done"
  toClose,   \* CloseWithStatus: the transports it closes
  pc,        \* Write: "idle", "picking", "unsure", "listing" or "writing"
  id,        \* Write: the transport the selector would like, then the one it writes to
  current,   \* the next id of the round robin, or the id of the scheduler
  bytes,     \* ByteBalancedSelector.accumulatedBytes, less those of the least
  fell,      \* history: bytes went elsewhere than where they would have balanced
  measured,  \* what the transports measure of themselves
  info,      \* what the selector has been told of that
  waiting,   \* ECFSelector.waiting
  nic,       \* Manager.currentNICName
  events,    \* Manager.nicChangeEventCh
  sub,       \* the channel of the subscriber, of capacity 1
  pipe,      \* the channels and goroutines from there to the scheduler
  changes,   \* history: how many calls of ChangeNIC
  missed     \* history: the last change was dropped

innerVars  == <<status, loop>>
statusVars == <<ctx, monitor, closer, toClose>>
writeVars  == <<pc, id>>
selVars    == <<current, bytes, fell, measured, info, waiting>>
nicVars    == <<nic, events, sub, pipe, changes, missed>>
vars == <<kind, innerVars, statusVars, writeVars, selVars, nicVars>>

\* transportMap: a transport leaves it when its reader ends.
map == {t \in Ids : loop[t] # "ended"}

\* The selectors that are told of the metrics.
Told == kind \in {"minRTT", "ecf"}

Init ==
  /\ kind \in Kinds
  /\ status \in [Ids -> {"connected", "reconnecting"}]
  /\ loop = [t \in Ids |-> "reading"]
  /\ ctx = "open"
  /\ monitor = "idle"
  /\ closer = "idle"
  /\ toClose = {}
  /\ pc = [w \in Writers |-> "idle"]
  /\ id = [w \in Writers |-> Nil]
  /\ current = IF kind = "roundRobin" THEN Order[1] ELSE Nil
  /\ bytes = [t \in Ids |-> 0]
  /\ fell = FALSE
  /\ measured \in {m \in [Ids -> UNION {Profiles[t] : t \in Ids}] : \A t \in Ids : m[t] \in Profiles[t]}
  /\ ~Told => measured = [t \in Ids |-> CHOOSE m \in Profiles[t] : TRUE]
  /\ info = [t \in Ids |-> IF Told THEN Updated(Nil, measured[t]) ELSE Nil]
  /\ waiting = FALSE
  /\ nic = IF kind = "scheduled" THEN CHOOSE n \in Nics : TRUE ELSE Nil
  /\ events = <<>>
  /\ sub = <<>>
  /\ pipe = <<>>
  /\ changes = 0
  /\ missed = FALSE

-----------------------------------------------------------------------------
(* The lock.                                                                *)

RLockFree == \A t \in Ids : loop[t] # "deleting"
LockFree  == \A w \in Writers : pc[w] = "idle"

-----------------------------------------------------------------------------
(* The inner transports and what they measure.                              *)

StatusChanges(t, s) ==
  /\ status[t] # "disconnected"
  /\ s # status[t]
  /\ status' = [status EXCEPT ![t] = s]
  /\ UNCHANGED <<kind, loop, statusVars, writeVars, selVars, nicVars>>

Measures(t) ==
  /\ Told
  /\ status[t] # "disconnected"
  /\ \E m \in Profiles[t] : measured' = [measured EXCEPT ![t] = m]
  /\ UNCHANGED <<kind, innerVars, statusVars, writeVars, current, bytes, fell, info, waiting, nicVars>>

UpdateMetrics ==
  /\ Told
  /\ ctx = "open"
  /\ RLockFree
  /\ info' = [t \in Ids |-> IF t \in map THEN Updated(info[t], measured[t]) ELSE info[t]]
  /\ UNCHANGED <<kind, innerVars, statusVars, writeVars, current, bytes, fell, measured, waiting, nicVars>>

-----------------------------------------------------------------------------
(* readLoopTransport.  It reads, and hands what it has read to Read through *)
(* readResCh; a loop that waits for room there, because the application does*)
(* not read, is one that does not stop reading yet.                         *)

Reads(t, from, to) ==
  /\ loop[t] = from
  /\ loop' = [loop EXCEPT ![t] = to]
  /\ UNCHANGED <<kind, status, statusVars, writeVars, selVars, nicVars>>

\* The inner Read fails, or the loop sees between two of them that all is over.
StopsReading(t) ==
  /\ status[t] # "connected" \/ ctx # "open"
  /\ Reads(t, "reading", "deleting")

Deletes(t) == LockFree /\ Reads(t, "deleting", "ended")

-----------------------------------------------------------------------------
(* statusMonitorLoop and CloseWithStatus.  What the monitor stores for      *)
(* OverallStatus is left out: it acts on one value, Disconnected.           *)

Cancel(who) == ctx' = IF ctx = "open" THEN who ELSE ctx

StatusFrame == UNCHANGED <<kind, loop, writeVars, selVars, nicVars>>

MonitorLooks_BugNoneConnected ==
  /\ monitor = "idle"
  /\ RLockFree
  /\ \A t \in map : status[t] # "connected"
  /\ monitor' = "shutting"
  /\ UNCHANGED <<status, ctx, closer, toClose>>
  /\ StatusFrame

MonitorLooks_BugForgetsNone ==
  /\ monitor = "idle"
  /\ RLockFree
  /\ map # {}
  /\ \A t \in map : status[t] = "disconnected"
  /\ monitor' = "shutting"
  /\ UNCHANGED <<status, ctx, closer, toClose>>
  /\ StatusFrame

MonitorLooks ==
  /\ monitor = "idle"
  /\ RLockFree
  /\ \A t \in map : status[t] = "disconnected"
  /\ monitor' = "shutting"
  /\ UNCHANGED <<status, ctx, closer, toClose>>
  /\ StatusFrame

MonitorShutsDown ==
  /\ monitor = "shutting"
  /\ Cancel("monitor")
  /\ monitor' = "ended"
  /\ UNCHANGED <<status, closer, toClose>>
  /\ StatusFrame

MonitorEnds ==
  /\ monitor = "idle"
  /\ ctx # "open"
  /\ monitor' = "ended"
  /\ UNCHANGED <<status, ctx, closer, toClose>>
  /\ StatusFrame

CloseCancels ==
  /\ closer = "idle"
  /\ Cancel("close")
  /\ closer' = "cancelled"
  /\ UNCHANGED <<status, monitor, toClose>>
  /\ StatusFrame

CloseLooks ==
  /\ closer = "cancelled"
  /\ RLockFree
  /\ closer' = "closing"
  /\ toClose' = map
  /\ UNCHANGED <<status, ctx, monitor>>
  /\ StatusFrame

CloseReturns ==
  /\ closer = "closing"
  /\ closer' = "done"
  /\ toClose' = {}
  /\ status' = [t \in Ids |-> IF t \in toClose THEN "disconnected" ELSE status[t]]
  /\ UNCHANGED <<ctx, monitor>>
  /\ StatusFrame

-----------------------------------------------------------------------------
(* Write.                                                                   *)

WriteFrame == UNCHANGED <<kind, innerVars, statusVars, measured, info, nicVars>>

Goes(w, to, t) ==
  /\ pc' = [pc EXCEPT ![w] = to]
  /\ id' = [id EXCEPT ![w] = t]

\* Bound: several callers at a time only where they change the selector, and
\* none with the scheduler, which chooses as the polled one does.
Callers == CASE kind = "byteBalanced" -> Writers
             [] kind = "scheduled"    -> {}
             [] OTHER                 -> {CHOOSE w \in Writers : TRUE}

WriteBegin(w) ==
  /\ w \in Callers
  /\ pc[w] = "idle"
  /\ RLockFree
  /\ Goes(w, "picking", Nil)
  /\ UNCHANGED <<current, bytes, fell, waiting>>
  /\ WriteFrame

\* All selectors but ECF go on with what they would like, be it nothing.
Prefers(w, t) == Goes(w, IF kind = "ecf" /\ t = Nil THEN "unsure" ELSE "listing", t)

Pick(w) ==
  /\ pc[w] = "picking"
  /\ \/ /\ kind = "roundRobin"
        /\ Prefers(w, current)
        /\ current' = NextId(Order, current)
        /\ UNCHANGED waiting
     \/ /\ kind = "byteBalanced"
        /\ RLockFree
        /\ Prefers(w, MinBytes(Order, map, bytes))
        /\ UNCHANGED <<current, waiting>>
     \/ /\ kind = "minRTT"
        /\ \E t \in MinRTT(info, measured) : Prefers(w, t)
        /\ UNCHANGED <<current, waiting>>
     \/ /\ kind = "ecf"
        /\ \E o \in ECF(info, measured, waiting) : Prefers(w, o.id) /\ waiting' = o.waiting
        /\ UNCHANGED current
     \/ /\ kind \in {"polled", "scheduled"}
        /\ Prefers(w, current)
        /\ UNCHANGED <<current, waiting>>
  /\ UNCHANGED <<bytes, fell>>
  /\ WriteFrame

\* ECFSelector.Get looks at the waiting flag after it has let go of its lock.
EcfWaitsOrGivesUp(w) ==
  /\ pc[w] = "unsure"
  /\ Goes(w, IF waiting THEN "picking" ELSE "idle", Nil)
  /\ UNCHANGED <<current, bytes, fell, waiting>>
  /\ WriteFrame

\* The counters go up for ever; only their differences matter, and only those
\* of the transports in the map.
Counted(t, n) ==
  LET now == [bytes EXCEPT ![t] = @ + n]
  IN  [s \in Ids |-> IF s \in map THEN now[s] - Min({now[u] : u \in map}) ELSE 0]

Choose(w) ==
  /\ pc[w] = "listing"
  /\ RLockFree
  /\ \E t \in SelectAvailable(id[w], map, status) :
       IF t = Nil THEN Goes(w, "idle", Nil) /\ UNCHANGED <<bytes, fell>>
       ELSE /\ Goes(w, "writing", t)
            /\ IF kind = "byteBalanced"
                 THEN \E n \in 1..MaxSize : bytes' = Counted(t, n) /\ \A s \in Ids : bytes'[s] <= MaxBytes
                 ELSE UNCHANGED bytes
            /\ fell' = (fell \/ (kind = "byteBalanced" /\ t # id[w]))
  /\ UNCHANGED <<current, waiting>>
  /\ WriteFrame

\* The inner Write waits for its transport to be connected again.
WriteReturns(w) ==
  /\ pc[w] = "writing"
  /\ status[id[w]] # "reconnecting"
  /\ Goes(w, "idle", Nil)
  /\ UNCHANGED <<current, bytes, fell, waiting>>
  /\ WriteFrame

-----------------------------------------------------------------------------
(* PollingScheduler, and nic.Manager behind NICEventSubscriber and          *)
(* EventScheduler.                                                          *)

NicFrame == UNCHANGED <<kind, innerVars, statusVars, writeVars, bytes, fell, measured, info, waiting>>

Polls ==
  /\ kind = "polled"
  /\ current' \in Ids \cup {Nil}
  /\ UNCHANGED nicVars
  /\ NicFrame

ChangeNIC(n) ==
  /\ kind = "scheduled"
  /\ changes < MaxChanges
  /\ changes' = changes + 1
  /\ events' = Append(events, n)
  /\ UNCHANGED <<nic, sub, pipe, missed, current>>
  /\ NicFrame

\* Manager.start: a subscriber that has not taken the last event misses this one.
NicChanges ==
  /\ events # <<>>
  /\ events' = Tail(events)
  /\ nic' = Head(events)
  /\ IF sub = <<>> THEN sub' = <<Head(events)>> ELSE UNCHANGED sub
  /\ missed' = (sub # <<>>)
  /\ UNCHANGED <<pipe, changes, current>>
  /\ NicFrame

SubscriberPasses_BugDrops ==
  /\ sub # <<>>
  /\ sub' = <<>>
  /\ pipe' = IF Len(pipe) < PipeSize THEN pipe \o sub ELSE pipe
  /\ UNCHANGED <<nic, events, changes, missed, current>>
  /\ NicFrame

SubscriberPasses ==
  /\ sub # <<>>
  /\ Len(pipe) < PipeSize
  /\ sub' = <<>>
  /\ pipe' = pipe \o sub
  /\ UNCHANGED <<nic, events, changes, missed, current>>
  /\ NicFrame

SchedulerTakes ==
  /\ pipe # <<>>
  /\ pipe' = Tail(pipe)
  /\ current' = NicOf[Head(pipe)]
  /\ UNCHANGED <<nic, events, sub, changes, missed>>
  /\ NicFrame

-----------------------------------------------------------------------------
Monitoring  == MonitorLooks \/ MonitorShutsDown \/ MonitorEnds
Closing     == CloseLooks \/ CloseReturns
Writing(w)  == Pick(w) \/ EcfWaitsOrGivesUp(w) \/ Choose(w) \/ WriteReturns(w)
Scheduling  == NicChanges \/ SubscriberPasses \/ SchedulerTakes

Next ==
  \/ \E t \in Ids : StopsReading(t) \/ Deletes(t) \/ Measures(t)
  \/ \E t \in Ids, s \in {"connected", "reconnecting", "disconnected"} : StatusChanges(t, s)
  \/ \E w \in Writers : WriteBegin(w) \/ Writing(w)
  \/ UpdateMetrics
  \/ Monitoring
  \/ CloseCancels
  \/ Closing
  \/ Polls
  \/ \E n \in Nics : ChangeNIC(n)
  \/ Scheduling

Spec == Init /\ [][Next]_vars

\* The goroutines go on while they can.  Nothing says that an inner transport
\* reconnects, that anything arrives, or that the application reads or writes.
FairSpec ==
  /\ Spec
  /\ WF_vars(Monitoring)
  /\ WF_vars(Closing)
  /\ \A t \in Ids : WF_vars(Deletes(t))
  /\ \A w \in Writers : WF_vars(Writing(w))
  /\ WF_vars(NicChanges)
  /\ WF_vars(SubscriberPasses)
  /\ WF_vars(SchedulerTakes)

-----------------------------------------------------------------------------
(* Properties.                                                              *)

\* A Write never looks for its transport in vain: the one it was given is in
\* the map until it has written, whatever the selector remembers of transports
\* that are gone (Write does not check, and would dereference nil).
WriteTargetExists == \A w \in Writers : pc[w] = "writing" => id[w] \in map

\* The selector that balances bytes does, when several callers write at once
\* and each of them chooses before the others have been counted: no transport
\* gets ahead of another one by more than one write of each caller.
Balanced ==
  kind = "byteBalanced" /\ ~fell =>
    \A s, t \in map : bytes[s] - bytes[t] <= Cardinality(Writers) * MaxSize

\* The monitor shuts the transport down only when no inner transport works or
\* may work again, though it decides on what it saw some time before.
ShutdownJustified == ctx = "monitor" => \A t \in map : status[t] = "disconnected"

\* As long as Writes come back, Close comes back, and the transport shuts itself
\* down when all inner transports are disconnected.
EndsWhenWritesReturn ==
  (\A w \in Writers : []<>(pc[w] = "idle")) =>
     /\ closer = "cancelled" ~> closer = "done"
     /\ (\A t \in Ids : status[t] = "disconnected") ~> ctx # "open"

\* Unless the manager dropped the event of the last change, the scheduler ends
\* up with the transport of the current interface.
SchedulerFollowsNIC ==
  <>[](kind = "scheduled" /\ changes > 0 /\ ~missed => current = NicOf[nic])

\* A Write and the reader of a transport that is gone never wait for each other:
\* no Write that holds the read lock asks for it again while a Lock waits
\* (byte_balanced_selector_distribution_test.go:33-35).
NoReentranceDeadlock ==
  \A w \in Writers :
    pc[w] = "listing" \/ (pc[w] = "picking" /\ kind = "byteBalanced") => RLockFree

=============================================================================
