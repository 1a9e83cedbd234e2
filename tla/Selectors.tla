----------------------------- MODULE Selectors -----------------------------
(***************************************************************************)
(* The choice of a transport for one write of a multi.Transport            *)
(* (transport/multi: transport_selector.go, transport_info.go and the      *)
(* selectors).  An operator gives the set of the choices the code may make:*)
(* Go walks a map in any order, so that the first of the best is any of    *)
(* them.  Statistics and logging are left out; so is the queue of the ECF  *)
(* inequalities, which is 0 because nobody calls SetQueueSize.             *)
(***************************************************************************)
EXTENDS Integers, Sequences, FiniteSets, SequencesExt

CONSTANT Nil

\* The elements of S that no other element is better than.
Best(S, Better(_, _)) == {t \in S : ~\E u \in S : Better(u, t)}

-----------------------------------------------------------------------------
(* transport_info.go.  What a transport measures of itself, now, is a record*)
(* [rtt, rttvar, cwnd, inflight].  What a selector keeps of a transport is  *)
(* [minRTT, allowed], as of its last UpdateTransport; a transport it has not*)
(* been told of is Nil.                                                     *)

Updated(info, m) ==
  LET kept == IF info = Nil THEN 0 ELSE info.minRTT
  IN  [minRTT  |-> IF m.rtt > 0 /\ (kept = 0 \/ m.rtt < kept) THEN m.rtt ELSE kept,
       allowed |-> m.inflight < m.cwnd]

BaseRTT(info, m) == IF info.minRTT = 0 THEN m.rtt ELSE info.minRTT

KnownIn(info) == {t \in DOMAIN info : info[t] # Nil}

Allowed(info) == {t \in KnownIn(info) : info[t].allowed}

-----------------------------------------------------------------------------
\* The fallback of every selector: the transport it would like, another one
\* that is connected, one that is about to be, or none.
SelectAvailable_BugTrusts(id, map, status) ==
  LET connected == {t \in map : status[t] = "connected"}
      coming    == {t \in map : status[t] = "reconnecting"}
  IN  IF id # Nil /\ status[id] # "reconnecting" THEN {id}
      ELSE IF connected # {} THEN connected
      ELSE IF coming # {} THEN coming
      ELSE {Nil}

SelectAvailable(id, map, status) ==
  LET connected == {t \in map : status[t] = "connected"}
      coming    == {t \in map : status[t] = "reconnecting"}
  IN  IF id \in connected THEN {id}
      ELSE IF connected # {} THEN connected
      ELSE IF coming # {} THEN coming
      ELSE {Nil}

\* RoundRobinSelector.selectNext: the id after t in the list.
NextId(order, t) ==
  LET i == CHOOSE j \in DOMAIN order : order[j] = t
  IN  order[(i % Len(order)) + 1]

\* ByteBalancedSelector.selectMinBytes: the first of the list among those of
\* the map that have the fewest.
FirstOf(order, S) ==
  LET places == {i \in DOMAIN order : order[i] \in S}
  IN  IF places = {} THEN Nil ELSE order[Min(places)]

Fewest(map, bytes) == {t \in map : \A u \in map : bytes[t] <= bytes[u]}

MinBytes_BugFirst(order, map, bytes) == FirstOf(order, map)

MinBytes(order, map, bytes) == FirstOf(order, Fewest(map, bytes))

\* MinRTTSelector: the least RTT ever, then the least RTT now, among the
\* transports whose window has room, or among all if none has.
MinRTT(info, measured) ==
  LET base(t) == BaseRTT(info[t], measured[t])
      better(u, t) == \/ base(u) < base(t)
                      \/ base(u) = base(t) /\ measured[u].rtt < measured[t].rtt
  IN  IF KnownIn(info) = {} THEN {Nil}
      ELSE Best(IF Allowed(info) = {} THEN KnownIn(info) ELSE Allowed(info), better)

-----------------------------------------------------------------------------
(* ECFSelector.selectTransportECF: the choice, or Nil, and the waiting flag.*)

Beta == 4

Larger(x, y) == IF x > y THEN x ELSE y

\* Is the fastest transport, f, worth waiting for, though a could be used?
FirstInequality(f, a, waiting) ==
  LET rhs == f.cwnd * (a.rtt + Larger(f.rttvar, a.rttvar))
  IN  Beta * f.rtt * (2 * f.cwnd) < Beta * rhs + (IF waiting THEN rhs ELSE 0)

SecondInequality(f, a) ==
  a.rtt * a.cwnd >= a.cwnd * (2 * f.rtt + Larger(f.rttvar, a.rttvar))

ECF(info, measured, waiting) ==
  LET fastest   == Best(KnownIn(info), LAMBDA u, t : BaseRTT(info[u], measured[u]) < BaseRTT(info[t], measured[t]))
      available == Best(Allowed(info), LAMBDA u, t : measured[u].rtt < measured[t].rtt)
      use(t) == [id |-> t, waiting |-> FALSE]
      outcome(f, a) ==
        IF /\ f # a
           /\ FirstInequality(measured[f], measured[a], waiting)
           /\ SecondInequality(measured[f], measured[a])
        THEN [id |-> Nil, waiting |-> TRUE]
        ELSE use(a)
      \* one walk finds both, so that it does not swap two transports of a tie
      oneWalk(f, a) == ~(f # a /\ f \in available /\ a \in fastest)
  IN  CASE Cardinality(KnownIn(info)) = 1 -> {use(t) : t \in KnownIn(info)}
        [] Allowed(info) = {}             -> {[id |-> Nil, waiting |-> waiting]}
        [] OTHER -> {outcome(p[1], p[2]) : p \in {q \in fastest \X available : oneWalk(q[1], q[2])}}

=============================================================================
