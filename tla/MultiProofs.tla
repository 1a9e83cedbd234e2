---------------------------- MODULE MultiProofs ----------------------------
(***************************************************************************)
(* Proofs about Multi for any number of transports and writers, every      *)
(* selector and every size of the data.                                    *)
(***************************************************************************)
EXTENDS Multi, FiniteSetTheorems, SequenceTheorems, WellFoundedInduction, TLAPS

(* The types of what the properties are about.                             *)
Types ==
  /\ loop \in [Ids -> {"reading", "deleting", "ended"}]
  /\ status \in [Ids -> {"connected", "reconnecting", "disconnected"}]
  /\ pc \in [Writers -> {"idle", "picking", "unsure", "listing", "writing"}]
  /\ id = [w \in Writers |-> id[w]]
  /\ bytes \in [Ids -> Nat]

(* What the monitor has seen stays true: a disconnected transport is       *)
(* disconnected for good, and none comes into the map.                     *)
MonitorInv ==
  monitor = "shutting" \/ ctx = "monitor" =>
    \A t \in map : status[t] = "disconnected"

(* The callers that have chosen t and are not counted yet.                 *)
Pending(t) == {w \in Writers : pc[w] = "listing" /\ id[w] = t}

(* t may be ahead by a write of each caller but those that are still to be *)
(* counted for t: what these have seen of t was the least.                 *)
Ahead(t) == (Cardinality(Writers) - Cardinality(Pending(t))) * MaxSize

BalanceInv ==
  kind = "byteBalanced" /\ ~fell =>
    \A s, t \in map : bytes[s] <= bytes[t] + Ahead(s)

IInv == Types /\ WriteTargetExists /\ MonitorInv /\ BalanceInv

-----------------------------------------------------------------------------
(* The helpers of the selectors.                                           *)

LEMMA LeastNatural ==
  ASSUME NEW S \in SUBSET Nat, S # {}
  PROVE  Min(S) \in S /\ \A n \in S : Min(S) <= n
<1> DEFINE R == OpToRel(<, Nat)
<1>a. IsWellFoundedOn(R, Nat)
  BY NatLessThanWellFounded
<1>b. \A m, n \in Nat : ~(<<n, m>> \in R) => m <= n
  BY DEF OpToRel
<1> HIDE DEF R
<1>1. PICK m \in S : \A n \in S : ~(<<n, m>> \in R)
  BY <1>a, WFMin
<1>2. \A n \in S : m <= n
  BY <1>1, <1>b
<1> QED BY <1>2 DEF Min

(* The first of a set in the order of a walk is one of the set. *)
LEMMA FirstIsIn ==
  ASSUME NEW S \in SUBSET Ids, S # {}
  PROVE  FirstOf(Order, S) \in S
<1> DEFINE places == {i \in DOMAIN Order : Order[i] \in S}
<1>1. DOMAIN Order \subseteq Nat
  BY MultiAssumption
<1>2. places # {} /\ places \subseteq Nat
  BY <1>1 DEF Ids, ToSet
<1>3. Min(places) \in places
  BY <1>2, LeastNatural
<1> QED BY <1>2, <1>3 DEF FirstOf

(* The byte-balanced selector prefers a transport that no other one is     *)
(* behind.                                                                 *)
LEMMA MinBytesIsLeast ==
  ASSUME NEW S \in SUBSET Ids, S # {}, NEW b \in [Ids -> Nat]
  PROVE  /\ MinBytes(Order, S, b) \in S
         /\ \A t \in S : b[MinBytes(Order, S, b)] <= b[t]
<1> DEFINE counts == {b[t] : t \in S}
<1>1. counts \in SUBSET Nat /\ counts # {}
  OBVIOUS
<1>2. PICK s \in S : \A n \in counts : b[s] <= n
  <2>1. PICK m \in counts : \A n \in counts : m <= n
    BY <1>1, LeastNatural
  <2> QED BY <2>1
<1>3. s \in Fewest(S, b)
  BY <1>2 DEF Fewest
<1>4. MinBytes(Order, S, b) \in Fewest(S, b)
  BY <1>3, FirstIsIn DEF MinBytes, Fewest
<1> QED BY <1>4 DEF Fewest

(* The fallback is a transport of the map, or nothing.                     *)
LEMMA AvailableIsInMap ==
  ASSUME NEW t, NEW S, NEW st
  PROVE  SelectAvailable(t, S, st) \subseteq S \cup {Nil}
BY DEF SelectAvailable

(* Counting keeps the differences.                                         *)
LEMMA CountedDifferences ==
  ASSUME Types, NEW t \in map, NEW n \in Nat
  PROVE  /\ Counted(t, n) \in [Ids -> Nat]
         /\ \E m \in Nat : \A s \in map :
              Counted(t, n)[s] = bytes[s] + (IF s = t THEN n ELSE 0) - m
<1> DEFINE now == [bytes EXCEPT ![t] = @ + n]
           counts == {now[u] : u \in map}
           m == Min(counts)
<1>1. now \in [Ids -> Nat] /\ map \subseteq Ids
  BY DEF Types, map
<1>2. counts \in SUBSET Nat /\ counts # {}
  BY <1>1
<1>3. m \in Nat /\ \A s \in map : m <= now[s]
  BY <1>1, <1>2, LeastNatural
<1>4. Counted(t, n) = [s \in Ids |-> IF s \in map THEN now[s] - m ELSE 0]
  BY DEF Counted
<1> HIDE DEF m, counts
<1>5. Counted(t, n) \in [Ids -> Nat]
  BY <1>1, <1>3, <1>4
<1>6. ASSUME NEW s \in map
      PROVE  Counted(t, n)[s] = bytes[s] + (IF s = t THEN n ELSE 0) - m
  <2>1. s \in Ids /\ bytes[s] \in Nat
    BY <1>1 DEF Types
  <2>2. now[s] = bytes[s] + (IF s = t THEN n ELSE 0)
    BY <2>1 DEF Types
  <2> HIDE DEF now
  <2>3. Counted(t, n)[s] = now[s] - m
    BY <1>4, <2>1
  <2>4. m \in Nat
    BY <1>3
  <2> HIDE DEF m
  <2> QED BY <2>1, <2>2, <2>3, <2>4
<1> QED BY <1>3, <1>5, <1>6

(* How far t may be ahead. *)
LEMMA AheadType ==
  ASSUME NEW t
  PROVE  /\ Cardinality(Pending(t)) \in Nat /\ Cardinality(Writers) \in Nat
         /\ Cardinality(Pending(t)) <= Cardinality(Writers)
         /\ MaxSize \in Nat /\ Ahead(t) \in Nat
<1>1. Pending(t) \subseteq Writers
  BY DEF Pending
<1>2. /\ Cardinality(Pending(t)) \in Nat /\ Cardinality(Writers) \in Nat
      /\ Cardinality(Pending(t)) <= Cardinality(Writers)
  BY <1>1, MultiAssumption, FS_Subset, FS_CardinalityType
<1>3. \A a, b \in Nat : a <= b => b - a \in Nat
  OBVIOUS
<1>4. \A a, b \in Nat : a * b \in Nat
  OBVIOUS
<1>5. Cardinality(Writers) - Cardinality(Pending(t)) \in Nat
  BY <1>2, <1>3
<1> QED BY <1>2, <1>4, <1>5, MultiAssumption DEF Ahead

(* The same in the next state. *)
LEMMA AheadTypeNext ==
  ASSUME NEW t
  PROVE  Ahead(t)' \in Nat
<1>1. Pending(t)' \subseteq Writers
  BY DEF Pending
<1>2. /\ Cardinality(Pending(t)') \in Nat /\ Cardinality(Writers) \in Nat
      /\ Cardinality(Pending(t)') <= Cardinality(Writers)
  BY <1>1, MultiAssumption, FS_Subset, FS_CardinalityType
<1>3. \A a, b \in Nat : a <= b => b - a \in Nat
  OBVIOUS
<1>4. \A a, b \in Nat : a * b \in Nat
  OBVIOUS
<1>5. Cardinality(Writers) - Cardinality(Pending(t)') \in Nat
  BY <1>2, <1>3
<1> QED BY <1>4, <1>5, MultiAssumption DEF Ahead

(* One caller fewer that is pending is one write more. *)
LEMMA AheadByOne ==
  ASSUME NEW t, NEW w \in Pending(t), Pending(t)' = Pending(t) \ {w}
  PROVE  Ahead(t)' = Ahead(t) + MaxSize
<1> DEFINE N == Cardinality(Writers)
           P == Cardinality(Pending(t))
<1>1. IsFiniteSet(Pending(t))
  BY MultiAssumption, FS_Subset DEF Pending
<1>2. Cardinality(Pending(t)') = P - 1
  BY <1>1, FS_RemoveElement
<1>3. N \in Nat /\ P \in Nat /\ MaxSize \in Nat
  BY AheadType
<1>4. \A a, b, c \in Int : (a - (b - 1)) * c = (a - b) * c + c
  OBVIOUS
<1> QED BY <1>2, <1>3, <1>4 DEF Ahead

(* With fewer callers pending t may be further ahead. *)
LEMMA AheadMonotone ==
  ASSUME NEW t, Pending(t)' \subseteq Pending(t)
  PROVE  Ahead(t) <= Ahead(t)'
<1> DEFINE N == Cardinality(Writers)
           P == Cardinality(Pending(t))
           Q == Cardinality(Pending(t)')
<1>1. IsFiniteSet(Pending(t))
  BY MultiAssumption, FS_Subset DEF Pending
<1>2. Q \in Nat /\ Q <= P
  BY <1>1, FS_Subset, FS_CardinalityType
<1>3. N \in Nat /\ P \in Nat /\ P <= N /\ MaxSize \in Nat
  BY AheadType
<1>4. \A a, b, c, d \in Nat : b <= a /\ c <= b => (a - b) * d <= (a - c) * d
  <2> SUFFICES ASSUME NEW a \in Nat, NEW b \in Nat, NEW c \in Nat, NEW d \in Nat, b <= a, c <= b
               PROVE  (a - b) * d <= (a - c) * d
    OBVIOUS
  <2>1. (a - c) * d = (a - b) * d + (b - c) * d
    OBVIOUS
  <2>2. (b - c) * d \in Nat
    <3>1. b - c \in Nat
      OBVIOUS
    <3> QED BY <3>1
  <2> QED BY <2>1, <2>2
<1> HIDE DEF N, P, Q
<1>5. (N - P) * MaxSize <= (N - Q) * MaxSize
  BY <1>2, <1>3, <1>4
<1> QED BY <1>5 DEF Ahead, N, P, Q

-----------------------------------------------------------------------------
(* The steps. *)

LEMMA InitIInv == Init => IInv
<1> SUFFICES ASSUME Init PROVE IInv
  OBVIOUS
<1>1. Types
  BY DEF Init, Types
<1>2. WriteTargetExists /\ MonitorInv
  BY DEF Init, WriteTargetExists, MonitorInv
<1>3. BalanceInv
  <2> SUFFICES ASSUME NEW s \in map, NEW t \in map PROVE bytes[s] <= bytes[t] + Ahead(s)
    BY DEF BalanceInv
  <2>1. bytes[s] = 0 /\ bytes[t] = 0
    BY DEF Init, map
  <2>2. Ahead(s) \in Nat
    BY AheadType
  <2> QED BY <2>1, <2>2
<1> QED BY <1>1, <1>2, <1>3 DEF IInv

(* What a step keeps that has nothing to do with Writes. *)
LEMMA WritesApart ==
  ASSUME IInv, UNCHANGED <<kind, loop, writeVars, bytes, fell>>
  PROVE  WriteTargetExists' /\ BalanceInv'
<1>1. map' = map /\ \A t : Pending(t)' = Pending(t)
  BY DEF map, Pending, writeVars
<1>2. \A t : Ahead(t)' = Ahead(t)
  BY <1>1 DEF Ahead
<1>3. WriteTargetExists'
  BY <1>1 DEF IInv, WriteTargetExists, writeVars
<1>4. BalanceInv'
  BY <1>1, <1>2 DEF IInv, BalanceInv
<1> QED BY <1>3, <1>4

(* What only the selectors know, and the interface in use. *)
LEMMA SelectorIInv ==
  ASSUME IInv, UNCHANGED <<kind, innerVars, statusVars, writeVars, bytes, fell>>
  PROVE  IInv'
<1>1. WriteTargetExists' /\ BalanceInv'
  BY WritesApart DEF innerVars
<1>2. Types' /\ MonitorInv'
  BY DEF IInv, Types, MonitorInv, map, innerVars, statusVars, writeVars
<1> QED BY <1>1, <1>2 DEF IInv

(* An inner transport changes its status. *)
LEMMA StatusIInv ==
  ASSUME IInv, NEW t \in Ids, NEW s \in {"connected", "reconnecting", "disconnected"},
         StatusChanges(t, s)
  PROVE  IInv'
<1>1. WriteTargetExists' /\ BalanceInv'
  BY WritesApart DEF StatusChanges, selVars
<1>2. Types' /\ MonitorInv'
  BY DEF StatusChanges, IInv, Types, MonitorInv, map, statusVars, writeVars, selVars
<1> QED BY <1>1, <1>2 DEF IInv

(* The monitor, and the callers of Close. *)
LEMMA MonitorIInv ==
  ASSUME IInv, Monitoring \/ CloseCancels \/ Closing
  PROVE  IInv'
<1>1. UNCHANGED <<kind, loop, writeVars, selVars>>
  BY DEF Monitoring, MonitorLooks, MonitorShutsDown, MonitorEnds, CloseCancels, Closing,
     CloseLooks, CloseReturns, StatusFrame
<1>2. WriteTargetExists' /\ BalanceInv'
  BY <1>1, WritesApart DEF selVars
<1>3. map' = map /\ \A t \in Ids : status[t] = "disconnected" => status'[t] = "disconnected"
  BY <1>1 DEF map, Monitoring, MonitorLooks, MonitorShutsDown, MonitorEnds, CloseCancels,
     Closing, CloseLooks, CloseReturns
<1>4. Types'
  BY <1>1 DEF IInv, Types, selVars, writeVars, Monitoring, MonitorLooks, MonitorShutsDown,
     MonitorEnds, CloseCancels, Closing, CloseLooks, CloseReturns
<1>5. (monitor' = "shutting" \/ ctx' = "monitor") =>
        \/ monitor = "shutting" \/ ctx = "monitor"
        \/ \A t \in map : status[t] = "disconnected"
  BY DEF Monitoring, MonitorLooks, MonitorShutsDown, MonitorEnds, CloseCancels, Closing,
     CloseLooks, CloseReturns, Cancel
<1>6. MonitorInv'
  BY <1>3, <1>5 DEF IInv, MonitorInv, map
<1> QED BY <1>2, <1>4, <1>6 DEF IInv

(* A reader takes its transport out of the map while nobody writes. *)
LEMMA ReaderIInv ==
  ASSUME IInv, NEW t \in Ids, StopsReading(t) \/ Deletes(t)
  PROVE  IInv'
<1>1. /\ UNCHANGED <<kind, status, statusVars, writeVars, selVars>>
      /\ map' \subseteq map
  BY DEF StopsReading, Deletes, Reads, map, IInv, Types
<1>2. Types'
  BY <1>1 DEF StopsReading, Deletes, Reads, IInv, Types, writeVars, selVars
<1>3. \A s : Pending(s)' = Pending(s)
  BY <1>1 DEF Pending, writeVars
<1>4. \A s : Ahead(s)' = Ahead(s)
  BY <1>3 DEF Ahead
<1>5. WriteTargetExists'
  <2>1. CASE StopsReading(t)
    <3>1. map' = map
      BY <2>1 DEF StopsReading, Reads, map, IInv, Types
    <3> QED BY <1>1, <3>1 DEF IInv, WriteTargetExists, writeVars
  <2>2. CASE Deletes(t)
    BY <1>1, <2>2 DEF Deletes, LockFree, WriteTargetExists, writeVars
  <2> QED BY <2>1, <2>2
<1>6. MonitorInv'
  BY <1>1 DEF IInv, MonitorInv, statusVars
<1>7. BalanceInv'
  BY <1>1, <1>4 DEF IInv, BalanceInv, selVars
<1> QED BY <1>2, <1>5, <1>6, <1>7 DEF IInv

(* A step of w's Write that changes neither the counters nor who is        *)
(* pending for more than a transport w goes back from.                     *)
LEMMA WriterMoves ==
  ASSUME IInv, NEW w \in Writers, NEW to, NEW t, Goes(w, to, t),
         to \in {"idle", "picking", "unsure"},
         UNCHANGED <<bytes, fell>>, WriteFrame
  PROVE  IInv'
<1>1. Types' /\ map' = map
  BY DEF IInv, Types, Goes, WriteFrame, innerVars, map
<1>2. WriteTargetExists' /\ MonitorInv'
  BY <1>1 DEF IInv, Types, Goes, WriteFrame, WriteTargetExists, MonitorInv, innerVars, statusVars
<1>3. \A s : Pending(s)' \subseteq Pending(s)
  BY DEF IInv, Types, Goes, Pending
<1>4. BalanceInv'
  <2> SUFFICES ASSUME kind = "byteBalanced", ~fell, NEW s \in map, NEW u \in map
               PROVE  bytes[s] <= bytes[u] + Ahead(s)'
    BY <1>1 DEF BalanceInv, WriteFrame
  <2>1. bytes[s] <= bytes[u] + Ahead(s)
    BY DEF IInv, BalanceInv
  <2>2. Ahead(s) <= Ahead(s)'
    BY <1>3, AheadMonotone
  <2>3. Ahead(s) \in Nat
    BY AheadType
  <2>4. Ahead(s)' \in Nat
    BY AheadTypeNext
  <2>5. bytes[s] \in Nat /\ bytes[u] \in Nat
    BY DEF IInv, Types, map
  <2> QED BY <2>1, <2>2, <2>3, <2>4, <2>5
<1> QED BY <1>1, <1>2, <1>4 DEF IInv

(* The byte-balanced selector picks: w is pending for a transport that is  *)
(* behind nobody.                                                          *)
LEMMA PickIInv ==
  ASSUME IInv, NEW w \in Writers, Pick(w)
  PROVE  IInv'
<1>1. PICK t : Prefers(w, t) /\ (kind = "byteBalanced" => t = MinBytes(Order, map, bytes))
  BY DEF Pick
<1>2. pc[w] = "picking" /\ WriteFrame /\ UNCHANGED <<bytes, fell>>
  BY DEF Pick
<1>3. PICK to \in {"unsure", "listing"} : Goes(w, to, t)
  BY <1>1 DEF Prefers
<1>4. Types' /\ map' = map
  BY <1>2, <1>3 DEF IInv, Types, Goes, WriteFrame, innerVars, map
<1>5. WriteTargetExists' /\ MonitorInv'
  BY <1>2, <1>3, <1>4 DEF IInv, Types, Goes, WriteFrame, WriteTargetExists, MonitorInv,
     innerVars, statusVars
<1>6. BalanceInv'
  <2> SUFFICES ASSUME kind = "byteBalanced", ~fell, NEW s \in map, NEW u \in map
               PROVE  bytes[s] <= bytes[u] + Ahead(s)'
    BY <1>2, <1>4 DEF BalanceInv, WriteFrame
  <2>1. bytes[s] \in Nat /\ bytes[u] \in Nat /\ bytes \in [Ids -> Nat] /\ map \subseteq Ids
    BY DEF IInv, Types, map
  <2>2. bytes[s] <= bytes[u] + Ahead(s)
    BY DEF IInv, BalanceInv
  <2>3. CASE s = t
    <3>1. bytes[s] <= bytes[u]
      BY <1>1, <2>1, <2>3, MinBytesIsLeast
    <3>2. Ahead(s)' \in Nat
      BY AheadTypeNext
    <3> QED BY <2>1, <3>1, <3>2
  <2>4. CASE s # t
    <3>1. Pending(s)' = Pending(s)
      BY <1>2, <1>3, <2>4 DEF IInv, Types, Goes, Pending
    <3> QED BY <2>2, <3>1 DEF Ahead
  <2> QED BY <2>3, <2>4
<1> QED BY <1>4, <1>5, <1>6 DEF IInv

(* The fallback chooses, and the choice is counted. *)
LEMMA ChooseIInv ==
  ASSUME IInv, NEW w \in Writers, Choose(w)
  PROVE  IInv'
<1>1. PICK t \in SelectAvailable(id[w], map, status) :
        IF t = Nil THEN Goes(w, "idle", Nil) /\ UNCHANGED <<bytes, fell>>
        ELSE /\ Goes(w, "writing", t)
             /\ IF kind = "byteBalanced"
                  THEN \E n \in 1..MaxSize :
                         bytes' = Counted(t, n) /\ \A s \in Ids : bytes'[s] <= MaxBytes
                  ELSE UNCHANGED bytes
             /\ fell' = (fell \/ (kind = "byteBalanced" /\ t # id[w]))
  BY DEF Choose
<1>2. pc[w] = "listing" /\ WriteFrame
  BY DEF Choose
<1>3. CASE t = Nil
  BY <1>1, <1>2, <1>3, WriterMoves
<1>4. CASE t # Nil
  <2>1. t \in map /\ Goes(w, "writing", t)
    BY <1>1, <1>4, AvailableIsInMap
  <2>2. map' = map /\ kind' = kind
    BY <1>2 DEF WriteFrame, innerVars, map
  <2>3. bytes' \in [Ids -> Nat]
    <3>1. CASE kind = "byteBalanced"
      <4>1. PICK n \in 1..MaxSize : bytes' = Counted(t, n)
        BY <1>1, <1>4, <3>1
      <4>2. n \in Nat
        BY <4>1, MultiAssumption
      <4> QED BY <2>1, <4>1, <4>2, CountedDifferences DEF IInv
    <3>2. CASE kind # "byteBalanced"
      BY <1>1, <1>4, <3>2 DEF IInv, Types
    <3> QED BY <3>1, <3>2
  <2>4. Types'
    BY <1>2, <2>1, <2>3 DEF IInv, Types, Goes, WriteFrame, innerVars
  <2>5. WriteTargetExists' /\ MonitorInv'
    BY <1>2, <2>1, <2>2 DEF IInv, Types, Goes, WriteFrame, WriteTargetExists, MonitorInv,
       innerVars, statusVars
  <2>6. kind = "byteBalanced" /\ ~fell' => ~fell /\ t = id[w]
    <3>1. fell' = (fell \/ (kind = "byteBalanced" /\ t # id[w]))
      BY <1>1, <1>4
    <3> QED BY <3>1, Zenon
  <2>7. BalanceInv'
    <3> SUFFICES ASSUME kind = "byteBalanced", ~fell', NEW s \in map, NEW u \in map
                 PROVE  bytes'[s] <= bytes'[u] + Ahead(s)'
      BY <2>2 DEF BalanceInv
    <3>0. ~fell /\ t = id[w]
      BY <2>6
    <3>1. PICK n \in 1..MaxSize : bytes' = Counted(t, n)
      BY <1>1, <1>4
    <3>2. n \in Nat /\ n <= MaxSize /\ MaxSize \in Nat
      BY <3>1, MultiAssumption
    <3>3. PICK m \in Nat : \A v \in map : bytes'[v] = bytes[v] + (IF v = t THEN n ELSE 0) - m
      <4>1. Types
        BY DEF IInv
      <4>2. \E m \in Nat : \A v \in map :
              Counted(t, n)[v] = bytes[v] + (IF v = t THEN n ELSE 0) - m
        BY <2>1, <3>2, <4>1, CountedDifferences
      <4> QED BY <3>1, <4>2
    <3>4. bytes[s] \in Nat /\ bytes[u] \in Nat
      BY DEF IInv, Types, map
    <3>5. bytes[s] <= bytes[u] + Ahead(s) /\ Ahead(s) \in Nat
      BY <3>0, AheadType DEF IInv, BalanceInv
    <3>6. CASE s = t
      <4>1. w \in Pending(s) /\ Pending(s)' = Pending(s) \ {w}
        BY <1>2, <2>1, <3>0, <3>6 DEF IInv, Types, Goes, Pending
      <4>2. Ahead(s)' = Ahead(s) + MaxSize
        BY <4>1, AheadByOne
      <4>3. /\ bytes'[s] = bytes[s] + n - m
            /\ bytes'[u] = bytes[u] + (IF u = t THEN n ELSE 0) - m
        BY <3>3, <3>6
      <4> QED BY <3>2, <3>3, <3>4, <3>5, <4>2, <4>3
    <3>7. CASE s # t
      <4>1. Pending(s)' = Pending(s)
        BY <1>2, <2>1, <3>0, <3>7 DEF IInv, Types, Goes, Pending
      <4>2. Ahead(s)' = Ahead(s)
        BY <4>1 DEF Ahead
      <4>3. /\ bytes'[s] = bytes[s] + 0 - m
            /\ bytes'[u] = bytes[u] + (IF u = t THEN n ELSE 0) - m
        BY <3>3, <3>7
      <4> QED BY <3>2, <3>3, <3>4, <3>5, <4>2, <4>3
    <3> QED BY <3>6, <3>7
  <2> QED BY <2>4, <2>5, <2>7 DEF IInv
<1> QED BY <1>3, <1>4

(* A Write, from its choice to its end. *)
LEMMA WriteIInv ==
  ASSUME IInv, NEW w \in Writers, WriteBegin(w) \/ Writing(w)
  PROVE  IInv'
<1>1. CASE WriteBegin(w)
  BY <1>1, WriterMoves DEF WriteBegin
<1>2. CASE EcfWaitsOrGivesUp(w)
  <2>1. PICK to \in {"picking", "idle"} : Goes(w, to, Nil)
    BY <1>2 DEF EcfWaitsOrGivesUp
  <2> QED BY <1>2, <2>1, WriterMoves DEF EcfWaitsOrGivesUp
<1>3. CASE WriteReturns(w)
  BY <1>3, WriterMoves DEF WriteReturns
<1> QED BY <1>1, <1>2, <1>3, PickIInv, ChooseIInv DEF Writing

(* The invariant holds in every reachable state. *)
THEOREM MultiInvariant == Spec => []IInv
<1>1. IInv /\ [Next]_vars => IInv'
  <2> SUFFICES ASSUME IInv, [Next]_vars PROVE IInv'
    OBVIOUS
  <2>1. CASE \E t \in Ids : StopsReading(t) \/ Deletes(t)
    BY <2>1, ReaderIInv
  <2>2. CASE \E t \in Ids, s \in {"connected", "reconnecting", "disconnected"} : StatusChanges(t, s)
    BY <2>2, StatusIInv
  <2>3. CASE \E w \in Writers : WriteBegin(w) \/ Writing(w)
    BY <2>3, WriteIInv
  <2>4. CASE Monitoring \/ CloseCancels \/ Closing
    BY <2>4, MonitorIInv
  <2>5. CASE (\E t \in Ids : Measures(t)) \/ UpdateMetrics
    BY <2>5, SelectorIInv DEF Measures, UpdateMetrics
  <2>6. CASE Polls \/ (\E n \in Nics : ChangeNIC(n)) \/ Scheduling
    <3>1. NicFrame
      BY <2>6 DEF Polls, ChangeNIC, Scheduling, NicChanges, SubscriberPasses, SchedulerTakes
    <3> QED BY <3>1, SelectorIInv DEF NicFrame
  <2>7. CASE UNCHANGED vars
    BY <2>7, SelectorIInv DEF vars, selVars
  <2> QED BY <2>1, <2>2, <2>3, <2>4, <2>5, <2>6, <2>7 DEF Next
<1> QED BY InitIInv, <1>1, PTL DEF Spec

-----------------------------------------------------------------------------
(* What the invariant gives: the properties of Multi. *)

(* A Write always finds its transport in the map. *)
THEOREM MultiWriteTargetExists == Spec => []WriteTargetExists
<1>1. IInv => WriteTargetExists
  BY DEF IInv
<1> QED BY MultiInvariant, <1>1, PTL

(* The monitor shuts nothing down that still works or may work again. *)
THEOREM MultiShutdownJustified == Spec => []ShutdownJustified
<1>1. IInv => ShutdownJustified
  BY DEF IInv, MonitorInv, ShutdownJustified
<1> QED BY MultiInvariant, <1>1, PTL

(* Concurrent callers unbalance the counters by one write each at most. *)
THEOREM MultiBalanced == Spec => []Balanced
<1>1. IInv => Balanced
  <2> SUFFICES ASSUME IInv, kind = "byteBalanced", ~fell, NEW s \in map, NEW t \in map
               PROVE  bytes[s] - bytes[t] <= Cardinality(Writers) * MaxSize
    BY DEF Balanced
  <2> DEFINE N == Cardinality(Writers)
             P == Cardinality(Pending(s))
  <2>1. bytes[s] <= bytes[t] + (N - P) * MaxSize
    BY DEF IInv, BalanceInv, Ahead
  <2>2. N \in Nat /\ P \in Nat /\ MaxSize \in Nat
    BY AheadType
  <2>3. bytes[s] \in Nat /\ bytes[t] \in Nat
    BY DEF IInv, Types, map
  <2> HIDE DEF N, P
  <2>4. (N - P) * MaxSize = N * MaxSize - P * MaxSize /\ P * MaxSize \in Nat /\ N * MaxSize \in Nat
    BY <2>2
  <2>5. bytes[s] - bytes[t] <= N * MaxSize
    BY <2>1, <2>3, <2>4
  <2> QED BY <2>5 DEF N
<1> QED BY MultiInvariant, <1>1, PTL

-----------------------------------------------------------------------------
(* The scheduler and the network interfaces. *)

NicTypes ==
  /\ events \in Seq(Nics) /\ sub \in Seq(Nics) /\ pipe \in Seq(Nics)
  /\ Len(sub) <= 1
  /\ changes \in Nat /\ Len(events) <= changes
  /\ missed \in BOOLEAN

(* The manager has told somebody of a change, and dropped not the last.    *)
Announced == kind = "scheduled" /\ Len(events) < changes /\ ~missed

(* The last event the manager has sent is the last one on its way, or the  *)
(* one the scheduler goes by: no later one can be overtaken by it.         *)
NicInv ==
  Announced =>
    /\ sub # <<>> => Head(sub) = nic
    /\ sub = <<>> /\ pipe # <<>> => pipe[Len(pipe)] = nic
    /\ sub = <<>> /\ pipe = <<>> => current = NicOf[nic]

(* What SchedulerFollowsNIC ends in, as an invariant: when the channels    *)
(* between ChangeNIC and the scheduler are empty, and the last event was   *)
(* not dropped, the scheduler has the transport of the current interface,  *)
(* in whatever order events were queued, passed on and dropped before.     *)
SchedulerSettled ==
  kind = "scheduled" /\ changes > 0 /\ ~missed
    /\ events = <<>> /\ sub = <<>> /\ pipe = <<>>
  => current = NicOf[nic]

(* Nobody but the scheduler moves the choice of a scheduled selector. *)
LEMMA OthersLeaveNic ==
  ASSUME [Next]_vars, ~Scheduling, ~\E n \in Nics : ChangeNIC(n)
  PROVE  UNCHANGED <<kind, nicVars>> /\ (kind = "scheduled" => current' = current)
<1>1. CASE \E t \in Ids : StopsReading(t) \/ Deletes(t) \/ Measures(t)
  BY <1>1 DEF StopsReading, Deletes, Measures, Reads, nicVars, selVars
<1>2. CASE \E t \in Ids, s \in {"connected", "reconnecting", "disconnected"} : StatusChanges(t, s)
  BY <1>2 DEF StatusChanges, nicVars, selVars
<1>3. CASE \E w \in Writers : WriteBegin(w) \/ Writing(w)
  BY <1>3 DEF WriteBegin, Writing, Pick, EcfWaitsOrGivesUp, Choose, WriteReturns,
     WriteFrame, nicVars
<1>4. CASE UpdateMetrics \/ Monitoring \/ CloseCancels \/ Closing
  BY <1>4 DEF UpdateMetrics, Monitoring, MonitorLooks, MonitorShutsDown, MonitorEnds,
     CloseCancels, Closing, CloseLooks, CloseReturns, StatusFrame, nicVars, selVars
<1>5. CASE Polls
  BY <1>5 DEF Polls, NicFrame, nicVars
<1>6. CASE UNCHANGED vars
  BY <1>6 DEF vars, nicVars, selVars
<1> QED BY <1>1, <1>2, <1>3, <1>4, <1>5, <1>6 DEF Next

(* Taking the first of a sequence leaves the last one where it is. *)
LEMMA TailKeepsLast ==
  ASSUME NEW S, NEW s \in Seq(S), s # <<>>
  PROVE  /\ Head(s) \in S /\ Tail(s) \in Seq(S)
         /\ Len(s) \in Nat /\ Len(Tail(s)) = Len(s) - 1
         /\ Tail(s) = <<>> => Head(s) = s[Len(s)]
         /\ Tail(s) # <<>> => Tail(s)[Len(Tail(s))] = s[Len(s)]
<1>1. Head(s) \in S /\ Tail(s) \in Seq(S)
  OBVIOUS
<1>2. Len(s) \in Nat /\ Len(s) > 0 /\ Len(Tail(s)) = Len(s) - 1
  OBVIOUS
<1>3. ASSUME Tail(s) = <<>> PROVE Head(s) = s[Len(s)]
  <2>1. Len(Tail(s)) = 0
    BY <1>3, EmptySeq
  <2>2. Len(s) - 1 = 0
    BY <1>2, <2>1
  <2>3. \A n \in Nat : n - 1 = 0 => n = 1
    OBVIOUS
  <2>4. Len(s) = 1
    BY <1>2, <2>2, <2>3
  <2> QED BY <2>4
<1>4. ASSUME Tail(s) # <<>> PROVE Tail(s)[Len(Tail(s))] = s[Len(s)]
  <2>1. Len(Tail(s)) \in 1..(Len(s) - 1)
    BY <1>1, <1>2, <1>4
  <2> QED BY <1>2, <2>1
<1> QED BY <1>1, <1>2, <1>3, <1>4

(* One step of an event on its way. *)
LEMMA NicStep ==
  ASSUME NicTypes, NicInv, [Next]_vars
  PROVE  NicTypes' /\ NicInv'
<1>1. CASE \E n \in Nics : ChangeNIC(n)
  BY <1>1 DEF ChangeNIC, NicFrame, NicTypes, NicInv, Announced
<1>2. CASE NicChanges
  <2>1. /\ events # <<>> /\ events' = Tail(events) /\ nic' = Head(events)
        /\ sub' = IF sub = <<>> THEN <<Head(events)>> ELSE sub
        /\ missed' = (sub # <<>>)
        /\ UNCHANGED <<kind, pipe, changes>>
    BY <1>2 DEF NicChanges, NicFrame
  <2>2. /\ Head(events) \in Nics /\ Tail(events) \in Seq(Nics)
        /\ Len(events) \in Nat /\ Len(Tail(events)) = Len(events) - 1
    BY <2>1, TailKeepsLast DEF NicTypes
  <2>3. NicTypes'
    BY <2>1, <2>2 DEF NicTypes
  <2>4. CASE sub = <<>>
    <3>1. sub' = <<nic'>>
      BY <2>1, <2>4
    <3>2. sub' # <<>> /\ Head(sub') = nic'
      BY <3>1
    <3> QED BY <2>3, <3>2 DEF NicInv, Announced
  <2>5. CASE sub # <<>>
    BY <2>1, <2>3, <2>5 DEF NicInv, Announced
  <2> QED BY <2>4, <2>5
<1>3. CASE SubscriberPasses
  <2>1. pipe' = pipe \o sub /\ sub' = <<>> /\ sub # <<>>
        /\ UNCHANGED <<kind, nic, events, changes, missed>>
    BY <1>3 DEF SubscriberPasses, NicFrame
  <2>2. pipe' \in Seq(Nics) /\ pipe' # <<>> /\ pipe'[Len(pipe')] = Head(sub)
    BY <2>1 DEF NicTypes
  <2> QED BY <2>1, <2>2 DEF NicTypes, NicInv, Announced
<1>4. CASE SchedulerTakes
  <2>1. pipe' = Tail(pipe) /\ current' = NicOf[Head(pipe)] /\ pipe # <<>>
        /\ UNCHANGED <<kind, nic, events, sub, changes, missed>>
    BY <1>4 DEF SchedulerTakes, NicFrame
  <2>2. /\ pipe' \in Seq(Nics)
        /\ pipe' = <<>> => Head(pipe) = pipe[Len(pipe)]
        /\ pipe' # <<>> => pipe'[Len(pipe')] = pipe[Len(pipe)]
    BY <2>1, TailKeepsLast DEF NicTypes
  <2> QED BY <2>1, <2>2 DEF NicTypes, NicInv, Announced
<1>5. CASE ~Scheduling /\ ~\E n \in Nics : ChangeNIC(n)
  BY <1>5, OthersLeaveNic DEF NicTypes, NicInv, Announced, nicVars
<1> QED BY <1>1, <1>2, <1>3, <1>4, <1>5 DEF Scheduling

(* The scheduler does not stay behind the interfaces. *)
THEOREM MultiSchedulerSettled == Spec => []SchedulerSettled
<1>1. Init => NicTypes /\ NicInv
  <2> SUFFICES ASSUME Init PROVE NicTypes /\ NicInv
    OBVIOUS
  <2>1. /\ events = <<>> /\ sub = <<>> /\ pipe = <<>>
        /\ changes = 0 /\ missed = FALSE
    BY DEF Init
  <2>2. NicTypes
    <3>1. events \in Seq(Nics) /\ sub \in Seq(Nics) /\ pipe \in Seq(Nics)
      BY <2>1, EmptySeq
    <3>2. Len(sub) = 0 /\ Len(events) = 0
      BY <2>1, EmptySeq
    <3>3. missed \in BOOLEAN
      BY <2>1
    <3>4. Len(sub) <= 1 /\ changes \in Nat /\ Len(events) <= changes
      BY <2>1, <3>2
    <3> QED BY <3>1, <3>3, <3>4 DEF NicTypes
  <2>3. ~Announced
    BY <2>1 DEF Announced
  <2> QED BY <2>2, <2>3 DEF NicInv
<1>2. NicTypes /\ NicInv => SchedulerSettled
  BY DEF NicTypes, NicInv, Announced, SchedulerSettled
<1> QED BY <1>1, <1>2, NicStep, PTL DEF Spec

=============================================================================
