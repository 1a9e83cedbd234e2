----------------------------- MODULE WireProofs -----------------------------
(***************************************************************************)
(* Proofs about Wire for any number of streams, items and places in the    *)
(* channels.                                                               *)
(***************************************************************************)
EXTENDS Wire, TLAPS

Mine(m, k, s) == m.kind = k /\ m.of = s

(* What a sequence of messages holds for a stream, and in which order.     *)
Items(q, k, s) == {q[i].item : i \in {j \in DOMAIN q : Mine(q[j], k, s)}}

Ordered(q, k, s) ==
  \A i, j \in DOMAIN q :
    i < j /\ Mine(q[i], k, s) /\ Mine(q[j], k, s) => q[i].item < q[j].item

Values(c) == {c[i] : i \in DOMAIN c}

Increasing(c) == \A i, j \in DOMAIN c : i < j => c[i] < c[j]

Below(A, B) == \A a \in A, b \in B : a < b

-----------------------------------------------------------------------------
(* Sequences of messages and of numbers.                                   *)

(* A message that is appended adds its item to those of its stream. *)
LEMMA AppendItems ==
  ASSUME NEW M, NEW q \in Seq(M), NEW m \in M, NEW k, NEW s
  PROVE  Items(Append(q, m), k, s) =
           Items(q, k, s) \cup (IF Mine(m, k, s) THEN {m.item} ELSE {})
<1> DEFINE p == Append(q, m)
<1>1. /\ p \in Seq(M) /\ DOMAIN q = 1..Len(q) /\ DOMAIN p = 1..(Len(q) + 1)
      /\ Len(q) \in Nat
      /\ p[Len(q) + 1] = m /\ \A i \in DOMAIN q : p[i] = q[i]
  OBVIOUS
<1> HIDE DEF p
<1>2. DOMAIN p = DOMAIN q \cup {Len(q) + 1}
  BY <1>1
<1> QED BY <1>1, <1>2 DEF Items, p

(* The first message has one item of its stream; the others have the rest. *)
LEMMA TailItems ==
  ASSUME NEW M, NEW q \in Seq(M), q # <<>>, NEW k, NEW s
  PROVE  Items(q, k, s) =
           Items(Tail(q), k, s) \cup (IF Mine(Head(q), k, s) THEN {Head(q).item} ELSE {})
<1> DEFINE p == Tail(q)
<1>1. /\ DOMAIN q = 1..Len(q) /\ DOMAIN p = 1..(Len(q) - 1)
      /\ Len(q) \in Nat /\ Len(q) > 0
      /\ Head(q) = q[1] /\ \A i \in DOMAIN p : p[i] = q[i + 1]
  OBVIOUS
<1> HIDE DEF p
<1>2. ASSUME NEW x \in Items(q, k, s)
      PROVE  x \in Items(p, k, s) \cup (IF Mine(Head(q), k, s) THEN {Head(q).item} ELSE {})
  <2>1. PICK i \in DOMAIN q : Mine(q[i], k, s) /\ x = q[i].item
    BY <1>2 DEF Items
  <2>2. CASE i = 1
    BY <1>1, <2>1, <2>2
  <2>3. CASE i # 1
    <3>1. i - 1 \in DOMAIN p /\ p[i - 1] = q[i]
      BY <1>1, <2>3
    <3> QED BY <2>1, <3>1 DEF Items
  <2> QED BY <2>2, <2>3
<1>3. ASSUME NEW x \in Items(p, k, s) PROVE x \in Items(q, k, s)
  <2>1. PICK i \in DOMAIN p : Mine(p[i], k, s) /\ x = p[i].item
    BY <1>3 DEF Items
  <2>2. i + 1 \in DOMAIN q /\ q[i + 1] = p[i]
    BY <1>1
  <2> QED BY <2>1, <2>2 DEF Items
<1>4. Mine(Head(q), k, s) => Head(q).item \in Items(q, k, s)
  BY <1>1 DEF Items
<1> QED BY <1>2, <1>3, <1>4 DEF p

(* Order is kept by a message with a later item than those before it. *)
LEMMA AppendOrdered ==
  ASSUME NEW M, NEW q \in Seq(M), NEW m \in M, NEW k, NEW s, Ordered(q, k, s),
         Mine(m, k, s) => Below(Items(q, k, s), {m.item})
  PROVE  Ordered(Append(q, m), k, s)
<1> DEFINE p == Append(q, m)
<1>1. /\ DOMAIN q = 1..Len(q) /\ DOMAIN p = 1..(Len(q) + 1) /\ Len(q) \in Nat
      /\ p[Len(q) + 1] = m /\ \A i \in DOMAIN q : p[i] = q[i]
  OBVIOUS
<1> HIDE DEF p
<1>2. SUFFICES ASSUME NEW i \in DOMAIN p, NEW j \in DOMAIN p, i < j,
                      Mine(p[i], k, s), Mine(p[j], k, s)
               PROVE  p[i].item < p[j].item
  BY DEF Ordered, p
<1>3. i \in DOMAIN q
  BY <1>1, <1>2
<1>4. CASE j \in DOMAIN q
  BY <1>1, <1>2, <1>3, <1>4 DEF Ordered
<1>5. CASE j = Len(q) + 1
  <2>1. q[i].item \in Items(q, k, s)
    BY <1>1, <1>2, <1>3 DEF Items
  <2> QED BY <1>1, <1>2, <1>3, <1>5, <2>1 DEF Below
<1> QED BY <1>1, <1>4, <1>5

(* Order is kept without the first message, whose item is the least. *)
LEMMA TailOrdered ==
  ASSUME NEW M, NEW q \in Seq(M), q # <<>>, NEW k, NEW s, Ordered(q, k, s)
  PROVE  /\ Ordered(Tail(q), k, s)
         /\ Mine(Head(q), k, s) => Below({Head(q).item}, Items(Tail(q), k, s))
<1> DEFINE p == Tail(q)
<1>1. /\ DOMAIN q = 1..Len(q) /\ DOMAIN p = 1..(Len(q) - 1)
      /\ Len(q) \in Nat /\ Len(q) > 0
      /\ Head(q) = q[1] /\ \A i \in DOMAIN p : p[i] = q[i + 1]
  OBVIOUS
<1> HIDE DEF p
<1>2. \A i \in DOMAIN p : i + 1 \in DOMAIN q /\ 1 < i + 1 /\ 1 \in DOMAIN q
  BY <1>1
<1>3. Ordered(p, k, s)
  <2> SUFFICES ASSUME NEW i \in DOMAIN p, NEW j \in DOMAIN p, i < j,
                      Mine(p[i], k, s), Mine(p[j], k, s)
               PROVE  p[i].item < p[j].item
    BY DEF Ordered
  <2>1. i + 1 < j + 1
    BY <1>1
  <2> QED BY <1>1, <1>2, <2>1 DEF Ordered
<1>4. ASSUME Mine(Head(q), k, s), NEW x \in Items(p, k, s) PROVE Head(q).item < x
  <2>1. PICK i \in DOMAIN p : Mine(p[i], k, s) /\ x = p[i].item
    BY <1>4 DEF Items
  <2> QED BY <1>1, <1>2, <1>4, <2>1 DEF Ordered
<1> QED BY <1>3, <1>4 DEF Below, p

(* The same of a channel, which holds items only. *)
LEMMA AppendIncreasing ==
  ASSUME NEW c \in Seq(Nat), NEW n \in Nat, Increasing(c), Below(Values(c), {n})
  PROVE  /\ Values(Append(c, n)) = Values(c) \cup {n}
         /\ Increasing(Append(c, n))
<1> DEFINE p == Append(c, n)
<1>1. /\ DOMAIN c = 1..Len(c) /\ DOMAIN p = 1..(Len(c) + 1) /\ Len(c) \in Nat
      /\ p[Len(c) + 1] = n /\ \A i \in DOMAIN c : p[i] = c[i]
  OBVIOUS
<1> HIDE DEF p
<1>2. DOMAIN p = DOMAIN c \cup {Len(c) + 1}
  BY <1>1
<1>3. Values(p) = Values(c) \cup {n}
  BY <1>1, <1>2 DEF Values
<1>4. Increasing(p)
  BY <1>1, <1>2 DEF Values, Increasing, Below
<1> QED BY <1>3, <1>4 DEF p

(* And of its tail. *)
LEMMA TailIncreasing ==
  ASSUME NEW c \in Seq(Nat), c # <<>>, Increasing(c)
  PROVE  /\ Values(c) = Values(Tail(c)) \cup {Head(c)}
         /\ Increasing(Tail(c)) /\ Below({Head(c)}, Values(Tail(c)))
<1> DEFINE p == Tail(c)
<1>1. /\ DOMAIN c = 1..Len(c) /\ DOMAIN p = 1..(Len(c) - 1)
      /\ Len(c) \in Nat /\ Len(c) > 0
      /\ Head(c) = c[1] /\ \A i \in DOMAIN p : p[i] = c[i + 1]
  OBVIOUS
<1> HIDE DEF p
<1>2. \A i \in DOMAIN p : i + 1 \in DOMAIN c /\ 1 < i + 1 /\ 1 \in DOMAIN c
  BY <1>1
<1>3. \A i \in DOMAIN c : i = 1 \/ (i - 1 \in DOMAIN p /\ p[i - 1] = c[i])
  BY <1>1
<1>4. Values(c) = Values(p) \cup {Head(c)}
  <2>1. \A x \in Values(c) : x \in Values(p) \cup {Head(c)}
    BY <1>1, <1>3 DEF Values
  <2>2. \A x \in Values(p) : x \in Values(c)
    BY <1>1, <1>2 DEF Values
  <2>3. Head(c) \in Values(c)
    BY <1>1 DEF Values
  <2> QED BY <2>1, <2>2, <2>3
<1>5. Increasing(p)
  <2> SUFFICES ASSUME NEW i \in DOMAIN p, NEW j \in DOMAIN p, i < j PROVE p[i] < p[j]
    BY DEF Increasing
  <2>1. i + 1 < j + 1
    BY <1>1
  <2> QED BY <1>1, <1>2, <2>1 DEF Increasing
<1>6. Below({Head(c)}, Values(p))
  BY <1>1, <1>2 DEF Increasing, Below, Values
<1> QED BY <1>4, <1>5, <1>6 DEF p

-----------------------------------------------------------------------------
(* The invariant.                                                           *)

(* An ack or a chunk belongs to a stream, and to one that takes the like.  *)
WellFormed ==
  {m \in Messages : m.kind \in {"ack", "chunk"} => m.of \in Streams /\ m.kind = Item(m.of)}

Of(k) == {m \in WellFormed : m.kind = k}

PCs == {"idle", "subscribed", "opening", "opened", "open", "closing", "closed", "failed",
        "waiting", "lost", "ended"}

Types ==
  /\ ups \subseteq Streams
  /\ link \in {"up", "gone"}
  /\ inbox \in Seq(WellFormed)
  /\ disp \in WellFormed \cup {Nil}
  /\ queue = [k \in Kinds |-> queue[k]]
  /\ \A k \in Kinds : queue[k] \in Seq(Of(k))
  /\ pc \in [Askers -> PCs]
  /\ chan \in [Streams -> Seq(Nat)]
  /\ sentTo \in [Streams -> Nat]
  /\ written \in [Streams -> Nat]
  /\ last \in [Streams -> Nat]
  /\ dropped \in [Streams -> SUBSET Nat]

(* A session that is closed has lost its transport, and nobody asks for    *)
(* anything before the handshake is over.                                  *)
SessionInv ==
  /\ ctx = "cancelled" => link = "gone"
  /\ \A a \in Askers : pc[a] # "idle" => Running

(* The broker sends nothing to a stream that has not asked to be opened,   *)
(* and acknowledges only what an upstream has sent.                        *)
BrokerInv ==
  /\ \A s \in Streams :
       pc[s] \in {"idle", "subscribed"} =>
         sentTo[s] = 0 /\ s \notin serves /\ <<s, "open">> \notin asked
  /\ \A u \in ups :
       /\ sentTo[u] <= written[u]
       /\ written[u] > 0 => pc[u] \notin {"idle", "subscribed", "opening", "opened"}

(* The channel of a stream is registered when something may come for it.   *)
TableInv ==
  \A s \in Streams :
    /\ pc[s] = "open" => s \in table
    /\ s \notin ups /\ pc[s] \in {"subscribed", "opening", "opened"} => s \in table

(* What is on the way to the reader of a stream: on the transport, with    *)
(* the dispatcher, in the queue and in the channel.                        *)
OnLink(s)  == Items(inbox, Item(s), s)
InHand(s)  == IF disp # Nil /\ Mine(disp, Item(s), s) THEN {disp.item} ELSE {}
InQueue(s) == Items(queue[Item(s)], Item(s), s)
InChan(s)  == Values(chan[s])
Coming(s)  == OnLink(s) \cup InHand(s) \cup InQueue(s) \cup InChan(s)

(* It comes in the order it was sent in.                                   *)
Chain(s) ==
  /\ Below(InChan(s), InQueue(s)) /\ Below(InChan(s), InHand(s)) /\ Below(InChan(s), OnLink(s))
  /\ Below(InQueue(s), InHand(s)) /\ Below(InQueue(s), OnLink(s))
  /\ Below(InHand(s), OnLink(s))

Between(s) ==
  /\ \A n \in Coming(s) : last[s] < n
  /\ link = "up" => last[s] <= sentTo[s] /\ \A n \in Coming(s) : n <= sentTo[s]

Flow(s) ==
  /\ Ordered(inbox, Item(s), s)
  /\ Ordered(queue[Item(s)], Item(s), s)
  /\ Increasing(chan[s])
  /\ Chain(s)
  /\ Between(s)

(* And nothing is missing.                                                 *)
Active(s) == link = "up" /\ pc[s] \in {"opening", "opened", "open"}

Seen(s, n) == n \in Coming(s) \/ n <= last[s] \/ n \in dropped[s]

Complete(s) == Active(s) => \A n \in 1..sentTo[s] : Seen(s, n)

FlowInv == \A s \in Streams : Flow(s) /\ Complete(s)

StateInv == Types /\ SessionInv /\ BrokerInv /\ TableInv

IInv == StateInv /\ FlowInv

-----------------------------------------------------------------------------
(* The flow of the items.                                                   *)

(* What is on the way are numbers, in the places of the right type. *)
LEMMA FlowTypes ==
  ASSUME Types, NEW s \in Streams
  PROVE  /\ Item(s) \in Kinds /\ queue[Item(s)] \in Seq(Of(Item(s)))
         /\ OnLink(s) \subseteq Nat /\ InHand(s) \subseteq Nat
         /\ InQueue(s) \subseteq Nat /\ InChan(s) \subseteq Nat
         /\ last[s] \in Nat /\ sentTo[s] \in Nat /\ dropped[s] \subseteq Nat
         /\ chan[s] \in Seq(Nat)
<1>1. Item(s) \in Kinds
  BY DEF Item, Kinds
<1>2. queue[Item(s)] \in Seq(Of(Item(s))) /\ chan[s] \in Seq(Nat)
  BY <1>1 DEF Types
<1>3. \A m \in WellFormed : m.item \in Nat
  BY DEF WellFormed, Messages
<1>4. OnLink(s) \subseteq Nat
  BY <1>3 DEF Types, OnLink, Items
<1>5. InQueue(s) \subseteq Nat
  BY <1>2, <1>3 DEF InQueue, Items, Of
<1>6. InHand(s) \subseteq Nat
  BY <1>3 DEF Types, InHand
<1>7. InChan(s) \subseteq Nat
  BY <1>2 DEF InChan, Values
<1> QED BY <1>1, <1>2, <1>4, <1>5, <1>6, <1>7 DEF Types

(* A step that touches nothing of a stream. *)
LEMMA Untouched ==
  ASSUME NEW s \in Streams, Flow(s), Complete(s),
         UNCHANGED <<ups, link, inbox, disp, chan[s], queue[Item(s)]>>,
         UNCHANGED <<sentTo[s], last[s], dropped[s]>>,
         Active(s)' => Active(s) \/ sentTo[s] = 0
  PROVE  Flow(s)' /\ Complete(s)'
<1>1. Item(s)' = Item(s)
  BY DEF Item
<1>2. /\ OnLink(s)' = OnLink(s) /\ InHand(s)' = InHand(s)
      /\ InQueue(s)' = InQueue(s) /\ InChan(s)' = InChan(s)
  BY <1>1 DEF OnLink, InHand, InQueue, InChan
<1>3. Coming(s)' = Coming(s)
  BY <1>2 DEF Coming
<1>4. Flow(s)'
  BY <1>1, <1>2, <1>3 DEF Flow, Chain, Between
<1>5. Complete(s)'
  BY <1>3 DEF Complete, Seen
<1> QED BY <1>4, <1>5

(* A step that moves no message. *)
LEMMA Quiet ==
  ASSUME IInv, UNCHANGED <<ups, link, inbox, disp, chan, sentTo, last, dropped>>,
         \A s \in Streams : queue'[Item(s)] = queue[Item(s)],
         \A s \in Streams : Active(s)' => Active(s) \/ pc[s] \in {"idle", "subscribed"}
  PROVE  FlowInv'
<1> SUFFICES ASSUME NEW s \in Streams PROVE Flow(s)' /\ Complete(s)'
  BY DEF FlowInv
<1>1. Item(s)' = Item(s)
  BY DEF Item
<1>2. Active(s)' => Active(s) \/ sentTo[s] = 0
  BY DEF IInv, StateInv, BrokerInv
<1>3. /\ UNCHANGED <<ups, link, inbox, disp, chan[s], queue[Item(s)]>>
      /\ UNCHANGED <<sentTo[s], last[s], dropped[s]>>
  BY <1>1
<1>4. Flow(s) /\ Complete(s)
  BY DEF IInv, FlowInv
<1> QED BY <1>2, <1>3, <1>4, Untouched

(* The transport goes. *)
LEMMA CutFlow ==
  ASSUME IInv, Cut, UNCHANGED <<ups, inbox, disp, chan>>,
         \A s \in Streams : queue'[Item(s)] = queue[Item(s)]
  PROVE  FlowInv'
<1> SUFFICES ASSUME NEW s \in Streams PROVE Flow(s)' /\ Complete(s)'
  BY DEF FlowInv
<1>1. Item(s)' = Item(s)
  BY DEF Item
<1>2. /\ OnLink(s)' = OnLink(s) /\ InHand(s)' = InHand(s)
      /\ InQueue(s)' = InQueue(s) /\ InChan(s)' = InChan(s)
  BY <1>1 DEF OnLink, InHand, InQueue, InChan
<1>3. Coming(s)' = Coming(s) /\ Coming(s) \subseteq Nat
  BY <1>2, FlowTypes DEF Coming, IInv, StateInv
<1>4. Flow(s)
  BY DEF IInv, FlowInv
<1>5. last'[s] = 0 /\ link' = "gone"
  BY DEF Cut
<1>6. \A n \in Coming(s) : 0 < n
  BY <1>3, <1>4, FlowTypes DEF Flow, Between, IInv, StateInv
<1>7. Flow(s)'
  BY <1>1, <1>2, <1>3, <1>4, <1>5, <1>6 DEF Flow, Chain, Between
<1>8. Complete(s)'
  BY <1>5 DEF Complete, Active
<1> QED BY <1>7, <1>8

(* A stream is forgotten: it is closed, or has given up. *)
LEMMA ForgetFlow ==
  ASSUME IInv, NEW s \in Streams, NEW to \in {"closed", "failed"},
         pc' = [pc EXCEPT ![s] = to], last' = [last EXCEPT ![s] = 0],
         dropped' = [dropped EXCEPT ![s] = {}],
         UNCHANGED <<ups, link, inbox, disp, queue, sentTo>>,
         chan' = chan \/ chan' = [chan EXCEPT ![s] = <<>>]
  PROVE  FlowInv'
<1> SUFFICES ASSUME NEW r \in Streams PROVE Flow(r)' /\ Complete(r)'
  BY DEF FlowInv
<1>0. Types /\ Flow(r) /\ Complete(r)
  BY DEF IInv, StateInv, FlowInv
<1>1. CASE r # s
  <2>1. pc'[r] = pc[r] /\ last'[r] = last[r] /\ dropped'[r] = dropped[r] /\ chan'[r] = chan[r]
    BY <1>0, <1>1 DEF Types
  <2>2. Item(r)' = Item(r)
    BY DEF Item
  <2>3. Active(r)' = Active(r)
    BY <2>1 DEF Active
  <2> QED BY <1>0, <2>1, <2>2, <2>3, Untouched
<1>2. CASE r = s
  <2>1. Item(s)' = Item(s)
    BY DEF Item
  <2>2. /\ OnLink(s)' = OnLink(s) /\ InHand(s)' = InHand(s)
        /\ InQueue(s)' = InQueue(s)
    BY <2>1 DEF OnLink, InHand, InQueue
  <2>3. InChan(s)' \subseteq InChan(s) /\ Increasing(chan'[s])
    <3>1. CASE chan'[s] = chan[s]
      BY <1>0, <1>2, <3>1 DEF InChan, Flow
    <3>2. CASE chan'[s] = <<>>
      BY <3>2 DEF InChan, Values, Increasing
    <3> QED BY <1>0, <3>1, <3>2 DEF Types
  <2>4. Coming(s)' \subseteq Coming(s) /\ Coming(s) \subseteq Nat
    BY <1>0, <2>2, <2>3, FlowTypes DEF Coming
  <2>5. last'[s] = 0 /\ pc'[s] = to
    BY <1>0 DEF Types, Askers
  <2>6. Chain(s)'
    <3>1. Chain(s)
      BY <1>0, <1>2 DEF Flow
    <3> QED BY <2>2, <2>3, <3>1 DEF Chain, Below
  <2>7. Between(s)'
    <3>1. \A n \in Coming(s) : 0 < n
      BY <1>0, <1>2, <2>4, FlowTypes DEF Flow, Between
    <3>2. sentTo[s] \in Nat
      BY <1>0 DEF Types
    <3> QED BY <1>0, <1>2, <2>4, <2>5, <3>1, <3>2 DEF Flow, Between
  <2>8. Flow(s)'
    BY <1>0, <1>2, <2>1, <2>3, <2>6, <2>7 DEF Flow
  <2>9. Complete(s)'
    BY <2>5 DEF Complete, Active
  <2> QED BY <1>2, <2>8, <2>9
<1> QED BY <1>1, <1>2

(* A message arrives that is of no stream. *)
LEMMA ArriveOtherFlow ==
  ASSUME IInv, NEW m \in Messages, m.kind \notin {"ack", "chunk"}, Arrives(m),
         UNCHANGED <<ups, link, disp, queue, chan, sentTo, last, dropped, pc>>
  PROVE  FlowInv'
<1> SUFFICES ASSUME NEW s \in Streams PROVE Flow(s)' /\ Complete(s)'
  BY DEF FlowInv
<1>0. Types /\ Flow(s) /\ Complete(s) /\ m \in WellFormed
  BY DEF IInv, StateInv, FlowInv, WellFormed
<1>1. Item(s)' = Item(s) /\ ~Mine(m, Item(s), s)
  BY DEF Item, Mine
<1>2. OnLink(s)' = OnLink(s)
  <2>1. inbox \in Seq(WellFormed) /\ inbox' = Append(inbox, m)
    BY <1>0 DEF Arrives, Types
  <2> DEFINE k == Item(s)
  <2> HIDE DEF k
  <2>2. Items(Append(inbox, m), k, s) =
          Items(inbox, k, s) \cup (IF Mine(m, k, s) THEN {m.item} ELSE {})
    BY <1>0, <2>1, AppendItems
  <2>3. ~Mine(m, k, s)
    BY <1>1 DEF k
  <2> QED BY <1>1, <2>1, <2>2, <2>3 DEF OnLink, k
<1>3. Ordered(inbox', Item(s), s)
  BY <1>0, <1>1, AppendOrdered DEF Arrives, Types, Flow
<1>4. InHand(s)' = InHand(s) /\ InQueue(s)' = InQueue(s) /\ InChan(s)' = InChan(s)
  BY <1>1 DEF InHand, InQueue, InChan
<1>5. Coming(s)' = Coming(s)
  BY <1>2, <1>4 DEF Coming
<1>6. Flow(s)'
  BY <1>0, <1>1, <1>2, <1>3, <1>4, <1>5 DEF Flow, Chain, Between
<1>7. Complete(s)'
  BY <1>0, <1>5 DEF Complete, Seen, Active
<1> QED BY <1>6, <1>7

(* The broker sends the next item of a stream. *)
LEMMA SendFlow ==
  ASSUME IInv, NEW s \in Streams, BrokerSends(s)
  PROVE  FlowInv'
<1> DEFINE m == Msg(Item(s), s, Nil, sentTo[s] + 1)
<1> SUFFICES ASSUME NEW r \in Streams PROVE Flow(r)' /\ Complete(r)'
  BY DEF FlowInv
<1>0. Types /\ Flow(r) /\ Complete(r)
  BY DEF IInv, StateInv, FlowInv
<1>1. /\ m \in WellFormed /\ m.kind = Item(s) /\ m.of = s /\ m.item = sentTo[s] + 1
  BY <1>0 DEF Msg, WellFormed, Messages, Item, Kinds, Types, Askers
<1>2. /\ inbox' = Append(inbox, m) /\ sentTo' = [sentTo EXCEPT ![s] = @ + 1] /\ link = "up"
      /\ UNCHANGED <<ups, link, disp, queue, chan, last, dropped, pc>>
  BY DEF BrokerSends, Arrives, Room, askVars, streamVars, history
<1> HIDE DEF m
<1>3. Item(r)' = Item(r)
  BY <1>2 DEF Item
<1>4. OnLink(r)' = OnLink(r) \cup (IF Mine(m, Item(r), r) THEN {m.item} ELSE {})
  BY <1>0, <1>1, <1>2, <1>3, AppendItems DEF OnLink, Types
<1>5. InHand(r)' = InHand(r) /\ InQueue(r)' = InQueue(r) /\ InChan(r)' = InChan(r)
  BY <1>2, <1>3 DEF InHand, InQueue, InChan
<1>6. CASE r # s
  <2>1. ~Mine(m, Item(r), r)
    BY <1>1, <1>6 DEF Mine
  <2>2. OnLink(r)' = OnLink(r) /\ sentTo'[r] = sentTo[r]
    BY <1>0, <1>2, <1>4, <1>6, <2>1 DEF Types
  <2>3. Ordered(inbox', Item(r), r)
    BY <1>0, <1>1, <1>2, <2>1, AppendOrdered DEF Types, Flow
  <2>4. Coming(r)' = Coming(r)
    BY <1>5, <2>2 DEF Coming
  <2>5. Flow(r)'
    BY <1>0, <1>2, <1>3, <1>5, <2>2, <2>3, <2>4 DEF Flow, Chain, Between
  <2>6. Complete(r)'
    BY <1>0, <1>2, <2>2, <2>4 DEF Complete, Seen, Active
  <2> QED BY <2>5, <2>6
<1>7. CASE r = s
  <2>1. Mine(m, Item(s), s) /\ sentTo'[s] = sentTo[s] + 1 /\ sentTo[s] \in Nat
    BY <1>0, <1>1, <1>2 DEF Mine, Types
  <2>2. OnLink(s)' = OnLink(s) \cup {sentTo[s] + 1}
    BY <1>1, <1>4, <1>7, <2>1
  <2>3. \A n \in Coming(s) : n \in Nat /\ last[s] < n /\ n <= sentTo[s]
    BY <1>0, <1>2, <1>7, FlowTypes DEF Flow, Between, Coming
  <2>4. last[s] \in Nat /\ last[s] <= sentTo[s]
    BY <1>0, <1>2, <1>7 DEF Flow, Between, Types
  <2>5. \A n \in Coming(s) : n < sentTo[s] + 1
    BY <2>1, <2>3
  <2>6. Ordered(inbox', Item(s), s)
    <3>1. Below(OnLink(s), {m.item})
      BY <1>1, <2>5 DEF Coming, Below
    <3> QED BY <1>0, <1>1, <1>2, <1>7, <3>1, AppendOrdered DEF Types, Flow, OnLink
  <2>7. Coming(s)' = Coming(s) \cup {sentTo[s] + 1}
    BY <1>5, <1>7, <2>2 DEF Coming
  <2>8. Chain(s)'
    <3>1. /\ Below(InChan(s), {sentTo[s] + 1}) /\ Below(InQueue(s), {sentTo[s] + 1})
          /\ Below(InHand(s), {sentTo[s] + 1})
      BY <2>5 DEF Coming, Below
    <3>2. Chain(s)
      BY <1>0, <1>7 DEF Flow
    <3> QED BY <1>5, <1>7, <2>2, <3>1, <3>2 DEF Chain, Below
  <2>9. Between(s)'
    BY <1>2, <2>1, <2>3, <2>4, <2>7 DEF Between
  <2>10. Flow(s)'
    BY <1>0, <1>2, <1>3, <1>7, <2>6, <2>8, <2>9 DEF Flow
  <2>11. Complete(s)'
    <3> SUFFICES ASSUME Active(s)', NEW n \in 1..(sentTo[s] + 1) PROVE Seen(s, n)'
      BY <2>1 DEF Complete
    <3>1. CASE n = sentTo[s] + 1
      BY <2>7, <3>1 DEF Seen
    <3>2. CASE n \in 1..sentTo[s]
      <4>1. Seen(s, n)
        BY <1>0, <1>2, <1>7, <3>2 DEF Complete, Active
      <4> QED BY <1>2, <2>7, <4>1 DEF Seen
    <3> QED BY <2>1, <3>1, <3>2
  <2> QED BY <1>7, <2>10, <2>11
<1> QED BY <1>6, <1>7

(* The reader takes a message off the transport. *)
LEMMA ReadFlow ==
  ASSUME IInv, ReadMessage
  PROVE  FlowInv'
<1> SUFFICES ASSUME NEW s \in Streams PROVE Flow(s)' /\ Complete(s)'
  BY DEF FlowInv
<1> DEFINE m == Head(inbox)
<1>0. Types /\ Flow(s) /\ Complete(s)
  BY DEF IInv, StateInv, FlowInv
<1>1. /\ inbox # <<>> /\ inbox' = Tail(inbox) /\ disp = Nil
      /\ disp' = m \/ (ctx = "cancelled" /\ disp' = disp)
      /\ UNCHANGED <<ups, link, queue, chan, sentTo, last, dropped, pc>>
  BY DEF ReadMessage, askVars, streamVars, brokerVars, history
<1>2. m \in WellFormed /\ m # Nil
  BY <1>0, <1>1, WireAssumption DEF Types, WellFormed
<1>3. Item(s)' = Item(s)
  BY <1>1 DEF Item
<1>4. OnLink(s) = OnLink(s)' \cup (IF Mine(m, Item(s), s) THEN {m.item} ELSE {})
  BY <1>0, <1>1, <1>3, TailItems DEF OnLink, Types
<1>5. /\ Ordered(inbox', Item(s), s)
      /\ Mine(m, Item(s), s) => Below({m.item}, OnLink(s)')
  BY <1>0, <1>1, <1>3, TailOrdered DEF Types, Flow, OnLink
<1>6. InHand(s) = {} /\ InQueue(s)' = InQueue(s) /\ InChan(s)' = InChan(s)
  BY <1>1, <1>3 DEF InHand, InQueue, InChan
<1> HIDE DEF m
<1>7. CASE disp' = m
  <2>1. InHand(s)' = IF Mine(m, Item(s), s) THEN {m.item} ELSE {}
    BY <1>2, <1>3, <1>7 DEF InHand
  <2>2. Coming(s)' = Coming(s)
    BY <1>4, <1>6, <2>1 DEF Coming
  <2>3. Chain(s)'
    BY <1>0, <1>4, <1>5, <1>6, <2>1 DEF Flow, Chain, Below
  <2>4. Flow(s)'
    BY <1>0, <1>1, <1>3, <1>5, <2>2, <2>3 DEF Flow, Between
  <2>5. Complete(s)'
    BY <1>0, <1>1, <2>2 DEF Complete, Seen, Active
  <2> QED BY <2>4, <2>5
<1>8. CASE ctx = "cancelled" /\ disp' = disp
  <2>1. link = "gone"
    BY <1>8 DEF IInv, StateInv, SessionInv
  <2>2. InHand(s)' = {} /\ OnLink(s)' \subseteq OnLink(s)
    BY <1>1, <1>4, <1>8 DEF InHand
  <2>3. Coming(s)' \subseteq Coming(s)
    BY <1>6, <2>2 DEF Coming
  <2>4. Chain(s)'
    BY <1>0, <1>6, <2>2 DEF Flow, Chain, Below
  <2>5. Flow(s)'
    BY <1>0, <1>1, <1>3, <1>5, <2>1, <2>3, <2>4 DEF Flow, Between
  <2>6. Complete(s)'
    BY <1>1, <2>1 DEF Complete, Active
  <2> QED BY <2>5, <2>6
<1> QED BY <1>1, <1>7, <1>8

(* What is on the transport is lost, or is the answer Connect reads, when  *)
(* no stream is open.                                                      *)
LEMMA LoseFlow ==
  ASSUME IInv, \A s \in Streams : ~Active(s),
         \/ inbox' = <<>>
         \/ inbox # <<>> /\ inbox' = Tail(inbox),
         UNCHANGED <<ups, link, disp, queue, chan, sentTo, last, dropped, pc>>
  PROVE  FlowInv'
<1> SUFFICES ASSUME NEW s \in Streams PROVE Flow(s)' /\ Complete(s)'
  BY DEF FlowInv
<1>0. Types /\ Flow(s) /\ Complete(s)
  BY DEF IInv, StateInv, FlowInv
<1>1. Item(s)' = Item(s)
  BY DEF Item
<1>2. OnLink(s)' \subseteq OnLink(s) /\ Ordered(inbox', Item(s), s)
  <2>1. CASE inbox' = <<>>
    <3>1. OnLink(s)' = {}
      BY <2>1 DEF OnLink, Items
    <3>2. Ordered(inbox', Item(s), s)
      BY <2>1 DEF Ordered
    <3> QED BY <3>1, <3>2
  <2>2. CASE inbox # <<>> /\ inbox' = Tail(inbox)
    <3>1. OnLink(s)' \subseteq OnLink(s)
      BY <1>0, <1>1, <2>2, TailItems DEF OnLink, Types
    <3>2. Ordered(inbox', Item(s), s)
      BY <1>0, <2>2, TailOrdered DEF Types, Flow
    <3> QED BY <3>1, <3>2
  <2> QED BY <2>1, <2>2
<1>3. InHand(s)' = InHand(s) /\ InQueue(s)' = InQueue(s) /\ InChan(s)' = InChan(s)
  BY <1>1 DEF InHand, InQueue, InChan
<1>4. Coming(s)' \subseteq Coming(s)
  BY <1>2, <1>3 DEF Coming
<1>5. Chain(s)'
  BY <1>0, <1>2, <1>3 DEF Flow, Chain, Below
<1>6. Flow(s)'
  BY <1>0, <1>1, <1>2, <1>4, <1>5 DEF Flow, Between
<1>7. Complete(s)'
  BY DEF Complete, Active
<1> QED BY <1>6, <1>7

(* The dispatcher puts its message into the queue of its kind. *)
LEMMA DispatchFlow ==
  ASSUME IInv, Dispatch
  PROVE  FlowInv'
<1> SUFFICES ASSUME NEW s \in Streams PROVE Flow(s)' /\ Complete(s)'
  BY DEF FlowInv
<1> DEFINE k == Item(s)
<1>0. Types /\ Flow(s) /\ Complete(s)
  BY DEF IInv, StateInv, FlowInv
<1>1. /\ disp # Nil /\ disp' = Nil /\ disp \in WellFormed
      /\ \/ queue' = [queue EXCEPT ![disp.kind] = Append(@, disp)]
         \/ disp.kind = "call" /\ queue' = queue
      /\ UNCHANGED <<ups, link, inbox, chan, sentTo, last, dropped, pc>>
  BY <1>0 DEF Dispatch, askVars, streamVars, brokerVars, history, Types
<1>2. k' = k /\ k \in Kinds /\ k # "call"
  BY <1>1 DEF Item, Kinds
<1>3. InHand(s)' = {} /\ OnLink(s)' = OnLink(s) /\ InChan(s)' = InChan(s)
  BY <1>1, <1>2 DEF InHand, OnLink, InChan
<1>4. InHand(s) = IF Mine(disp, k, s) THEN {disp.item} ELSE {}
  BY <1>1 DEF InHand
<1>5. InQueue(s)' = InQueue(s) \cup InHand(s) /\ Ordered(queue'[k], k, s)
  <2>1. CASE disp.kind = k
    <3>1. disp \in Of(k) /\ queue[k] \in Seq(Of(k)) /\ queue'[k] = Append(queue[k], disp)
      BY <1>0, <1>1, <1>2, <2>1 DEF Of, Types
    <3>2. Mine(disp, k, s) => Below(Items(queue[k], k, s), {disp.item})
      BY <1>0, <1>4 DEF Flow, Chain, InQueue
    <3>3. Ordered(queue[k], k, s)
      BY <1>0 DEF Flow
    <3>4. Ordered(queue'[k], k, s)
      BY <3>1, <3>2, <3>3, AppendOrdered
    <3>5. InQueue(s)' = InQueue(s) \cup InHand(s)
      BY <1>2, <1>4, <3>1, AppendItems DEF InQueue
    <3> QED BY <3>4, <3>5
  <2>2. CASE disp.kind # k
    <3>1. queue'[k] = queue[k]
      BY <1>0, <1>1, <1>2, <2>2 DEF Types
    <3>2. InHand(s) = {}
      BY <1>4, <2>2 DEF Mine
    <3>3. InQueue(s)' = InQueue(s)
      BY <1>2, <3>1 DEF InQueue
    <3> QED BY <1>0, <3>1, <3>2, <3>3 DEF Flow
  <2> QED BY <2>1, <2>2
<1>6. Coming(s)' = Coming(s)
  BY <1>3, <1>5 DEF Coming
<1>7. Chain(s)'
  BY <1>0, <1>3, <1>5 DEF Flow, Chain, Below
<1>8. Flow(s)'
  BY <1>0, <1>1, <1>2, <1>5, <1>6, <1>7 DEF Flow, Between
<1>9. Complete(s)'
  BY <1>0, <1>1, <1>6 DEF Complete, Seen, Active
<1> QED BY <1>8, <1>9

(* A loop moves an item into the channel of its stream. *)
LEMMA TakeItemFlow ==
  ASSUME IInv, NEW k \in {"ack", "chunk"}, TakeItem(k)
  PROVE  FlowInv'
<1> DEFINE m == Head(queue[k])
           full == m.of \in table /\ Len(chan[m.of]) = ChanSize
<1> SUFFICES ASSUME NEW s \in Streams PROVE Flow(s)' /\ Complete(s)'
  BY DEF FlowInv
<1>0. Types /\ Flow(s) /\ Complete(s)
  BY DEF IInv, StateInv, FlowInv
<1>1. /\ queue[k] # <<>> /\ queue' = [queue EXCEPT ![k] = Tail(@)]
      /\ chan' = IF m.of \in table /\ ~full
                   THEN [chan EXCEPT ![m.of] = Append(@, m.item)] ELSE chan
      /\ dropped' = IF full /\ Remembered(m.of)
                      THEN [dropped EXCEPT ![m.of] = @ \cup {m.item}] ELSE dropped
      /\ UNCHANGED <<ups, link, inbox, disp, sentTo, last, pc>>
  BY DEF TakeItem, Pops, askVars, brokerVars, readVars
<1>2. /\ k \in Kinds /\ queue[k] \in Seq(Of(k)) /\ m \in Of(k) /\ m.of \in Streams
      /\ k = Item(m.of) /\ m.item \in Nat
  <2>1. k \in Kinds /\ queue[k] \in Seq(Of(k))
    BY <1>0 DEF Kinds, Types
  <2>2. m \in Of(k)
    BY <1>1, <2>1
  <2> QED BY <2>1, <2>2 DEF Of, WellFormed, Messages
<1> HIDE DEF m, full
<1>3. Item(s)' = Item(s)
  BY <1>1 DEF Item
<1>4. InHand(s)' = InHand(s) /\ OnLink(s)' = OnLink(s)
  BY <1>1, <1>3 DEF InHand, OnLink
<1>5. CASE s # m.of
  <2>1. chan'[s] = chan[s] /\ dropped'[s] = dropped[s]
    BY <1>0, <1>1, <1>5 DEF Types
  <2>2. InQueue(s)' = InQueue(s) /\ Ordered(queue'[Item(s)], Item(s), s)
    <3>1. CASE Item(s) = k
      <4>1. ~Mine(m, k, s) /\ queue'[k] = Tail(queue[k])
        BY <1>0, <1>1, <1>2, <1>5 DEF Mine, Types
      <4>2. Items(queue[k], k, s) = Items(Tail(queue[k]), k, s) \cup {}
        BY <1>1, <1>2, <4>1, TailItems DEF m
      <4>3. Ordered(queue[k], k, s)
        BY <1>0, <3>1 DEF Flow
      <4>4. Ordered(Tail(queue[k]), k, s)
        BY <1>1, <1>2, <4>3, TailOrdered
      <4> QED BY <1>3, <3>1, <4>1, <4>2, <4>4 DEF InQueue
    <3>2. CASE Item(s) # k
      <4>1. queue'[Item(s)] = queue[Item(s)]
        BY <1>0, <1>1, <3>2, FlowTypes DEF Types
      <4> QED BY <1>0, <1>3, <4>1 DEF InQueue, Flow
    <3> QED BY <3>1, <3>2
  <2>3. InChan(s)' = InChan(s)
    BY <2>1 DEF InChan
  <2>4. Coming(s)' = Coming(s)
    BY <1>4, <2>2, <2>3 DEF Coming
  <2>5. Flow(s)'
    BY <1>0, <1>1, <1>3, <1>4, <2>1, <2>2, <2>3, <2>4 DEF Flow, Chain, Between
  <2>6. Complete(s)'
    BY <1>0, <1>1, <2>1, <2>4 DEF Complete, Seen, Active
  <2> QED BY <2>5, <2>6
<1>6. CASE s = m.of
  <2> DEFINE stored == s \in table /\ ~full
  <2>1. /\ Mine(m, k, s) /\ k = Item(s) /\ queue'[k] = Tail(queue[k])
    BY <1>0, <1>1, <1>2, <1>6 DEF Mine, Of, Types
  <2>2. InQueue(s) = InQueue(s)' \cup {m.item}
    BY <1>1, <1>2, <1>3, <2>1, TailItems DEF InQueue, m
  <2>3. Ordered(queue'[k], k, s) /\ Below({m.item}, InQueue(s)')
    <3>1. Ordered(queue[k], k, s)
      BY <1>0, <2>1 DEF Flow
    <3>2. Ordered(Tail(queue[k]), k, s) /\ Below({m.item}, Items(Tail(queue[k]), k, s))
      BY <1>1, <1>2, <2>1, <3>1, TailOrdered DEF m
    <3> QED BY <1>3, <2>1, <3>2 DEF InQueue
  <2>4. /\ stored => chan'[s] = Append(chan[s], m.item)
        /\ ~stored => chan'[s] = chan[s]
        /\ full /\ Remembered(s) => dropped'[s] = dropped[s] \cup {m.item}
        /\ dropped[s] \subseteq dropped'[s]
    BY <1>0, <1>1, <1>6 DEF Types
  <2>5. /\ InChan(s)' = IF stored THEN InChan(s) \cup {m.item} ELSE InChan(s)
        /\ Increasing(chan'[s])
    <3>1. Below(Values(chan[s]), {m.item})
      BY <1>0, <2>2 DEF Flow, Chain, Below, InChan
    <3>2. chan[s] \in Seq(Nat) /\ Increasing(chan[s])
      BY <1>0 DEF Types, Flow
    <3>3. CASE stored
      BY <1>2, <2>4, <3>1, <3>2, <3>3, AppendIncreasing DEF InChan
    <3>4. CASE ~stored
      BY <2>4, <3>2, <3>4 DEF InChan
    <3> QED BY <3>3, <3>4
  <2>6. Chain(s)'
    BY <1>0, <1>4, <2>2, <2>3, <2>5 DEF Flow, Chain, Below
  <2>7. Coming(s)' \subseteq Coming(s)
    BY <1>4, <2>2, <2>5 DEF Coming
  <2>8. Flow(s)'
    BY <1>0, <1>1, <1>3, <2>1, <2>3, <2>5, <2>6, <2>7 DEF Flow, Between
  <2>9. Complete(s)'
    <3> SUFFICES ASSUME Active(s), NEW n \in 1..sentTo[s] PROVE Seen(s, n)'
      BY <1>1 DEF Complete, Active
    <3>1. Seen(s, n)
      BY <1>0 DEF Complete
    <3>2. s \in table
      <4>1. m.item \in Coming(s)
        BY <2>2 DEF Coming
      <4>2. 0 < m.item /\ m.item <= sentTo[s]
        BY <1>0, <1>2, <4>1 DEF Flow, Between, Types, Active
      <4>3. s \in ups => sentTo[s] <= written[s]
        BY DEF IInv, StateInv, BrokerInv
      <4>4. s \in ups => written[s] > 0
        BY <1>0, <1>2, <4>2, <4>3 DEF Types
      <4>5. s \in ups => pc[s] = "open"
        BY <4>4 DEF IInv, StateInv, BrokerInv, Active
      <4> QED BY <4>5 DEF IInv, StateInv, TableInv, Active
    <3>3. Remembered(s)
      BY DEF Remembered, Active
    <3>4. m.item \in Coming(s)' \/ m.item \in dropped'[s]
      <4>1. CASE stored
        BY <2>5, <4>1 DEF Coming
      <4>2. CASE ~stored
        BY <2>4, <3>2, <3>3, <4>2
      <4> QED BY <4>1, <4>2
    <3>5. \A x \in Coming(s) : x = m.item \/ x \in Coming(s)'
      BY <1>4, <2>2, <2>5 DEF Coming
    <3>6. CASE n \in Coming(s)
      BY <3>4, <3>5, <3>6 DEF Seen
    <3>7. CASE n <= last[s] \/ n \in dropped[s]
      BY <1>1, <2>4, <3>7 DEF Seen
    <3> QED BY <3>1, <3>6, <3>7 DEF Seen
  <2> QED BY <2>8, <2>9
<1> QED BY <1>5, <1>6

(* The reader of a stream takes an item out of the channel. *)
LEMMA ReaderFlow ==
  ASSUME IInv, NEW s \in Streams, ReaderTakes(s)
  PROVE  FlowInv'
<1> DEFINE h == Head(chan[s])
<1> SUFFICES ASSUME NEW r \in Streams PROVE Flow(r)' /\ Complete(r)'
  BY DEF FlowInv
<1>0. Types /\ Flow(r) /\ Complete(r)
  BY DEF IInv, StateInv, FlowInv
<1>1. /\ chan[s] # <<>> /\ chan' = [chan EXCEPT ![s] = Tail(@)]
      /\ IF Remembered(s)
           THEN /\ last' = [last EXCEPT ![s] = h]
                /\ dropped' = [dropped EXCEPT ![s] = {n \in @ : n > h}]
           ELSE UNCHANGED <<last, dropped>>
      /\ UNCHANGED <<ups, link, inbox, disp, queue, sentTo, pc>>
  BY DEF ReaderTakes, askVars, brokerVars, readVars, history
<1> HIDE DEF h
<1>2. Item(r)' = Item(r)
  BY <1>1 DEF Item
<1>3. CASE r # s
  <2>1. chan'[r] = chan[r] /\ last'[r] = last[r] /\ dropped'[r] = dropped[r]
    BY <1>0, <1>1, <1>3 DEF Types
  <2>2. Active(r)' = Active(r)
    BY <1>1 DEF Active
  <2> QED BY <1>0, <1>1, <1>2, <2>1, <2>2, Untouched
<1>4. CASE r = s
  <2>1. /\ InHand(s)' = InHand(s) /\ OnLink(s)' = OnLink(s) /\ InQueue(s)' = InQueue(s)
    BY <1>1, <1>2, <1>4 DEF InHand, OnLink, InQueue
  <2>2. chan'[s] = Tail(chan[s]) /\ chan[s] \in Seq(Nat) /\ Increasing(chan[s])
    BY <1>0, <1>1, <1>4 DEF Types, Flow
  <2>3. /\ InChan(s) = InChan(s)' \cup {h} /\ Increasing(chan'[s])
        /\ Below({h}, InChan(s)')
    BY <1>1, <2>2, TailIncreasing DEF InChan, h
  <2>4. h \in Coming(s) /\ h \in Nat /\ last[s] < h /\ (link = "up" => h <= sentTo[s])
    <3>1. h \in Coming(s)
      BY <2>3 DEF Coming
    <3> QED BY <1>0, <1>4, <2>3, <3>1, FlowTypes DEF Flow, Between
  <2>5. Coming(s)' \subseteq Coming(s) /\ \A n \in Coming(s) : n = h \/ n \in Coming(s)'
    BY <2>1, <2>3 DEF Coming
  <2>6. Chain(s)'
    BY <1>0, <1>4, <2>1, <2>3 DEF Flow, Chain, Below
  <2>7. \A n \in Coming(s)' : h < n
    BY <1>0, <1>4, <2>1, <2>3 DEF Flow, Chain, Below, Coming
  <2>8. CASE Remembered(s)
    <3>1. last'[s] = h /\ dropped'[s] = {n \in dropped[s] : n > h}
      BY <1>0, <1>1, <2>8 DEF Types
    <3>2. Between(s)'
      BY <1>0, <1>1, <1>4, <2>4, <2>5, <2>7, <3>1 DEF Flow, Between
    <3>3. Flow(s)'
      BY <1>0, <1>1, <1>2, <1>4, <2>3, <2>6, <3>2 DEF Flow
    <3>4. Complete(s)'
      <4> SUFFICES ASSUME Active(s), NEW n \in 1..sentTo[s] PROVE Seen(s, n)'
        BY <1>1 DEF Complete, Active
      <4>1. Seen(s, n)
        BY <1>0, <1>4 DEF Complete
      <4>2. n \in Int /\ last[s] \in Nat
        BY <1>0 DEF Types
      <4>3. CASE n \in Coming(s)
        BY <2>4, <2>5, <3>1, <4>3 DEF Seen
      <4>4. CASE n <= last[s]
        BY <2>4, <3>1, <4>2, <4>4 DEF Seen
      <4>5. CASE n \in dropped[s]
        BY <2>4, <3>1, <4>2, <4>5 DEF Seen
      <4> QED BY <4>1, <4>3, <4>4, <4>5 DEF Seen
    <3> QED BY <1>4, <3>3, <3>4
  <2>9. CASE ~Remembered(s)
    <3>1. last' = last /\ dropped' = dropped
      BY <1>1, <2>9
    <3>2. Flow(s)'
      BY <1>0, <1>1, <1>2, <1>4, <2>3, <2>5, <2>6, <3>1 DEF Flow, Between
    <3>3. Complete(s)'
      BY <1>1, <2>9 DEF Complete, Active, Remembered
    <3> QED BY <1>4, <3>2, <3>3
  <2> QED BY <2>8, <2>9
<1> QED BY <1>3, <1>4

-----------------------------------------------------------------------------
(* The rest of the invariant.                                               *)

USE DEF readVars, askVars, streamVars, brokerVars, history

(* It holds at first. *)
LEMMA InitIInv == Init => IInv
<1> SUFFICES ASSUME Init PROVE IInv
  OBVIOUS
<1>1. Types
  <2>1. /\ queue = [k \in Kinds |-> queue[k]]
        /\ \A k \in Kinds : queue[k] \in Seq(Of(k))
    BY DEF Init
  <2>2. inbox \in Seq(WellFormed) /\ chan \in [Streams -> Seq(Nat)]
    BY DEF Init
  <2>3. pc \in [Askers -> PCs] /\ dropped \in [Streams -> SUBSET Nat]
    BY DEF Init, PCs
  <2> QED BY <2>1, <2>2, <2>3 DEF Init, Types
<1>2. SessionInv /\ BrokerInv /\ TableInv
  BY DEF Init, SessionInv, BrokerInv, TableInv, Askers
<1>3. ASSUME NEW s \in Streams PROVE Flow(s) /\ Complete(s)
  <2>1. Item(s) \in Kinds
    BY DEF Item, Kinds
  <2>2. inbox = <<>> /\ queue[Item(s)] = <<>> /\ chan[s] = <<>>
    BY <2>1 DEF Init
  <2>3. OnLink(s) = {} /\ InQueue(s) = {} /\ InChan(s) = {} /\ InHand(s) = {}
    BY <2>2 DEF Init, OnLink, InQueue, InChan, InHand, Items, Values
  <2>4. Coming(s) = {} /\ Chain(s)
    BY <2>3 DEF Coming, Chain, Below
  <2>5. Between(s)
    BY <2>4 DEF Between, Init
  <2>6. /\ Ordered(inbox, Item(s), s) /\ Ordered(queue[Item(s)], Item(s), s)
        /\ Increasing(chan[s])
    BY <2>2 DEF Ordered, Increasing
  <2>7. Complete(s)
    BY DEF Complete, Active, Init, Askers
  <2> QED BY <2>4, <2>5, <2>6, <2>7 DEF Flow
<1> QED BY <1>1, <1>2, <1>3 DEF IInv, StateInv, FlowInv

(* The queues keep their type. *)
LEMMA PopsTypes ==
  ASSUME Types, NEW k \in Kinds, Pops(k)
  PROVE  /\ queue' = [j \in Kinds |-> queue'[j]]
         /\ \A j \in Kinds : queue'[j] \in Seq(Of(j))
         /\ Head(queue[k]) \in Of(k)
         /\ \A j \in Kinds \ {k} : queue'[j] = queue[j]
<1>1. queue[k] \in Seq(Of(k)) /\ queue[k] # <<>>
  BY DEF Types, Pops
<1>2. Head(queue[k]) \in Of(k) /\ Tail(queue[k]) \in Seq(Of(k))
  BY <1>1
<1> QED BY <1>2 DEF Types, Pops

(* Connect and Run. *)
LEMMA ConnectIInv ==
  ASSUME IInv, Connecting
  PROVE  IInv'
<1>1. CASE ConnectWrite \/ Run
  <2>1. FlowInv'
    BY <1>1, Quiet DEF ConnectWrite, Run, Active
  <2>2. Types' /\ SessionInv' /\ BrokerInv' /\ TableInv'
    BY <1>1 DEF ConnectWrite, Run, Running, IInv, StateInv, Types, SessionInv, BrokerInv,
       TableInv, Item, WellFormed, Of
  <2> QED BY <2>1, <2>2 DEF IInv, StateInv
<1>2. CASE ConnectRead
  <2>1. \A s \in Streams : ~Active(s)
    BY <1>2 DEF ConnectRead, IInv, StateInv, SessionInv, Running, Active, Askers
  <2>2. CASE inbox' = inbox
    <3>1. FlowInv'
      BY <1>2, <2>1, <2>2, Quiet DEF ConnectRead, Active
    <3>2. Types' /\ SessionInv' /\ BrokerInv' /\ TableInv'
      BY <1>2, <2>2 DEF ConnectRead, Running, IInv, StateInv, Types, SessionInv, BrokerInv,
         TableInv, Item, WellFormed, Of
    <3> QED BY <3>1, <3>2 DEF IInv, StateInv
  <2>3. CASE inbox # <<>> /\ inbox' = Tail(inbox)
    <3>1. FlowInv'
      BY <1>2, <2>1, <2>3, LoseFlow DEF ConnectRead
    <3>2. inbox' \in Seq(WellFormed)
      BY <2>3 DEF IInv, StateInv, Types
    <3>3. Types' /\ SessionInv' /\ BrokerInv' /\ TableInv'
      BY <1>2, <3>2 DEF ConnectRead, Running, IInv, StateInv, Types, SessionInv, BrokerInv,
         TableInv, Item, WellFormed, Of
    <3> QED BY <3>1, <3>3 DEF IInv, StateInv
  <2> QED BY <1>2, <2>2, <2>3 DEF ConnectRead
<1> QED BY <1>1, <1>2 DEF Connecting

(* The broker. *)
LEMMA BrokerIInv ==
  ASSUME IInv,
         \/ BrokerConnects
         \/ \E a \in Askers, w \in {"open", "close", "ping"} : BrokerReplies(a, w)
         \/ \E s \in Streams : BrokerSends(s)
         \/ \E k \in {"ping", "disconnect", "call"} : BrokerPings(k)
  PROVE  IInv'
<1>0. Types
  BY DEF IInv, StateInv
<1>1. ASSUME NEW m \in Messages, m.kind \notin {"ack", "chunk"}, Arrives(m),
             UNCHANGED <<ups, link, disp, queue, chan, sentTo, last, dropped, pc>>
      PROVE  FlowInv' /\ inbox' \in Seq(WellFormed)
  <2>1. FlowInv'
    BY <1>1, ArriveOtherFlow
  <2>2. m \in WellFormed
    BY <1>1 DEF WellFormed
  <2> QED BY <1>0, <1>1, <2>1, <2>2 DEF Types, Arrives
<1>2. ASSUME inbox' \in Seq(WellFormed), sentTo' \in [Streams -> Nat],
             UNCHANGED <<ups, link, disp, queue, pc, chan, written, last, dropped>>
      PROVE  Types'
  BY <1>0, <1>2 DEF Types, WellFormed, Item, Of
<1>3. CASE BrokerConnects
  <2> DEFINE m == Msg("connect", Nil, Nil, 0)
  <2>1. m \in Messages /\ m.kind = "connect"
    BY DEF Msg, Messages
  <2>2. /\ Arrives(m)
        /\ UNCHANGED <<ups, phase, ctx, link, disp, queue>>
        /\ UNCHANGED <<askVars, streamVars, brokerVars, history>>
    BY <1>3 DEF BrokerConnects
  <2> HIDE DEF m
  <2>3. FlowInv' /\ Types'
    BY <1>0, <1>1, <1>2, <2>1, <2>2 DEF Types
  <2>4. SessionInv' /\ BrokerInv' /\ TableInv'
    BY <2>2 DEF IInv, StateInv, SessionInv, BrokerInv, TableInv, Running
  <2> QED BY <2>3, <2>4 DEF IInv, StateInv
<1>4. ASSUME NEW a \in Askers, NEW w \in {"open", "close", "ping"}, BrokerReplies(a, w)
      PROVE  IInv'
  <2> DEFINE m == Msg("request", a, w, 0)
  <2>1. m \in Messages /\ m.kind = "request"
    BY DEF Msg, Messages, Kinds
  <2>2. /\ Arrives(m) /\ <<a, w>> \in asked /\ asked' = asked \ {<<a, w>>}
        /\ serves' \subseteq serves \cup (IF w = "open" THEN {a} ELSE {})
        /\ UNCHANGED <<ups, phase, ctx, link, disp, queue>>
        /\ UNCHANGED <<askVars, streamVars, sentTo, written, history>>
    BY <1>4 DEF BrokerReplies
  <2> HIDE DEF m
  <2>3. FlowInv' /\ Types'
    BY <1>0, <1>1, <1>2, <2>1, <2>2 DEF Types
  <2>4. SessionInv' /\ BrokerInv' /\ TableInv'
    BY <2>2 DEF IInv, StateInv, SessionInv, BrokerInv, TableInv, Running
  <2> QED BY <2>3, <2>4 DEF IInv, StateInv
<1>5. ASSUME NEW s \in Streams, BrokerSends(s)
      PROVE  IInv'
  <2> DEFINE m == Msg(Item(s), s, Nil, sentTo[s] + 1)
  <2>1. m \in WellFormed
    BY <1>0 DEF Msg, WellFormed, Messages, Item, Kinds, Types, Askers
  <2>2. /\ inbox' = Append(inbox, m) /\ sentTo' = [sentTo EXCEPT ![s] = @ + 1]
        /\ s \in serves
        /\ s \in ups => sentTo[s] < written[s]
        /\ UNCHANGED <<ups, phase, ctx, link, disp, queue>>
        /\ UNCHANGED <<askVars, streamVars, asked, serves, written, history>>
    BY <1>5 DEF BrokerSends, Arrives
  <2> HIDE DEF m
  <2>3. FlowInv'
    BY <1>5, SendFlow
  <2>4. inbox' \in Seq(WellFormed) /\ sentTo' \in [Streams -> Nat]
    BY <1>0, <2>1, <2>2 DEF Types
  <2>5. Types'
    BY <1>2, <2>2, <2>4
  <2>6. SessionInv' /\ TableInv'
    BY <2>2 DEF IInv, StateInv, SessionInv, TableInv, Running
  <2>7. BrokerInv'
    <3>1. /\ BrokerInv /\ ups \subseteq Streams
          /\ sentTo \in [Streams -> Nat] /\ written \in [Streams -> Nat]
      BY <1>0 DEF IInv, StateInv, Types
    <3> QED BY <2>2, <3>1 DEF BrokerInv
  <2> QED BY <2>3, <2>5, <2>6, <2>7 DEF IInv, StateInv
<1>6. ASSUME NEW k \in {"ping", "disconnect", "call"}, BrokerPings(k)
      PROVE  IInv'
  <2> DEFINE m == Msg(k, Nil, Nil, 0)
  <2>1. m \in Messages /\ m.kind = k
    BY DEF Msg, Messages, Kinds
  <2>2. /\ Arrives(m)
        /\ UNCHANGED <<ups, phase, ctx, link, disp, queue>>
        /\ UNCHANGED <<askVars, streamVars, brokerVars, history>>
    BY <1>6 DEF BrokerPings
  <2> HIDE DEF m
  <2>3. FlowInv' /\ Types'
    BY <1>0, <1>1, <1>2, <2>1, <2>2 DEF Types
  <2>4. SessionInv' /\ BrokerInv' /\ TableInv'
    BY <2>2 DEF IInv, StateInv, SessionInv, BrokerInv, TableInv, Running
  <2> QED BY <2>3, <2>4 DEF IInv, StateInv
<1> QED BY <1>3, <1>4, <1>5, <1>6

(* The transport goes, for one reason or the other. *)
LEMMA CutIInv ==
  ASSUME IInv, Cut, ctx' \in {ctx, "cancelled"},
         UNCHANGED <<ups, phase, inbox, disp, chan, table>>,
         \A k \in Kinds : queue'[k] = queue[k] \/ (k = "disconnect" /\ Pops(k)),
         queue' = [k \in Kinds |-> queue'[k]],
         pc' = pc \/ (Running /\ pc' = [pc EXCEPT ![KeepAlive] = "ended"])
  PROVE  IInv'
<1>0. Types
  BY DEF IInv, StateInv
<1>1. \A s \in Streams : queue'[Item(s)] = queue[Item(s)]
  BY DEF Item, Kinds
<1>2. FlowInv'
  BY <1>1, CutFlow
<1>3. \A k \in Kinds : queue'[k] \in Seq(Of(k))
  BY <1>0, PopsTypes DEF Types
<1>4. pc' \in [Askers -> PCs] /\ \A s \in Streams : pc'[s] = pc[s]
  BY <1>0, WireAssumption DEF Types, Askers, PCs
<1>5. Types'
  BY <1>0, <1>3, <1>4 DEF Types, Cut, WellFormed, Item, Of
<1>6. \A a \in Askers : pc'[a] # "idle" => Running'
  BY <1>0 DEF IInv, StateInv, SessionInv, Types, Running
<1>7. SessionInv' /\ BrokerInv' /\ TableInv'
  BY <1>0, <1>4, <1>6 DEF IInv, StateInv, Types, SessionInv, BrokerInv, TableInv, Cut
<1> QED BY <1>2, <1>5, <1>7 DEF IInv, StateInv

(* The reader and the dispatcher. *)
LEMMA ReadIInv ==
  ASSUME IInv, Reading \/ Dispatch
  PROVE  IInv'
<1>0. Types
  BY DEF IInv, StateInv
<1>1. CASE ReadMessage
  <2>1. FlowInv'
    BY <1>1, ReadFlow
  <2>2. inbox' \in Seq(WellFormed) /\ disp' \in WellFormed \cup {Nil}
    <3>1. Head(inbox) \in WellFormed /\ Tail(inbox) \in Seq(WellFormed)
      BY <1>0, <1>1 DEF ReadMessage, Types
    <3> QED BY <1>0, <1>1, <3>1 DEF ReadMessage, Types
  <2>3. Types' /\ SessionInv' /\ BrokerInv' /\ TableInv'
    BY <1>1, <2>2 DEF ReadMessage, Running, IInv, StateInv, Types, SessionInv, BrokerInv,
       TableInv, Item, WellFormed, Of
  <2> QED BY <2>1, <2>3 DEF IInv, StateInv
<1>2. CASE ReadFails
  <2>1. FlowInv'
    BY <1>2, LoseFlow DEF ReadFails, Active
  <2>2. Types' /\ SessionInv' /\ BrokerInv' /\ TableInv'
    BY <1>2 DEF ReadFails, Running, IInv, StateInv, Types, SessionInv, BrokerInv,
       TableInv, Item, WellFormed, Of
  <2> QED BY <2>1, <2>2 DEF IInv, StateInv
<1>3. CASE Dispatch
  <2>1. FlowInv'
    BY <1>3, DispatchFlow
  <2>2. \A k \in Kinds : queue'[k] \in Seq(Of(k))
    <3> SUFFICES ASSUME NEW k \in Kinds PROVE queue'[k] \in Seq(Of(k))
      OBVIOUS
    <3>1. queue[k] \in Seq(Of(k)) /\ (disp.kind = k => disp \in Of(k))
      BY <1>0, <1>3 DEF Types, Of, Dispatch
    <3>2. queue'[k] = queue[k] \/ (disp.kind = k /\ queue'[k] = Append(queue[k], disp))
      BY <1>0, <1>3 DEF Types, Dispatch
    <3> QED BY <3>1, <3>2
  <2>3. queue' = [k \in Kinds |-> queue'[k]]
    BY <1>0, <1>3 DEF Types, Dispatch
  <2>4. Types' /\ SessionInv' /\ BrokerInv' /\ TableInv'
    BY <1>3, <2>2, <2>3 DEF Dispatch, Running, IInv, StateInv, Types, SessionInv, BrokerInv,
       TableInv, Item, WellFormed, Of
  <2> QED BY <2>1, <2>4 DEF IInv, StateInv
<1> QED BY <1>1, <1>2, <1>3 DEF Reading

(* The loops behind the queues. *)
LEMMA LoopIInv ==
  ASSUME IInv, TakeReply \/ TakePing \/ TakeCall \/ \E k \in {"ack", "chunk"} : TakeItem(k)
  PROVE  IInv'
<1>0. Types
  BY DEF IInv, StateInv
<1>1. ASSUME NEW k \in {"request", "ping", "call"}, Pops(k),
             UNCHANGED <<link, pc, streamVars, brokerVars, history>>
      PROVE  IInv'
  <2>1. k \in Kinds /\ \A s \in Streams : Item(s) \in Kinds \ {k}
    BY DEF Kinds, Item
  <2>2. /\ queue' = [j \in Kinds |-> queue'[j]] /\ \A j \in Kinds : queue'[j] \in Seq(Of(j))
        /\ \A s \in Streams : queue'[Item(s)] = queue[Item(s)]
    BY <1>0, <1>1, <2>1, PopsTypes
  <2>3. FlowInv'
    BY <1>1, <2>2, Quiet DEF Pops, Active
  <2>4. Types' /\ SessionInv' /\ BrokerInv' /\ TableInv'
    BY <1>1, <2>2 DEF Pops, Running, IInv, StateInv, Types, SessionInv, BrokerInv,
       TableInv, Item, WellFormed, Of
  <2> QED BY <2>3, <2>4 DEF IInv, StateInv
<1>2. ASSUME NEW k \in {"ack", "chunk"}, TakeItem(k)
      PROVE  IInv'
  <2>1. FlowInv'
    BY <1>2, TakeItemFlow
  <2> DEFINE m == Head(queue[k])
  <2>2. /\ queue' = [j \in Kinds |-> queue'[j]] /\ \A j \in Kinds : queue'[j] \in Seq(Of(j))
        /\ m \in Of(k)
    BY <1>0, <1>2, PopsTypes DEF TakeItem, Kinds
  <2>3. m.of \in Streams /\ m.item \in Nat
    BY <2>2 DEF Of, WellFormed, Messages
  <2>4. /\ chan' = chan \/ chan' = [chan EXCEPT ![m.of] = Append(@, m.item)]
        /\ dropped' = dropped \/ dropped' = [dropped EXCEPT ![m.of] = @ \cup {m.item}]
        /\ UNCHANGED <<ups, phase, readVars, link, ctx, askVars, table, brokerVars, last>>
    BY <1>2 DEF TakeItem, Pops
  <2> HIDE DEF m
  <2>5. chan' \in [Streams -> Seq(Nat)]
    <3>1. Append(chan[m.of], m.item) \in Seq(Nat)
      BY <1>0, <2>3 DEF Types
    <3> QED BY <1>0, <2>3, <2>4, <3>1 DEF Types
  <2>6. dropped' \in [Streams -> SUBSET Nat]
    <3>1. dropped[m.of] \cup {m.item} \in SUBSET Nat
      BY <1>0, <2>3 DEF Types
    <3> QED BY <1>0, <2>4, <3>1 DEF Types
  <2>7. Types' /\ SessionInv' /\ BrokerInv' /\ TableInv'
    BY <2>2, <2>4, <2>5, <2>6 DEF Running, IInv, StateInv, Types, SessionInv, BrokerInv,
       TableInv, Item, WellFormed, Of
  <2> QED BY <2>1, <2>7 DEF IInv, StateInv
<1>3. CASE TakeReply
  BY <1>1, <1>3 DEF TakeReply
<1>4. CASE TakePing \/ TakeCall
  BY <1>1, <1>4 DEF TakePing, TakeCall
<1> QED BY <1>2, <1>3, <1>4

(* A step of one asker that moves no message and forgets nothing. *)
LEMMA StepIInv ==
  ASSUME IInv, NEW a \in Askers, NEW to \in PCs, Running,
         pc' = [pc EXCEPT ![a] = to],
         UNCHANGED <<ups, phase, link, ctx, inbox, disp, queue, chan, sentTo, last, dropped>>,
         a \in Streams /\ to \in {"opening", "opened", "open"} =>
           pc[a] \in {"idle", "subscribed"} \/ pc[a] \in {"opening", "opened", "open"}
  PROVE  FlowInv' /\ SessionInv' /\ (written' \in [Streams -> Nat] => Types')
<1>0. Types
  BY DEF IInv, StateInv
<1>1. \A s \in Streams : Active(s)' => Active(s) \/ pc[s] \in {"idle", "subscribed"}
  BY <1>0 DEF Active, Types, Askers
<1>2. FlowInv'
  BY <1>1, Quiet DEF Item
<1>3. SessionInv'
  BY <1>0 DEF IInv, StateInv, SessionInv, Types, Running
<1>4. written' \in [Streams -> Nat] => Types'
  BY <1>0 DEF Types, Item, WellFormed, Of
<1> QED BY <1>2, <1>3, <1>4

(* keepAliveLoop. *)
LEMMA KeepIInv ==
  ASSUME IInv, Ping \/ Pong \/ PingTimeout
  PROVE  IInv'
<1>0. Types /\ KeepAlive \in Askers /\ KeepAlive \notin Streams
  BY WireAssumption DEF IInv, StateInv, Askers
<1>1. PICK to \in {"waiting", "lost", "idle"} : pc' = [pc EXCEPT ![KeepAlive] = to]
  BY DEF Ping, Pong, PingTimeout, Ask, Moves
<1>2. /\ UNCHANGED <<ups, phase, link, ctx, inbox, disp, queue, chan, table>>
      /\ UNCHANGED <<serves, sentTo, written, last, dropped>>
      /\ asked' \subseteq asked \cup {<<KeepAlive, "ping">>}
  <2>1. CASE Ping
    BY <2>1 DEF Ping, Ask
  <2>2. CASE Pong
    BY <2>2 DEF Pong, Moves
  <2>3. CASE PingTimeout
    BY <2>3 DEF PingTimeout, Moves
  <2> QED BY <2>1, <2>2, <2>3
<1>3. Running
  <2>1. CASE Ping
    BY <2>1 DEF Ping, Ask
  <2>2. CASE Pong \/ PingTimeout
    BY <1>0, <2>2 DEF Pong, PingTimeout, IInv, StateInv, SessionInv
  <2> QED BY <2>1, <2>2
<1>4. FlowInv' /\ SessionInv' /\ Types'
  BY <1>0, <1>1, <1>2, <1>3, StepIInv DEF PCs, Types
<1>5. \A s \in Streams : pc'[s] = pc[s]
  BY <1>0, <1>1 DEF Types, Askers
<1>6. BrokerInv' /\ TableInv'
  BY <1>0, <1>2, <1>5 DEF IInv, StateInv, BrokerInv, TableInv, Types
<1> QED BY <1>4, <1>6 DEF IInv, StateInv

(* The requests of a stream, and what it sends. *)
LEMMA AskIInv ==
  ASSUME IInv, NEW s \in Streams,
         Subscribe(s) \/ Open(s) \/ OpenReplied(s) \/ Register(s) \/ CloseStream(s)
  PROVE  IInv'
<1>0. Types /\ s \in Askers
  BY DEF IInv, StateInv, Askers
<1>1. Running
  <2>1. CASE Subscribe(s) \/ Open(s) \/ CloseStream(s)
    BY <2>1 DEF Subscribe, Open, CloseStream, Ask
  <2>2. CASE OpenReplied(s) \/ Register(s)
    BY <1>0, <2>2 DEF OpenReplied, Register, IInv, StateInv, SessionInv
  <2> QED BY <2>1, <2>2
<1>2. ASSUME NEW to \in PCs, pc' = [pc EXCEPT ![s] = to],
             UNCHANGED <<ups, phase, link, ctx, inbox, disp, queue, chan, sentTo, last, dropped>>,
             UNCHANGED <<serves, written>>,
             to \in {"opening", "opened", "open"} =>
               pc[s] \in {"idle", "subscribed", "opening", "opened"},
             asked' \subseteq asked \cup {<<s, "open">>, <<s, "close">>},
             <<s, "open">> \in asked' => <<s, "open">> \in asked \/ to = "opening",
             to \in {"idle", "subscribed"} => pc[s] = "idle",
             s \in ups /\ to \in {"subscribed", "opening", "opened"}
               => pc[s] \in {"idle", "opening"},
             table \subseteq table',
             to = "open" => s \in table',
             s \notin ups /\ to \in {"subscribed", "opening", "opened"} => s \in table'
      PROVE  IInv'
  <2>1. FlowInv' /\ SessionInv' /\ Types'
    BY <1>0, <1>1, <1>2, StepIInv DEF Types
  <2>2. pc'[s] = to /\ \A r \in Streams \ {s} : pc'[r] = pc[r]
    BY <1>0, <1>2 DEF Types, Askers
  <2>3. BrokerInv'
    BY <1>0, <1>2, <2>2 DEF IInv, StateInv, BrokerInv, Types
  <2>4. TableInv'
    BY <1>0, <1>2, <2>2 DEF IInv, StateInv, TableInv, Types
  <2> QED BY <2>1, <2>3, <2>4 DEF IInv, StateInv
<1>3. CASE Subscribe(s)
  BY <1>2, <1>3 DEF Subscribe, Moves, PCs
<1>4. CASE Open(s)
  <2> DEFINE to == IF link = "up" THEN "opening" ELSE "failed"
  <2>1. /\ pc' = [pc EXCEPT ![s] = to] /\ to \in PCs
        /\ asked' \subseteq asked \cup {<<s, "open">>, <<s, "close">>}
        /\ link # "up" => asked' = asked
    BY <1>4 DEF Open, Ask, PCs
  <2>2. s \notin ups => s \in table
    BY <1>4 DEF Open, IInv, StateInv, TableInv
  <2> QED BY <1>2, <1>4, <2>1, <2>2 DEF Open, Ask
<1>5. CASE OpenReplied(s)
  <2>1. s \notin ups => s \in table
    BY <1>5 DEF OpenReplied, IInv, StateInv, TableInv
  <2> DEFINE to == IF s \in ups THEN "opened" ELSE "open"
  <2>2. to \in PCs /\ to \notin {"closed", "failed"} /\ pc' = [pc EXCEPT ![s] = to]
    BY <1>5 DEF OpenReplied, Moves, PCs
  <2> QED BY <1>2, <1>5, <2>1, <2>2 DEF OpenReplied, Moves
<1>6. CASE Register(s)
  BY <1>2, <1>6 DEF Register, Moves, PCs
<1>7. CASE CloseStream(s)
  <2> DEFINE to == IF link = "up" THEN "closing" ELSE "failed"
  <2>1. /\ pc' = [pc EXCEPT ![s] = to] /\ to \in PCs
        /\ asked' \subseteq asked \cup {<<s, "close">>}
    BY <1>7 DEF CloseStream, Ask, PCs
  <2> QED BY <1>2, <1>7, <2>1 DEF CloseStream, Ask
<1> QED BY <1>3, <1>4, <1>5, <1>6, <1>7

(* The end of a stream. *)
LEMMA ForgetIInv ==
  ASSUME IInv, NEW s \in Streams, CloseReplied(s) \/ GivesUp(s)
  PROVE  IInv'
<1>0. Types /\ s \in Askers
  BY DEF IInv, StateInv, Askers
<1>1. PICK to \in {"closed", "failed"} :
        /\ pc' = [pc EXCEPT ![s] = to]
        /\ last' = [last EXCEPT ![s] = 0] /\ dropped' = [dropped EXCEPT ![s] = {}]
  BY DEF CloseReplied, GivesUp, Moves
<1>2. /\ UNCHANGED <<ups, phase, link, ctx, inbox, disp, queue, asked, serves, sentTo, written>>
      /\ chan' = chan \/ chan' = [chan EXCEPT ![s] = <<>>]
      /\ table' \in {table, table \ {s}}
  BY DEF CloseReplied, GivesUp, Moves
<1>3. FlowInv'
  BY <1>1, <1>2, ForgetFlow
<1>4. Running
  BY <1>0 DEF CloseReplied, GivesUp, Waiting, IInv, StateInv, SessionInv
<1>5. /\ chan' \in [Streams -> Seq(Nat)] /\ pc' \in [Askers -> PCs]
      /\ dropped' \in [Streams -> SUBSET Nat]
  <2>1. <<>> \in Seq(Nat) /\ {} \in SUBSET Nat /\ to \in PCs
    BY DEF PCs
  <2>2. chan' \in [Streams -> Seq(Nat)]
    BY <1>0, <1>2, <2>1 DEF Types
  <2>3. pc' \in [Askers -> PCs]
    BY <1>0, <1>1, <2>1 DEF Types
  <2>4. dropped' \in [Streams -> SUBSET Nat]
    BY <1>0, <1>1, <2>1 DEF Types
  <2> QED BY <2>2, <2>3, <2>4
<1>6. Types'
  BY <1>0, <1>1, <1>2, <1>5 DEF Types, Item, WellFormed, Of
<1>7. pc'[s] = to /\ \A r \in Streams \ {s} : pc'[r] = pc[r]
  BY <1>0, <1>1 DEF Types, Askers
<1>8. SessionInv'
  BY <1>2, <1>4 DEF IInv, StateInv, SessionInv, Running
<1>9. BrokerInv' /\ TableInv'
  BY <1>0, <1>2, <1>7 DEF IInv, StateInv, Types, BrokerInv, TableInv
<1> QED BY <1>3, <1>6, <1>8, <1>9 DEF IInv, StateInv

(* An upstream sends a chunk, and the reader of a stream takes an item. *)
LEMMA StreamIInv ==
  ASSUME IInv,
         (\E u \in ups : SendChunk(u)) \/ (\E s \in Streams : ReaderTakes(s))
  PROVE  IInv'
<1>0. Types
  BY DEF IInv, StateInv
<1>1. ASSUME NEW u \in ups, SendChunk(u) PROVE IInv'
  <2>1. FlowInv'
    BY <1>1, Quiet DEF SendChunk, Active
  <2>2. u \in Streams
    BY <1>0 DEF Types
  <2>3. Types'
    BY <1>0, <1>1, <2>2 DEF SendChunk, Types, Item, WellFormed, Of
  <2>4. SessionInv' /\ TableInv'
    BY <1>1 DEF SendChunk, IInv, StateInv, SessionInv, TableInv, Running
  <2>5. BrokerInv'
    BY <1>0, <1>1, <2>2 DEF SendChunk, IInv, StateInv, BrokerInv, Types
  <2> QED BY <2>1, <2>3, <2>4, <2>5 DEF IInv, StateInv
<1>2. ASSUME NEW s \in Streams, ReaderTakes(s) PROVE IInv'
  <2>1. FlowInv'
    BY <1>2, ReaderFlow
  <2>2. Head(chan[s]) \in Nat /\ Tail(chan[s]) \in Seq(Nat)
    BY <1>0, <1>2 DEF ReaderTakes, Types
  <2>3. chan' \in [Streams -> Seq(Nat)]
    BY <1>0, <1>2, <2>2 DEF ReaderTakes, Types
  <2>4. last' \in [Streams -> Nat] /\ dropped' \in [Streams -> SUBSET Nat]
    <3>1. {n \in dropped[s] : n > Head(chan[s])} \in SUBSET Nat
      BY <1>0 DEF Types
    <3>2. last' \in [Streams -> Nat]
      BY <1>0, <1>2, <2>2 DEF ReaderTakes, Types
    <3>3. \/ dropped' = dropped
          \/ dropped' = [dropped EXCEPT ![s] = {n \in dropped[s] : n > Head(chan[s])}]
      BY <1>0, <1>2 DEF ReaderTakes, Types
    <3>4. dropped' \in [Streams -> SUBSET Nat]
      BY <1>0, <3>1, <3>3 DEF Types
    <3> QED BY <3>2, <3>4
  <2>5. Types' /\ SessionInv' /\ BrokerInv' /\ TableInv'
    BY <1>0, <1>2, <2>3, <2>4 DEF ReaderTakes, IInv, StateInv, Types, SessionInv, BrokerInv,
       TableInv, Running, Item, WellFormed, Of
  <2> QED BY <2>1, <2>5 DEF IInv, StateInv
<1> QED BY <1>1, <1>2

(* The invariant holds in every reachable state. *)
THEOREM WireInvariant == Spec => []IInv
<1>1. IInv /\ [Next]_vars => IInv'
  <2> SUFFICES ASSUME IInv, [Next]_vars PROVE IInv'
    OBVIOUS
  <2>0. queue = [k \in Kinds |-> queue[k]]
    BY DEF IInv, StateInv, Types
  <2>1. CASE Connecting
    BY <2>1, ConnectIInv
  <2>2. CASE BrokerConnects \/ \E k \in {"ping", "disconnect", "call"} : BrokerPings(k)
    BY <2>2, BrokerIInv
  <2>3. CASE \E a \in Askers, w \in {"open", "close", "ping"} : BrokerReplies(a, w)
    BY <2>3, BrokerIInv
  <2>4. CASE \E s \in Streams : BrokerSends(s) \/ GivesUp(s) \/ ReaderTakes(s)
    BY <2>4, BrokerIInv, ForgetIInv, StreamIInv
  <2>5. CASE \E u \in ups : SendChunk(u)
    BY <2>5, StreamIInv
  <2>6. CASE Break \/ Watchdog \/ AppCloses
    BY <2>0, <2>6, CutIInv DEF Break, Watchdog, AppCloses, Close
  <2>7. CASE TakeDisconnect
    <3>1. /\ queue' = [k \in Kinds |-> queue'[k]]
          /\ \A k \in Kinds \ {"disconnect"} : queue'[k] = queue[k]
      BY <2>7, PopsTypes DEF TakeDisconnect, Kinds, IInv, StateInv
    <3> QED BY <2>7, <3>1, CutIInv DEF TakeDisconnect, Pops
  <2>8. CASE Keeping
    <3>1. CASE KeepAliveEnds
      <4>1. CASE pc[KeepAlive] = "lost"
        BY <2>0, <3>1, <4>1, CutIInv DEF KeepAliveEnds, Close
      <4>2. CASE pc[KeepAlive] = "idle" /\ UNCHANGED <<ctx, link, brokerVars, history>>
        <5>1. KeepAlive \in Askers /\ KeepAlive \notin Streams
          BY WireAssumption DEF Askers
        <5>2. FlowInv' /\ SessionInv' /\ Types'
          BY <3>1, <4>2, <5>1, StepIInv DEF KeepAliveEnds, PCs, IInv, StateInv, Types
        <5>3. \A s \in Streams : pc'[s] = pc[s]
          BY <3>1, <5>1 DEF KeepAliveEnds, IInv, StateInv, Types, Askers
        <5>4. BrokerInv' /\ TableInv'
          BY <3>1, <4>2, <5>3 DEF KeepAliveEnds, IInv, StateInv, Types, BrokerInv, TableInv
        <5> QED BY <5>2, <5>4 DEF IInv, StateInv
      <4> QED BY <3>1, <4>1, <4>2 DEF KeepAliveEnds
    <3> QED BY <2>8, <3>1, KeepIInv DEF Keeping
  <2>9. CASE Reading \/ Dispatch
    BY <2>9, ReadIInv
  <2>10. CASE TakeCall \/ \E k \in Kinds : Loop(k)
    BY <2>7, <2>10, LoopIInv DEF Loop
  <2>11. CASE \E s \in Streams : Asker(s) \/ Released(s)
    BY <2>11, AskIInv, ForgetIInv DEF Asker, Released
  <2>12. CASE UNCHANGED vars
    <3>1. FlowInv'
      BY <2>12, Quiet DEF vars, Active
    <3>2. StateInv'
      BY <2>12 DEF vars, IInv, StateInv, Types, SessionInv, BrokerInv, TableInv, Running, Item,
         WellFormed, Of
    <3> QED BY <3>1, <3>2 DEF IInv
  <2> QED BY <2>1, <2>2, <2>3, <2>4, <2>5, <2>6, <2>8, <2>9, <2>10, <2>11, <2>12
          DEF Next, Environment
<1> QED BY InitIInv, <1>1, PTL DEF Spec

-----------------------------------------------------------------------------
(* Whatever the broker sends to a stream reaches it, in order, or is       *)
(* dropped because the channel was full.                                   *)
THEOREM WireStreamsComplete == Spec => []StreamsComplete
<1>1. IInv => StreamsComplete
  <2> SUFFICES ASSUME IInv PROVE StreamsComplete
    OBVIOUS
  <2>1. ASSUME NEW s \in Streams, Active(s), NEW n \in 1..sentTo[s]
        PROVE  OnItsWay(Item(s), s, n) \/ Contains(chan[s], n) \/ n <= last[s] \/ n \in dropped[s]
    <3>1. Seen(s, n)
      BY <2>1 DEF IInv, FlowInv, Complete
    <3>2. n \in OnLink(s) \cup InQueue(s) => OnItsWay(Item(s), s, n)
      BY DEF OnLink, InQueue, Items, Mine, OnItsWay, ToSet
    <3>3. n \in InHand(s) => OnItsWay(Item(s), s, n)
      BY DEF InHand, Mine, OnItsWay
    <3>4. n \in InChan(s) => Contains(chan[s], n)
      <4>1. DOMAIN chan[s] = 1..Len(chan[s])
        BY DEF IInv, StateInv, Types
      <4> QED BY <4>1 DEF InChan, Values, Contains
    <3> QED BY <3>1, <3>2, <3>3, <3>4 DEF Seen, Coming
  <2>2. ASSUME NEW s \in Streams, NEW i \in DOMAIN chan[s]
        PROVE  /\ \A j \in 1..(i - 1) : chan[s][j] < chan[s][i]
               /\ last[s] < chan[s][i]
    <3>1. DOMAIN chan[s] = 1..Len(chan[s]) /\ Len(chan[s]) \in Nat
      BY DEF IInv, StateInv, Types
    <3>2. Increasing(chan[s]) /\ Between(s)
      BY DEF IInv, FlowInv, Flow
    <3>3. chan[s][i] \in Coming(s)
      BY DEF Coming, InChan, Values
    <3>4. \A j \in 1..(i - 1) : j \in DOMAIN chan[s] /\ j < i
      BY <3>1
    <3> QED BY <3>2, <3>3, <3>4 DEF Increasing, Between
  <2> QED BY <2>1, <2>2 DEF StreamsComplete, Active
<1> QED BY WireInvariant, <1>1, PTL

=============================================================================
