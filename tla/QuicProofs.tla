----------------------------- MODULE QuicProofs -----------------------------
(***************************************************************************)
(* Proofs about Quic for any number of messages of any length, written in  *)
(* any order, and queues of any capacity.                                  *)
(***************************************************************************)
EXTENDS Quic, FiniteSetTheorems, TLAPS

-----------------------------------------------------------------------------
(* The stream.                                                              *)

(* The types of what the stream's part is about.                           *)
StreamTypes ==
  /\ writing \in [Frames -> {"idle", "header", "body", "done", "failed"}]
  /\ stream \in Seq({"length", "body"} \X Frames)
  /\ sequence \in Seq(Frames)
  /\ taker \in [doing : {"header", "body", "giving", "ended"}, with : Frames \cup {Nil, Error}]
  /\ readC \in Seq(Frames \cup {Error})
  /\ read \in Seq(Frames \cup {Error})

(* One writer at a time is between its length and its body, and it is the  *)
(* one that wrote the last length.                                         *)
WriterInv ==
  /\ \A m, k \in Frames : {writing[m], writing[k]} \subseteq {"header", "body"} => m = k
  /\ \A m \in Frames : writing[m] = "body" => sequence # <<>> /\ m = sequence[Len(sequence)]

(* The messages given to readC, and the lengths and bodies the reader has  *)
(* taken off the stream for them and for the one it is at.                 *)
Given == Len(read) + Len(readC)
Taken == 2 * Given + (CASE taker.doing = "header" -> 0
                        [] taker.doing = "body"   -> 1
                        [] OTHER                  -> 2)

(* What is written but for the body of the last message.                   *)
Owed == IF \E m \in Frames : writing[m] = "body" THEN 1 ELSE 0

(* s is what follows the first t lengths and bodies of the messages of q.  *)
Laid(s, q, t) ==
  \A i \in 1..Len(q), j \in 1..Len(s) :
    /\ j + t = 2 * i - 1 => s[j] = <<"length", q[i]>>
    /\ j + t = 2 * i     => s[j] = <<"body", q[i]>>

(* While the reader reads, what it has taken and what is on the stream are *)
(* the lengths and the bodies of the sequence, one after the other.        *)
InStep ==
  /\ conn = "up" => Taken + Len(stream) = 2 * Len(sequence) - Owed
  /\ Taken + Len(stream) \in {2 * Len(sequence) - 1, 2 * Len(sequence)}
  /\ Laid(stream, sequence, Taken)
  /\ taker.doing # "header" => taker.with = sequence[Given + 1]
  /\ Given <= Len(sequence)

StreamInv ==
  /\ taker.doing \in {"header", "body"} \/ (taker.doing = "giving" /\ taker.with # Error) => InStep
  /\ taker.doing \in {"body", "giving"} => taker.with # Nil

(* Nothing follows an error.                                               *)
ReadInv ==
  LET out == read \o readC
  IN  \A i \in 1..Len(out) :
        \/ i <= Len(sequence) /\ out[i] = sequence[i]
        \/ out[i] = Error /\ i = Len(out) /\ taker.doing = "ended"

FrameInv == StreamTypes /\ WriterInv /\ StreamInv /\ ReadInv

-----------------------------------------------------------------------------
(* The datagrams.                                                           *)

(* The messages that have a sequence number of their own.                  *)
Started == {m \in Datagrams : sending[m] # "idle" /\ number # -1}

Segment(m, i) == [seq |-> seqNum[m], max |-> MaxIndex(m), idx |-> i, payload |-> <<m, i>>]

(* The types of what the datagrams' part is about.                         *)
DatagramTypes ==
  /\ number \in Int /\ number >= -1
  /\ sending \in [Datagrams -> {"idle", "sending", "done", "failed"}]
  /\ seqNum \in [Datagrams -> Nat]
  /\ segIdx \in [Datagrams -> Nat]
  /\ buffers = [n \in Numbers |-> buffers[n]]
  /\ receiver = Doing(receiver.doing, receiver.with)
  /\ receiver.doing \in {"receiving", "giving", "ended"}
  /\ unreliableC \in Seq({Segments(m) : m \in Datagrams} \cup {Error})
  /\ got \in Seq({Segments(m) : m \in Datagrams} \cup {Error})

NumberInv ==
  /\ number + 1 = Cardinality(Started)
  /\ number = -1 => \/ \A m \in Datagrams : sending[m] = "done"
                    \/ \A m \in Datagrams : sending[m] = "idle"
  /\ \A m \in Started : seqNum[m] \in 0..number
  /\ \A m, k \in Started : seqNum[m] = seqNum[k] => m = k
  /\ \A m \in Datagrams : sending[m] \in {"idle", "sending"} => segIdx[m] <= MaxIndex(m)
  /\ \A m \in Datagrams : sending[m] = "idle" => segIdx[m] = 0
  /\ \A m \in Datagrams : sending[m] = "sending" => MaxIndex(m) <= MaxUint16

(* A segment of m that may have been sent.                                 *)
Past(m, i) == i \in 0..MaxIndex(m) /\ (sending[m] = "sending" => i < segIdx[m])

NetInv ==
  \A d \in net : \E m \in Started : \E i \in 0..MaxIndex(m) :
    d = Segment(m, i) /\ Past(m, i) /\ MaxIndex(m) <= MaxUint16

(* A buffer of m has some of m's segments, each in its place and none of   *)
(* them still on its way, has counted them, and lacks one.                 *)
Filled(b) == {i \in DOMAIN b.slots : b.slots[i] # Nil}

Holds(b, m) ==
  /\ b = [count |-> Cardinality(Filled(b)), slots |-> b.slots]
  /\ b.slots = [i \in DOMAIN Fresh(MaxIndex(m)).slots |-> b.slots[i]]
  /\ \A i \in Filled(b) : b.slots[i] = <<m, i>> /\ Past(m, i) /\ Segment(m, i) \notin net
  /\ DOMAIN b.slots # {} => Filled(b) # DOMAIN b.slots

BufferInv ==
  \A n \in Numbers : buffers[n] # Nil =>
    \E m \in Started : seqNum[m] = n /\ Holds(buffers[n], m)

(* m has come out of its buffer: then nothing of it is left anywhere.      *)
CameOut(m) ==
  \/ \E i \in DOMAIN (got \o unreliableC) : (got \o unreliableC)[i] = Segments(m)
  \/ receiver = Doing("giving", Segments(m))

OutInv ==
  \A m \in Datagrams : CameOut(m) =>
    /\ m \in Started
    /\ sending[m] # "sending"
    /\ \A i \in 0..MaxIndex(m) : Segment(m, i) \notin net
    /\ buffers[seqNum[m]] = Nil

GivenInv ==
  LET out == got \o unreliableC
  IN  /\ \A i, j \in 1..Len(out) : out[i] = out[j] => i = j
      /\ \A i \in 1..Len(out) : out[i] = Error => i = Len(out) /\ receiver.doing = "ended"
      /\ receiver.doing = "giving" =>
           /\ receiver.with = Error \/ \E m \in Datagrams : receiver.with = Segments(m)
           /\ \A i \in 1..Len(out) : out[i] # receiver.with

DatagramInv == DatagramTypes /\ NumberInv /\ NetInv /\ BufferInv /\ OutInv /\ GivenInv

IInv == conn \in {"up", "lost", "closed"} /\ FrameInv /\ DatagramInv

-----------------------------------------------------------------------------
(* Sequences.                                                               *)

(* Appending to the second of two sequences appends to both of them, ...   *)
LEMMA AppendRight ==
  ASSUME NEW T, NEW s \in Seq(T), NEW t \in Seq(T), NEW x \in T
  PROVE  s \o Append(t, x) = Append(s \o t, x)
OBVIOUS

(* the head of one may go to the end of the other, ...                     *)
LEMMA MoveOver ==
  ASSUME NEW T, NEW s \in Seq(T), NEW t \in Seq(T), t # <<>>
  PROVE  /\ Append(s, Head(t)) \o Tail(t) = s \o t
         /\ Append(s, Head(t)) \in Seq(T) /\ Tail(t) \in Seq(T)
         /\ Len(Append(s, Head(t))) + Len(Tail(t)) = Len(s) + Len(t)
OBVIOUS

(* and what a tail and an Append hold.                                     *)
LEMMA TailElements ==
  ASSUME NEW T, NEW s \in Seq(T), s # <<>>
  PROVE  /\ Tail(s) \in Seq(T) /\ Head(s) = s[1] /\ Head(s) \in T
         /\ Len(Tail(s)) = Len(s) - 1
         /\ \A i \in 1..Len(Tail(s)) : Tail(s)[i] = s[i + 1]
OBVIOUS

LEMMA AppendElements ==
  ASSUME NEW T, NEW s \in Seq(T), NEW x \in T
  PROVE  /\ Append(s, x) \in Seq(T)
         /\ Len(Append(s, x)) = Len(s) + 1
         /\ \A i \in 1..Len(s) : Append(s, x)[i] = s[i]
         /\ Append(s, x)[Len(s) + 1] = x
OBVIOUS

(* Writing and reading keep to the order of lengths and bodies.            *)
LEMMA LaidLength ==
  ASSUME NEW M, NEW s \in Seq({"length", "body"} \X M), NEW q \in Seq(M), NEW t \in Nat, NEW x \in M,
         Laid(s, q, t), t + Len(s) = 2 * Len(q)
  PROVE  Laid(Append(s, <<"length", x>>), Append(q, x), t)
<1> DEFINE s2 == Append(s, <<"length", x>>)
           q2 == Append(q, x)
<1>1. /\ Len(s2) = Len(s) + 1 /\ Len(s) \in Nat
      /\ \A j \in 1..Len(s) : s2[j] = s[j]
      /\ s2[Len(s) + 1] = <<"length", x>>
  OBVIOUS
<1>2. /\ Len(q2) = Len(q) + 1 /\ Len(q) \in Nat
      /\ \A j \in 1..Len(q) : q2[j] = q[j]
      /\ q2[Len(q) + 1] = x
  OBVIOUS
<1> HIDE DEF s2, q2
<1>3. ASSUME NEW i \in 1..Len(q2), NEW j \in 1..Len(s2)
      PROVE  /\ j + t = 2 * i - 1 => s2[j] = <<"length", q2[i]>>
             /\ j + t = 2 * i     => s2[j] = <<"body", q2[i]>>
  <2>1. CASE j = Len(s) + 1
    BY <1>1, <1>2, <2>1
  <2>2. CASE j \in 1..Len(s)
    <3>1. j + t <= 2 * Len(q)
      BY <1>1, <1>2, <2>2
    <3>2. CASE i \in 1..Len(q)
      BY <1>1, <1>2, <2>2, <3>2 DEF Laid
    <3>3. CASE i = Len(q) + 1
      BY <1>1, <1>2, <2>2, <3>1, <3>3
    <3>4. i \in 1..Len(q) \/ i = Len(q) + 1
      BY <1>2
    <3> QED BY <3>2, <3>3, <3>4
  <2> QED BY <1>1, <2>1, <2>2
<1> QED BY <1>3 DEF Laid, s2, q2

(* the body of the last message, ...                                       *)
LEMMA LaidBody ==
  ASSUME NEW M, NEW s \in Seq({"length", "body"} \X M), NEW q \in Seq(M), NEW t \in Nat, q # <<>>,
         Laid(s, q, t), t + Len(s) = 2 * Len(q) - 1
  PROVE  Laid(Append(s, <<"body", q[Len(q)]>>), q, t)
<1> DEFINE s2 == Append(s, <<"body", q[Len(q)]>>)
<1>1. /\ Len(s2) = Len(s) + 1 /\ Len(s) \in Nat /\ Len(q) \in Nat
      /\ \A j \in 1..Len(s) : s2[j] = s[j]
      /\ s2[Len(s) + 1] = <<"body", q[Len(q)]>>
  OBVIOUS
<1> HIDE DEF s2
<1>2. ASSUME NEW i \in 1..Len(q), NEW j \in 1..Len(s2)
      PROVE  /\ j + t = 2 * i - 1 => s2[j] = <<"length", q[i]>>
             /\ j + t = 2 * i     => s2[j] = <<"body", q[i]>>
  <2>1. CASE j = Len(s) + 1
    BY <1>1, <2>1
  <2>2. CASE j \in 1..Len(s)
    BY <1>1, <2>2 DEF Laid
  <2> QED BY <1>1, <2>1, <2>2
<1> QED BY <1>2 DEF Laid, s2

(* and what the reader takes.                                              *)
LEMMA LaidTail ==
  ASSUME NEW M, NEW s \in Seq({"length", "body"} \X M), NEW q \in Seq(M), NEW t \in Nat, s # <<>>,
         Laid(s, q, t)
  PROVE  Laid(Tail(s), q, t + 1)
<1>1. /\ Len(Tail(s)) = Len(s) - 1 /\ Len(s) \in Nat
      /\ \A j \in 1..Len(Tail(s)) : Tail(s)[j] = s[j + 1]
  BY TailElements
<1>2. ASSUME NEW i \in 1..Len(q), NEW j \in 1..Len(Tail(s))
      PROVE  /\ j + (t + 1) = 2 * i - 1 => Tail(s)[j] = <<"length", q[i]>>
             /\ j + (t + 1) = 2 * i     => Tail(s)[j] = <<"body", q[i]>>
  <2>1. j + 1 \in 1..Len(s) /\ (j + 1) + t = j + (t + 1)
    BY <1>1
  <2> QED BY <1>1, <2>1 DEF Laid
<1> QED BY <1>2 DEF Laid

-----------------------------------------------------------------------------
(* The actions of the stream.                                               *)

(* The datagrams' actions leave the stream alone; at most they close the   *)
(* connection.                                                              *)
LEMMA StreamQuiet ==
  ASSUME FrameInv, UNCHANGED streamVars, conn' = "up" => conn = "up"
  PROVE  FrameInv'
<1>1. StreamTypes' /\ WriterInv' /\ ReadInv'
  BY DEF FrameInv, streamVars, StreamTypes, WriterInv, ReadInv
<1>2. StreamInv'
  BY DEF FrameInv, streamVars, StreamInv, InStep, Taken, Given, Owed
<1> QED BY <1>1, <1>2 DEF FrameInv

(* A writer that begins is the only one between its length and its body.   *)
LEMMA WriteBeginFrames ==
  ASSUME FrameInv, NEW m \in Frames, WriteBegin(m)
  PROVE  FrameInv'
<1> USE DEF WriteBegin, Writes, WriteFrame
<1>1. StreamTypes'
  BY DEF FrameInv, StreamTypes
<1>2. WriterInv'
  BY DEF FrameInv, StreamTypes, WriterInv
<1>3. \A k \in Frames : writing'[k] = "body" <=> writing[k] = "body"
  BY DEF FrameInv, StreamTypes
<1>4. StreamInv'
  BY <1>3 DEF FrameInv, StreamInv, InStep, Taken, Given, Owed
<1>5. ReadInv'
  BY DEF FrameInv, ReadInv
<1> QED BY <1>1, <1>2, <1>4, <1>5 DEF FrameInv

(* A length starts a message at the end of the sequence.                   *)
LEMMA WriteHeaderFrames ==
  ASSUME FrameInv, conn \in {"up", "lost", "closed"}, NEW m \in Frames, WriteHeader(m)
  PROVE  FrameInv'
<1> USE DEF WriteHeader, Writes, WriteFrame
<1>0. StreamTypes
  BY DEF FrameInv
<1>a. CASE conn = "up" /\ Writes(m, "body") /\ stream' = Append(stream, <<"length", m>>)
           /\ sequence' = Append(sequence, m)
  <2>1. StreamTypes'
    BY <1>0, <1>a DEF StreamTypes
  <2>2. /\ Len(sequence') = Len(sequence) + 1 /\ Len(stream') = Len(stream) + 1
        /\ \A i \in 1..Len(sequence) : sequence'[i] = sequence[i]
        /\ sequence'[Len(sequence) + 1] = m
        /\ \A i \in 1..Len(stream) : stream'[i] = stream[i]
        /\ stream'[Len(stream) + 1] = <<"length", m>>
        /\ Len(sequence) \in Nat /\ Len(stream) \in Nat
    BY <1>0, <1>a DEF StreamTypes
  <2>3. WriterInv'
    BY <1>0, <1>a, <2>2 DEF FrameInv, StreamTypes, WriterInv
  <2>4. Owed = 0 /\ Owed' = 1
    BY <1>0, <1>a DEF FrameInv, StreamTypes, WriterInv, Owed
  <2>5. Given \in Nat /\ Given' = Given /\ Taken \in Nat /\ Taken' = Taken
    BY <1>0, <1>a DEF StreamTypes, Given, Taken
  <2>6. StreamInv'
    <3>1. ASSUME InStep, taker.doing # "header" => Given < Len(sequence)
          PROVE  InStep'
      <4>1. Taken + Len(stream) = 2 * Len(sequence)
        BY <1>a, <2>2, <2>4, <2>5, <3>1 DEF InStep
      <4>2. Taken' + Len(stream') = 2 * Len(sequence') - 1 /\ Given' <= Len(sequence')
        BY <2>2, <2>5, <3>1, <4>1 DEF InStep
      <4>3. taker'.doing # "header" => taker'.with = sequence'[Given' + 1]
        BY <2>2, <2>5, <3>1 DEF InStep
      <4>4. Laid(stream', sequence', Taken')
        BY <1>0, <1>a, <2>5, <3>1, <4>1, LaidLength DEF InStep, StreamTypes
      <4> QED BY <2>4, <4>2, <4>3, <4>4 DEF InStep
    <3>2. InStep /\ taker.doing \in {"body", "giving"} => Given < Len(sequence)
      BY <2>2, <2>4, <2>5, <1>a DEF InStep, Taken
    <3> QED BY <1>0, <1>a, <3>1, <3>2 DEF FrameInv, StreamTypes, StreamInv
  <2>7. ReadInv'
    <3> DEFINE out == read \o readC
    <3>1. Len(out) \in Nat
      BY <1>0 DEF StreamTypes
    <3>2. out' = out /\ taker' = taker
      OBVIOUS
    <3> HIDE DEF WriteHeader, out
    <3> QED BY <2>2, <3>1, <3>2 DEF FrameInv, ReadInv, out
  <2> QED BY <2>1, <2>3, <2>6, <2>7 DEF FrameInv
<1>b. CASE conn # "up" /\ Writes(m, "failed") /\ UNCHANGED <<stream, sequence>>
  <2>1. StreamTypes' /\ WriterInv' /\ ReadInv'
    BY <1>b DEF FrameInv, StreamTypes, WriterInv, ReadInv
  <2>2. StreamInv'
    BY <1>b DEF FrameInv, StreamInv, InStep, Taken, Given
  <2> QED BY <2>1, <2>2 DEF FrameInv
<1> QED BY <1>a, <1>b

(* The body is written after its own length.                               *)
LEMMA WriteBodyFrames ==
  ASSUME FrameInv, NEW m \in Frames, WriteBody(m)
  PROVE  FrameInv'
<1> USE DEF WriteBody, Writes, WriteFrame
<1>0. StreamTypes
  BY DEF FrameInv
<1>1. WriterInv' /\ ReadInv'
  BY DEF FrameInv, StreamTypes, WriterInv, ReadInv
<1>a. CASE conn = "up" /\ Writes(m, "done") /\ stream' = Append(stream, <<"body", m>>)
  <2>1. StreamTypes'
    BY <1>0, <1>a DEF StreamTypes
  <2>2. /\ Len(stream') = Len(stream) + 1
        /\ \A i \in 1..Len(stream) : stream'[i] = stream[i]
        /\ stream'[Len(stream) + 1] = <<"body", m>>
        /\ Len(sequence) \in Nat /\ Len(stream) \in Nat
    BY <1>0, <1>a DEF StreamTypes
  <2>3. Owed = 1 /\ Owed' = 0 /\ m = sequence[Len(sequence)]
    BY <1>0, <1>a DEF FrameInv, StreamTypes, WriterInv, Owed
  <2>4. Given \in Nat /\ Given' = Given /\ Taken \in Nat /\ Taken' = Taken
    BY <1>0, <1>a DEF StreamTypes, Given, Taken
  <2>5. ASSUME InStep
        PROVE  InStep'
    <3>1. Taken + Len(stream) = 2 * Len(sequence) - 1
      BY <1>a, <2>3, <2>5 DEF InStep
    <3>2. Taken' + Len(stream') = 2 * Len(sequence)
      BY <2>2, <2>4, <3>1
    <3>3. Laid(stream', sequence, Taken')
      BY <1>0, <1>a, <2>3, <2>4, <2>5, <3>1, LaidBody DEF InStep, StreamTypes, FrameInv, WriterInv
    <3>4. /\ taker'.doing # "header" => taker'.with = sequence'[Given' + 1]
          /\ Given' <= Len(sequence')
      BY <2>4, <2>5 DEF InStep
    <3> QED BY <2>2, <2>3, <3>2, <3>3, <3>4 DEF InStep
  <2>6. StreamInv'
    BY <1>a, <2>5 DEF FrameInv, StreamInv
  <2> QED BY <1>1, <2>1, <2>6 DEF FrameInv
<1>b. CASE conn # "up" /\ Writes(m, "failed") /\ UNCHANGED stream
  <2>1. StreamTypes'
    BY <1>b DEF FrameInv, StreamTypes
  <2>2. StreamInv'
    BY <1>b DEF FrameInv, StreamInv, InStep, Taken, Given
  <2> QED BY <1>1, <2>1, <2>2 DEF FrameInv
<1> QED BY <1>a, <1>b

(* The reader learns of the message whose body comes next, ...             *)
LEMMA TakeHeaderFrames ==
  ASSUME FrameInv, TakeHeader
  PROVE  FrameInv'
<1> USE DEF TakeHeader, TakeFrame, Doing
<1>0. StreamTypes /\ InStep
  BY DEF FrameInv, StreamInv
<1>1. /\ Len(stream') = Len(stream) - 1 /\ Len(stream) \in Nat /\ Len(stream) > 0
      /\ \A i \in 1..Len(stream') : stream'[i] = stream[i + 1]
      /\ Head(stream) = stream[1] /\ stream[1] \in {"length", "body"} \X Frames
      /\ stream' \in Seq({"length", "body"} \X Frames)
      /\ Len(sequence) \in Nat
  BY <1>0, TailElements DEF StreamTypes
<1>2. StreamTypes'
  BY <1>0, <1>1 DEF StreamTypes
<1>3. /\ Given \in Nat /\ Given' = Given /\ Taken = 2 * Given /\ Taken' = 2 * Given + 1
      /\ Owed' = Owed /\ Owed \in {0, 1}
  BY <1>0 DEF StreamTypes, Given, Taken, Owed
<1>4. Given + 1 \in 1..Len(sequence) /\ stream[1] = <<"length", sequence[Given + 1]>>
  <2>1. Given + 1 \in 1..Len(sequence)
    BY <1>0, <1>1, <1>3 DEF InStep
  <2>2. 1 + Taken = 2 * (Given + 1) - 1 /\ 1 \in 1..Len(stream)
    BY <1>1, <1>3
  <2> QED BY <1>0, <1>1, <2>1, <2>2 DEF InStep, Laid
<1>5. InStep'
  <2>1. taker'.with = sequence[Given + 1]
    BY <1>1, <1>4
  <2>2. Taken' + Len(stream') = Taken + Len(stream)
    BY <1>1, <1>3
  <2>3. Laid(stream', sequence, Taken')
    <3>1. Taken' = Taken + 1 /\ Taken \in Nat
      BY <1>3
    <3> QED BY <1>0, <3>1, LaidTail DEF InStep, StreamTypes
  <2> QED BY <1>0, <1>3, <1>4, <2>1, <2>2, <2>3 DEF InStep
<1>6. WriterInv' /\ ReadInv' /\ taker'.with # Nil
  BY <1>1, QuicAssumption DEF FrameInv, WriterInv, ReadInv
<1> QED BY <1>2, <1>5, <1>6 DEF FrameInv, StreamInv

(* finds that body, ...                                                    *)
LEMMA TakeBodyFrames ==
  ASSUME FrameInv, TakeBody
  PROVE  FrameInv'
<1> USE DEF TakeBody, TakeFrame, Doing
<1>0. StreamTypes /\ InStep
  BY DEF FrameInv, StreamInv
<1>1. /\ Len(stream') = Len(stream) - 1 /\ Len(stream) \in Nat /\ Len(stream) > 0
      /\ \A i \in 1..Len(stream') : stream'[i] = stream[i + 1]
      /\ Head(stream) = stream[1]
      /\ stream' \in Seq({"length", "body"} \X Frames)
      /\ Len(sequence) \in Nat
  BY <1>0, TailElements DEF StreamTypes
<1>2. /\ Given \in Nat /\ Given' = Given /\ Taken = 2 * Given + 1 /\ Taken' = 2 * Given + 2
      /\ Owed' = Owed /\ Owed \in {0, 1}
  BY <1>0 DEF StreamTypes, Given, Taken, Owed
<1>3. Given + 1 \in 1..Len(sequence) /\ stream[1] = <<"body", sequence[Given + 1]>>
  <2>1. Given + 1 \in 1..Len(sequence)
    BY <1>0, <1>1, <1>2 DEF InStep
  <2>2. 1 + Taken = 2 * (Given + 1) /\ 1 \in 1..Len(stream)
    BY <1>1, <1>2
  <2> QED BY <1>0, <1>1, <2>1, <2>2 DEF InStep, Laid
<1>4. taker' = Doing("giving", taker.with) /\ taker.with = sequence[Given + 1] /\ taker.with \in Frames
  BY <1>0, <1>1, <1>3 DEF InStep, StreamTypes
<1>5. StreamTypes'
  BY <1>0, <1>1, <1>4 DEF StreamTypes
<1>6. InStep'
  <2>1. Taken' + Len(stream') = Taken + Len(stream)
    BY <1>1, <1>2
  <2>2. Laid(stream', sequence, Taken')
    <3>1. Taken' = Taken + 1 /\ Taken \in Nat
      BY <1>2
    <3> QED BY <1>0, <3>1, LaidTail DEF InStep, StreamTypes
  <2>3. UNCHANGED sequence /\ (conn' = "up" => conn = "up")
    OBVIOUS
  <2> HIDE DEF TakeBody
  <2> QED BY <1>0, <1>1, <1>2, <1>3, <1>4, <2>1, <2>2, <2>3 DEF InStep
<1>7. WriterInv' /\ ReadInv' /\ taker'.with # Nil
  BY <1>4, QuicAssumption DEF FrameInv, WriterInv, ReadInv
<1> QED BY <1>5, <1>6, <1>7 DEF FrameInv, StreamInv

(* or gives up.                                                            *)
LEMMA TakeFailsFrames ==
  ASSUME FrameInv, TakeFails
  PROVE  FrameInv'
<1> USE DEF TakeFails, TakeFrame, Doing
<1>1. StreamTypes' /\ WriterInv' /\ ReadInv'
  BY DEF FrameInv, StreamTypes, WriterInv, ReadInv
<1>2. StreamInv'
  BY QuicAssumption DEF StreamInv
<1> QED BY <1>1, <1>2 DEF FrameInv

(* What is given is the next message of the sequence, or the last of all. *)
LEMMA TakeGivesFrames ==
  ASSUME FrameInv, TakeGives
  PROVE  FrameInv'
<1> USE DEF TakeGives, TakeFrame, Doing
<1>0. StreamTypes
  BY DEF FrameInv
<1>1. taker.with \in Frames \cup {Error}
  BY <1>0 DEF FrameInv, StreamTypes, StreamInv
<1>2. Len(read) \in Nat /\ Len(readC) \in Nat /\ Len(sequence) \in Nat /\ Len(stream) \in Nat
  BY <1>0 DEF StreamTypes
<1>3. WriterInv'
  BY DEF FrameInv, WriterInv
<1>a. CASE readC' = Append(readC, taker.with)
  <2>1. readC' # readC /\ readC' \in Seq(Frames \cup {Error}) /\ Len(readC') = Len(readC) + 1
    BY <1>0, <1>1, <1>a, AppendElements DEF StreamTypes
  <2>2. StreamTypes'
    BY <1>0, <2>1 DEF StreamTypes
  <2> DEFINE out == read \o readC
  <2>3. /\ out \in Seq(Frames \cup {Error}) /\ Len(out) = Given /\ Given \in Nat
        /\ out' = Append(out, taker.with) /\ Given' = Given + 1
    BY <1>0, <1>1, <1>2, <1>a, <2>1, AppendRight DEF StreamTypes, Given
  <2>4. /\ Len(out') = Len(out) + 1 /\ out'[Len(out) + 1] = taker.with
        /\ \A i \in 1..Len(out) : out'[i] = out[i]
    BY <1>1, <2>3, AppendElements
  <2> HIDE DEF out
  <2>5. \A i \in 1..Len(out) : i <= Len(sequence) /\ out[i] = sequence[i]
    BY <1>0 DEF FrameInv, ReadInv, out
  <2>b. CASE taker.with = Error
    <3>1. taker'.doing = "ended" /\ sequence' = sequence
      BY <2>b
    <3>a. ASSUME NEW i \in 1..Len(out')
          PROVE  \/ i <= Len(sequence) /\ out'[i] = sequence[i]
                 \/ out'[i] = Error /\ i = Len(out')
      <4>1. i \in 1..Len(out) \/ i = Len(out) + 1
        BY <2>3, <2>4
      <4> QED BY <2>b, <2>4, <2>5, <4>1
    <3>b. ReadInv'
      BY <3>1, <3>a DEF ReadInv, out
    <3>2. StreamInv'
      BY <2>b DEF StreamInv
    <3> QED BY <1>3, <2>2, <3>b, <3>2 DEF FrameInv
  <2>c. CASE taker.with # Error
    <3>1. InStep
      BY <2>c DEF FrameInv, StreamInv
    <3>2. taker' = Doing("header", Nil)
      BY <2>c, <2>1
    <3>3. Taken = 2 * Given + 2 /\ Taken' = Taken /\ Owed' = Owed /\ Owed \in {0, 1}
      BY <2>3, <3>2 DEF Taken, Owed
    <3>4. Given + 1 <= Len(sequence) /\ taker.with = sequence[Given + 1]
      BY <1>2, <2>3, <3>1, <3>3 DEF InStep
    <3>5. InStep'
      BY <1>2, <2>3, <3>1, <3>2, <3>3, <3>4 DEF InStep
    <3>6. ReadInv'
      BY <1>2, <2>3, <2>4, <2>5, <3>4 DEF ReadInv, out
    <3>7. StreamInv'
      BY <3>2, <3>5 DEF StreamInv
    <3> QED BY <1>3, <2>2, <3>6, <3>7 DEF FrameInv
  <2> QED BY <2>b, <2>c
<1>b. CASE UNCHANGED readC
  <2>1. taker' = Doing("ended", Nil)
    BY <1>b
  <2>2. StreamTypes' /\ StreamInv' /\ ReadInv'
    BY <1>b, <2>1 DEF FrameInv, StreamTypes, StreamInv, ReadInv
  <2> QED BY <1>3, <2>2 DEF FrameInv
<1> QED BY <1>a, <1>b

(* Read moves a message from the queue to what has been read.              *)
LEMMA ReadFrames ==
  ASSUME FrameInv, Read
  PROVE  FrameInv'
<1> USE DEF Read, TakeFrame
<1>0. StreamTypes
  BY DEF FrameInv
<1>1. /\ read' \o readC' = read \o readC
      /\ read' \in Seq(Frames \cup {Error}) /\ readC' \in Seq(Frames \cup {Error})
      /\ Given' = Given
  BY <1>0, MoveOver DEF StreamTypes, Given
<1>2. StreamTypes' /\ WriterInv' /\ ReadInv'
  BY <1>1 DEF FrameInv, StreamTypes, WriterInv, ReadInv
<1>3. StreamInv'
  BY <1>1 DEF FrameInv, StreamInv, InStep, Taken, Owed
<1> QED BY <1>2, <1>3 DEF FrameInv

-----------------------------------------------------------------------------
(* Segments, sequence numbers and buffers.                                  *)

(* A message has at least one segment.                                     *)
LEMMA MaxIndexType ==
  ASSUME NEW m \in Datagrams
  PROVE  MaxIndex(m) \in Nat
<1>1. Length[m] \in Nat /\ MaxPayload \in Nat \ {0}
  BY QuicAssumption
<1>2. \A a \in Nat, b \in Nat \ {0} : a \div b \in Nat
  OBVIOUS
<1> QED BY <1>1, <1>2 DEF MaxIndex

(* A buffer has a place for every segment, but for a message of the        *)
(* greatest index, whose buffer has none.                                   *)
LEMMA FreshSlots ==
  ASSUME NEW m \in Datagrams, MaxIndex(m) <= MaxUint16
  PROVE  /\ DOMAIN Fresh(MaxIndex(m)).slots = IF MaxIndex(m) = MaxUint16 THEN {} ELSE 0..MaxIndex(m)
         /\ IsFiniteSet(DOMAIN Fresh(MaxIndex(m)).slots)
<1> DEFINE k == MaxIndex(m)
<1>1. k \in Nat /\ MaxUint16 \in Nat \ {0}
  BY MaxIndexType, QuicAssumption
<1>2. \A a \in Nat, b \in Nat : a < b => a % b = a
  OBVIOUS
<1>3. \A b \in Nat \ {0} : b % b = 0
  OBVIOUS
<1>4. (k + 1) % (MaxUint16 + 1) = IF k = MaxUint16 THEN 0 ELSE k + 1
  <2>1. CASE k = MaxUint16
    BY <1>1, <1>3, <2>1
  <2>2. CASE k # MaxUint16
    <3>1. k + 1 \in Nat /\ MaxUint16 + 1 \in Nat /\ k + 1 < MaxUint16 + 1
      BY <1>1, <2>2
    <3> QED BY <1>2, <2>2, <3>1
  <2> QED BY <2>1, <2>2
<1> HIDE DEF k
<1>5. DOMAIN Fresh(k).slots = 0..(((k + 1) % (MaxUint16 + 1)) - 1)
  BY DEF Fresh
<1>6. DOMAIN Fresh(k).slots = IF k = MaxUint16 THEN {} ELSE 0..k
  <2>1. CASE k = MaxUint16
    BY <1>4, <1>5, <2>1
  <2>2. CASE k # MaxUint16
    BY <1>1, <1>4, <1>5, <2>2
  <2> QED BY <2>1, <2>2
<1>7. IsFiniteSet(0..k) /\ IsFiniteSet({})
  BY <1>1, FS_Interval, FS_EmptySet
<1> QED BY <1>6, <1>7 DEF k

(* A new buffer is empty.                                                  *)
LEMMA FreshHolds ==
  ASSUME NEW m \in Datagrams
  PROVE  Holds(Fresh(MaxIndex(m)), m)
<1> DEFINE b == Fresh(MaxIndex(m))
<1>1. Filled(b) = {} /\ b.count = 0
  BY DEF Fresh, Filled
<1> QED BY <1>1, FS_EmptySet DEF Holds, Fresh, Filled

(* Segments tell what message they are of.                                 *)
LEMMA SegmentsDiffer ==
  ASSUME NEW m \in Datagrams, NEW k \in Datagrams, Segments(m) = Segments(k)
  PROVE  m = k
<1>1. MaxIndex(m) \in Nat /\ MaxIndex(k) \in Nat
  BY MaxIndexType
<1>2. Segments(m)[0] = <<m, 0>> /\ Segments(k)[0] = <<k, 0>>
  BY <1>1 DEF Segments
<1> QED BY <1>2

(* The messages that are started have numbers that a buffer can have.      *)
LEMMA StartedNumbers ==
  ASSUME DatagramTypes, NumberInv
  PROVE  /\ IsFiniteSet(Started)
         /\ \A m \in Started : m \in Datagrams /\ seqNum[m] \in Numbers
<1>1. Started \subseteq Datagrams
  BY DEF Started
<1>2. IsFiniteSet(Started) /\ Cardinality(Started) <= Cardinality(Datagrams)
  BY <1>1, QuicAssumption, FS_Subset
<1>3. Cardinality(Datagrams) \in Nat
  BY QuicAssumption, FS_CardinalityType
<1> QED BY <1>1, <1>2, <1>3 DEF DatagramTypes, NumberInv, Numbers

(* A buffer that is left alone still holds its message, if nothing of it   *)
(* comes back onto the network.                                             *)
LEMMA BufferKept ==
  ASSUME BufferInv, NEW n \in Numbers, buffers'[n] = buffers[n],
         \A m \in Started : m \in Started' /\ seqNum'[m] = seqNum[m],
         \A m \in Started : \A i \in 0..MaxIndex(m) :
           Past(m, i) /\ Segment(m, i) \notin net => Past(m, i)' /\ Segment(m, i)' \notin net'
  PROVE  buffers'[n] # Nil =>
           \E m \in Started' : seqNum'[m] = n /\ Holds(buffers[n], m)'
<1> SUFFICES ASSUME buffers'[n] # Nil
             PROVE  \E m \in Started' : seqNum'[m] = n /\ Holds(buffers[n], m)'
  OBVIOUS
<1>1. PICK m \in Started : seqNum[m] = n /\ Holds(buffers[n], m)
  BY DEF BufferInv
<1>2. \A i \in Filled(buffers[n]) :
        buffers[n].slots[i] = <<m, i>> /\ Past(m, i) /\ Segment(m, i) \notin net
  BY <1>1 DEF Holds
<1>3. \A i \in Filled(buffers[n]) : Past(m, i)' /\ Segment(m, i)' \notin net'
  BY <1>2 DEF Past
<1>4. Holds(buffers[n], m)'
  BY <1>1, <1>2, <1>3 DEF Holds, Filled
<1> QED BY <1>1, <1>4

-----------------------------------------------------------------------------
(* The actions of the datagrams.                                            *)

(* Datagrams may be lost and buffers removed.                              *)
LEMMA DatagramsFewer ==
  ASSUME DatagramInv, UNCHANGED <<number, sending, seqNum, segIdx, receiver, unreliableC, got>>,
         net' \subseteq net, buffers' = [n \in Numbers |-> buffers'[n]],
         \A n \in Numbers : buffers'[n] \in {buffers[n], Nil}
  PROVE  DatagramInv'
<1>1. DatagramTypes' /\ NumberInv' /\ NetInv' /\ GivenInv'
  BY DEF DatagramInv, DatagramTypes, NumberInv, NetInv, GivenInv, Started, Past, Segment
<1>2. BufferInv'
  <2>1. \A m \in Started : m \in Started' /\ seqNum'[m] = seqNum[m]
    BY DEF Started
  <2>2. \A m \in Started : \A i \in 0..MaxIndex(m) :
          Past(m, i) /\ Segment(m, i) \notin net => Past(m, i)' /\ Segment(m, i)' \notin net'
    BY DEF Past, Segment
  <2>3. ASSUME NEW n \in Numbers, buffers'[n] # Nil
        PROVE  \E m \in Started' : seqNum'[m] = n /\ Holds(buffers[n], m)'
    BY <2>1, <2>2, <2>3, BufferKept DEF DatagramInv
  <2> QED BY <2>3 DEF BufferInv
<1>3. OutInv'
  <2>1. ASSUME NEW m \in Datagrams, CameOut(m)'
        PROVE  /\ m \in Started'
               /\ sending'[m] # "sending"
               /\ \A i \in 0..MaxIndex(m) : Segment(m, i)' \notin net'
               /\ buffers'[seqNum'[m]] = Nil
    <3>1. CameOut(m)
      BY <2>1 DEF CameOut
    <3>2. seqNum[m] \in Numbers
      BY <3>1, StartedNumbers DEF DatagramInv, OutInv
    <3> QED BY <3>1, <3>2 DEF DatagramInv, OutInv, Started, Segment
  <2> QED BY <2>1 DEF OutInv
<1> QED BY <1>1, <1>2, <1>3 DEF DatagramInv

(* A message gets a number that no other one has, ...                      *)
LEMMA SendBeginDatagrams ==
  ASSUME DatagramInv, NEW m \in Datagrams, SendBegin(m)
  PROVE  DatagramInv'
<1> USE DEF SendBegin, Starts, SendFrame, bufferVars
<1>0. DatagramTypes /\ NumberInv
  BY DEF DatagramInv
<1>1. m \notin Started /\ Started' = Started \cup {m}
  BY <1>0 DEF DatagramTypes, NumberInv, Started
<1>2. Cardinality(Started') = Cardinality(Started) + 1
  BY <1>0, <1>1, StartedNumbers, FS_AddElement
<1>3. DatagramTypes'
  BY <1>0 DEF DatagramTypes
<1>4. \A k \in Started : k # m /\ seqNum'[k] = seqNum[k] /\ seqNum'[k] # number'
                         /\ seqNum'[k] \in 0..number /\ sending'[k] = sending[k]
  BY <1>0, <1>1 DEF DatagramTypes, NumberInv, Started
<1>5. NumberInv'
  <2>1. seqNum'[m] = number' /\ number' = number + 1 /\ number \in Int /\ number >= -1
        /\ sending'[m] \in {"sending", "failed"} /\ segIdx[m] = 0 /\ MaxIndex(m) \in Nat
    BY <1>0, MaxIndexType DEF DatagramTypes, NumberInv
  <2>2. number' + 1 = Cardinality(Started') /\ number' # -1
    BY <1>0, <1>2, <2>1 DEF NumberInv
  <2>3. \A k \in Started' : seqNum'[k] \in 0..number'
    BY <1>1, <1>4, <2>1
  <2>4. \A k, l \in Started' : seqNum'[k] = seqNum'[l] => k = l
    BY <1>0, <1>1, <1>4, <2>1 DEF NumberInv
  <2>5. \A k \in Datagrams : k # m => sending'[k] = sending[k]
    BY <1>0 DEF DatagramTypes
  <2>6. sending'[m] = "sending" => MaxIndex(m) <= MaxUint16
    BY <1>0, MaxIndexType, QuicAssumption DEF DatagramTypes
  <2>7. /\ \A k \in Datagrams : sending'[k] \in {"idle", "sending"} => segIdx'[k] <= MaxIndex(k)
        /\ \A k \in Datagrams : sending'[k] = "idle" => segIdx'[k] = 0
        /\ \A k \in Datagrams : sending'[k] = "sending" => MaxIndex(k) <= MaxUint16
    BY <1>0, <2>1, <2>5, <2>6 DEF NumberInv
  <2> HIDE DEF SendBegin
  <2> QED BY <2>2, <2>3, <2>4, <2>7 DEF NumberInv
<1>6. \A k \in Started : \A i : Segment(k, i)' = Segment(k, i) /\ (Past(k, i)' <=> Past(k, i))
  BY <1>4 DEF Segment, Past
<1>7. NetInv'
  BY <1>1, <1>6 DEF DatagramInv, NetInv
<1>8. BufferInv'
  <2>1. ASSUME NEW n \in Numbers, buffers'[n] # Nil
        PROVE  \E k \in Started' : seqNum'[k] = n /\ Holds(buffers[n], k)'
    BY <1>1, <1>4, <1>6, <2>1, BufferKept DEF DatagramInv
  <2> QED BY <2>1 DEF BufferInv
<1>9. OutInv'
  <2>1. ASSUME NEW k \in Datagrams, CameOut(k)'
        PROVE  /\ k \in Started'
               /\ sending'[k] # "sending"
               /\ \A i \in 0..MaxIndex(k) : Segment(k, i)' \notin net'
               /\ buffers'[seqNum'[k]] = Nil
    <3>1. CameOut(k)
      BY <2>1 DEF CameOut
    <3> QED BY <1>1, <1>4, <1>6, <3>1 DEF DatagramInv, OutInv
  <2> QED BY <2>1 DEF OutInv
<1>10. GivenInv'
  BY DEF DatagramInv, GivenInv
<1> QED BY <1>3, <1>5, <1>7, <1>8, <1>9, <1>10 DEF DatagramInv

(* its segments leave in their order, each of them once, ...               *)
LEMMA SendSegmentDatagrams ==
  ASSUME DatagramInv, NEW m \in Datagrams, SendSegment(m)
  PROVE  DatagramInv'
<1> USE DEF SendSegment, SendFrame, bufferVars
<1>0. DatagramTypes /\ NumberInv
  BY DEF DatagramInv
<1>1. m \in Started /\ Started' = Started
  BY <1>0 DEF DatagramTypes, NumberInv, Started
<1>2. /\ net' = net \cup {Segment(m, segIdx[m])}
      /\ segIdx[m] \in 0..MaxIndex(m) /\ MaxIndex(m) <= MaxUint16
      /\ sending[m] = "sending"
  BY <1>0, MaxIndexType DEF DatagramTypes, NumberInv, Segment
<1>3. DatagramTypes'
  BY <1>0 DEF DatagramTypes
<1>4. \A k \in Datagrams : k # m => sending'[k] = sending[k] /\ segIdx'[k] = segIdx[k]
  BY <1>0 DEF DatagramTypes
<1>5. sending'[m] = "sending" => segIdx'[m] = segIdx[m] + 1 /\ segIdx[m] # MaxIndex(m)
  BY <1>0 DEF DatagramTypes
<1>6. sending'[m] \in {"sending", "done"}
  BY <1>0 DEF DatagramTypes
<1>7. NumberInv'
  <2>1. segIdx'[m] = segIdx[m] + 1 /\ segIdx[m] # MaxIndex(m) => segIdx'[m] <= MaxIndex(m)
    BY <1>2, MaxIndexType
  <2>2. /\ \A k \in Datagrams : sending'[k] \in {"idle", "sending"} => segIdx'[k] <= MaxIndex(k)
        /\ \A k \in Datagrams : sending'[k] = "idle" => segIdx'[k] = 0
        /\ \A k \in Datagrams : sending'[k] = "sending" => MaxIndex(k) <= MaxUint16
    BY <1>0, <1>2, <1>4, <1>5, <1>6, <2>1 DEF NumberInv
  <2>3. number' # -1
    BY <1>1 DEF Started
  <2>4. UNCHANGED <<number, seqNum>>
    OBVIOUS
  <2> HIDE DEF SendSegment
  <2> QED BY <1>0, <1>1, <2>2, <2>3, <2>4 DEF NumberInv
<1>8. \A k \in Started : \A i : Segment(k, i)' = Segment(k, i)
  BY DEF Segment
<1>9. \A k \in Started : \A i : Past(k, i) => Past(k, i)'
  <2>1. ASSUME NEW k \in Started, NEW i, Past(k, i)
        PROVE  Past(k, i)'
    <3>1. CASE k = m
      BY <1>0, <1>2, <1>5, <2>1, <3>1, MaxIndexType DEF Past, DatagramTypes
    <3>2. CASE k # m
      BY <1>4, <2>1, <3>2 DEF Past, Started
    <3> QED BY <3>1, <3>2
  <2> QED BY <2>1
<1>10. PICK j \in 0..MaxIndex(m) : j = segIdx[m]
  BY <1>2
<1>11. NetInv'
  <2>1. Past(m, j)' /\ Segment(m, j)' = Segment(m, segIdx[m])
    BY <1>1, <1>2, <1>5, <1>8, <1>10, MaxIndexType DEF Past
  <2>2. ASSUME NEW d \in net'
        PROVE  \E k \in Started' : \E i \in 0..MaxIndex(k) :
                 d = Segment(k, i)' /\ Past(k, i)' /\ MaxIndex(k) <= MaxUint16
    <3>1. CASE d \in net
      BY <1>1, <1>8, <1>9, <3>1 DEF DatagramInv, NetInv
    <3>2. CASE d = Segment(m, segIdx[m])
      BY <1>1, <1>2, <2>1, <3>2
    <3> QED BY <1>2, <3>1, <3>2
  <2> QED BY <2>2 DEF NetInv
<1>12. \A k \in Started : \A i : Past(k, i) => Segment(k, i) # Segment(m, segIdx[m])
  <2>1. ~Past(m, segIdx[m])
    BY <1>0, <1>2 DEF Past, DatagramTypes
  <2>2. ASSUME NEW k \in Started, NEW i, Segment(k, i) = Segment(m, segIdx[m])
        PROVE  k = m /\ i = segIdx[m]
    <3>1. Segment(k, i).payload = Segment(m, segIdx[m]).payload
      BY <2>2
    <3> QED BY <3>1 DEF Segment
  <2> QED BY <2>1, <2>2
<1>13. BufferInv'
  <2>1. ASSUME NEW n \in Numbers, buffers'[n] # Nil
        PROVE  \E k \in Started' : seqNum'[k] = n /\ Holds(buffers[n], k)'
    <3>1. /\ buffers'[n] = buffers[n] /\ BufferInv
          /\ \A k \in Started : k \in Started' /\ seqNum'[k] = seqNum[k]
      BY <1>1 DEF DatagramInv
    <3>2. \A k \in Started : \A i \in 0..MaxIndex(k) :
            Past(k, i) /\ Segment(k, i) \notin net => Past(k, i)' /\ Segment(k, i)' \notin net'
      BY <1>2, <1>8, <1>9, <1>12
    <3> QED BY <2>1, <3>1, <3>2, BufferKept
  <2> QED BY <2>1 DEF BufferInv
<1>14. OutInv'
  <2>1. ASSUME NEW k \in Datagrams, CameOut(k)'
        PROVE  /\ k \in Started'
               /\ sending'[k] # "sending"
               /\ \A i \in 0..MaxIndex(k) : Segment(k, i)' \notin net'
               /\ buffers'[seqNum'[k]] = Nil
    <3>1. CameOut(k)
      BY <2>1 DEF CameOut
    <3>2. k # m /\ k \in Started /\ sending[k] # "sending" /\ buffers[seqNum[k]] = Nil
          /\ \A i \in 0..MaxIndex(k) : Segment(k, i) \notin net
      BY <1>2, <3>1 DEF DatagramInv, OutInv
    <3>3. \A i \in 0..MaxIndex(k) : Past(k, i)
      BY <3>2 DEF Past
    <3>4. \A i \in 0..MaxIndex(k) : Segment(k, i)' \notin net'
      BY <1>2, <1>8, <1>12, <3>2, <3>3
    <3> QED BY <1>1, <1>4, <3>2, <3>4
  <2> QED BY <2>1 DEF OutInv
<1>15. GivenInv'
  BY DEF DatagramInv, GivenInv
<1> QED BY <1>3, <1>7, <1>11, <1>13, <1>14, <1>15 DEF DatagramInv

(* and some never leave.                                                   *)
LEMMA SendFailsDatagrams ==
  ASSUME DatagramInv, NEW m \in Datagrams, SendFails(m)
  PROVE  DatagramInv'
<1> USE DEF SendFails, SendFrame, bufferVars
<1>0. DatagramTypes /\ NumberInv
  BY DEF DatagramInv
<1>1. m \in Started /\ Started' = Started
  BY <1>0 DEF DatagramTypes, NumberInv, Started
<1>2. DatagramTypes'
  BY <1>0 DEF DatagramTypes
<1>3. /\ \A k \in Datagrams : k # m => sending'[k] = sending[k] /\ segIdx'[k] = segIdx[k]
      /\ sending'[m] = "failed"
  BY <1>0 DEF DatagramTypes
<1>4. NumberInv'
  <2>1. /\ \A k \in Datagrams : sending'[k] \in {"idle", "sending"} => segIdx'[k] <= MaxIndex(k)
        /\ \A k \in Datagrams : sending'[k] = "idle" => segIdx'[k] = 0
        /\ \A k \in Datagrams : sending'[k] = "sending" => MaxIndex(k) <= MaxUint16
    BY <1>0, <1>3 DEF NumberInv
  <2>2. number' # -1
    BY <1>1 DEF Started
  <2>3. UNCHANGED <<number, seqNum>>
    OBVIOUS
  <2> HIDE DEF SendFails
  <2> QED BY <1>0, <1>1, <2>1, <2>2, <2>3 DEF NumberInv
<1>5. \A k \in Started : \A i : Segment(k, i)' = Segment(k, i) /\ (Past(k, i) => Past(k, i)')
  BY <1>3 DEF Segment, Past, Started
<1>6. NetInv'
  BY <1>1, <1>5 DEF DatagramInv, NetInv
<1>7. BufferInv'
  <2>1. ASSUME NEW n \in Numbers, buffers'[n] # Nil
        PROVE  \E k \in Started' : seqNum'[k] = n /\ Holds(buffers[n], k)'
    BY <1>1, <1>5, <2>1, BufferKept DEF DatagramInv
  <2> QED BY <2>1 DEF BufferInv
<1>8. OutInv'
  <2>1. ASSUME NEW k \in Datagrams, CameOut(k)'
        PROVE  /\ k \in Started'
               /\ sending'[k] # "sending"
               /\ \A i \in 0..MaxIndex(k) : Segment(k, i)' \notin net'
               /\ buffers'[seqNum'[k]] = Nil
    <3>1. CameOut(k)
      BY <2>1 DEF CameOut
    <3> QED BY <1>1, <1>3, <1>5, <3>1 DEF DatagramInv, OutInv
  <2> QED BY <2>1 DEF OutInv
<1>9. GivenInv'
  BY DEF DatagramInv, GivenInv
<1> QED BY <1>2, <1>4, <1>6, <1>7, <1>8, <1>9 DEF DatagramInv

-----------------------------------------------------------------------------
(* What the reader of the datagrams does.                                   *)

(* A segment that is on its way is not in its message's buffer, and finds  *)
(* its place there, empty, if the buffer has places at all.                *)
LEMMA ArrivalHolds ==
  ASSUME NEW b, NEW m \in Datagrams, NEW i \in 0..MaxIndex(m), MaxIndex(m) <= MaxUint16,
         Holds(b, m), Past(m, i), Segment(m, i) \in net, i \in DOMAIN b.slots,
         net' = net \ {Segment(m, i)}, UNCHANGED <<sending, segIdx, seqNum>>,
         NEW c, c = Add(b, Segment(m, i))
  PROVE  /\ c # b
         /\ IF c.count = Cardinality(DOMAIN c.slots) THEN c.slots = Segments(m) ELSE Holds(c, m)'
<1>1. /\ DOMAIN b.slots = DOMAIN Fresh(MaxIndex(m)).slots
      /\ IsFiniteSet(DOMAIN b.slots) /\ DOMAIN b.slots = 0..MaxIndex(m)
  BY FreshSlots DEF Holds
<1>2. Filled(b) \subseteq DOMAIN b.slots /\ IsFiniteSet(Filled(b)) /\ i \notin Filled(b)
  BY <1>1, FS_Subset DEF Holds, Filled
<1>3. /\ c.count = b.count + 1
      /\ c.slots = [j \in DOMAIN b.slots |-> IF j = i THEN <<m, i>> ELSE b.slots[j]]
      /\ c = [count |-> c.count, slots |-> c.slots]
  <2>1. c = [count |-> b.count + 1, slots |-> [b.slots EXCEPT ![i] = <<m, i>>]]
    BY DEF Add, Segment
  <2>2. b.slots = [j \in DOMAIN Fresh(MaxIndex(m)).slots |-> b.slots[j]]
    BY DEF Holds
  <2>3. [b.slots EXCEPT ![i] = <<m, i>>]
          = [j \in DOMAIN b.slots |-> IF j = i THEN <<m, i>> ELSE b.slots[j]]
    BY <2>2
  <2> QED BY <2>1, <2>3
<1>4. <<m, i>> # Nil
  BY MaxIndexType, QuicAssumption
<1>5. DOMAIN c.slots = DOMAIN b.slots /\ Filled(c) = Filled(b) \cup {i}
  BY <1>3, <1>4 DEF Filled
<1>6. c.count = Cardinality(Filled(c)) /\ c.count # b.count
  <2>1. b.count = Cardinality(Filled(b)) /\ b.count \in Nat
    BY <1>2, FS_CardinalityType DEF Holds
  <2>2. Cardinality(Filled(b) \cup {i}) = Cardinality(Filled(b)) + 1
    BY <1>2, FS_AddElement
  <2> QED BY <1>3, <1>5, <2>1, <2>2
<1>7. \A j \in Filled(c) : c.slots[j] = <<m, j>> /\ Past(m, j)
  <2>1. \A j \in Filled(b) : b.slots[j] = <<m, j>> /\ Past(m, j)
    BY DEF Holds
  <2> QED BY <1>1, <1>2, <1>3, <1>5, <2>1
<1>8. c # b
  BY <1>6
<1>9. CASE c.count = Cardinality(DOMAIN c.slots)
  <2>1. Filled(c) = DOMAIN c.slots
    BY <1>1, <1>5, <1>6, <1>9, FS_Subset DEF Filled
  <2>2. c.slots = [j \in 0..MaxIndex(m) |-> c.slots[j]]
    BY <1>1, <1>3
  <2> QED BY <1>1, <1>5, <1>7, <1>8, <1>9, <2>1, <2>2 DEF Segments
<1>10. CASE c.count # Cardinality(DOMAIN c.slots)
  <2>1. c = [count |-> Cardinality(Filled(c)), slots |-> c.slots]
    BY <1>3, <1>6
  <2>2. c.slots = [j \in DOMAIN Fresh(MaxIndex(m)).slots |-> c.slots[j]]
    <3>1. c.slots = [j \in DOMAIN b.slots |-> c.slots[j]]
      BY <1>3
    <3> QED BY <1>1, <3>1
  <2>3. ASSUME NEW j \in Filled(c)
        PROVE  Past(m, j)' /\ Segment(m, j)' \notin net'
    <3>1. Past(m, j)' /\ Segment(m, j)' = Segment(m, j)
      BY <1>7 DEF Past, Segment
    <3>2. CASE j = i
      BY <3>1, <3>2
    <3>3. CASE j # i
      BY <1>5, <3>1, <3>3 DEF Holds
    <3> QED BY <3>2, <3>3
  <2>4. Filled(c) # DOMAIN c.slots
    BY <1>6, <1>10
  <2>5. Holds(c, m)'
    BY <1>7, <2>1, <2>2, <2>3, <2>4 DEF Holds, Filled
  <2> QED BY <1>8, <1>10, <2>5
<1> QED BY <1>9, <1>10

(* Nothing of a message that came out is left.                             *)
LEMMA ReceiveDatagrams ==
  ASSUME DatagramInv, Receive
  PROVE  DatagramInv'
<1>0. DatagramTypes /\ NumberInv /\ NetInv /\ BufferInv /\ OutInv /\ GivenInv
  BY DEF DatagramInv
<1>1. PICK d \in net :
        LET old == IF buffers[d.seq] = Nil THEN Fresh(d.max) ELSE buffers[d.seq]
            new == Add(old, d)
            built == new # old /\ new.count = Cardinality(DOMAIN new.slots)
        IN  /\ net' = net \ {d}
            /\ buffers' = [buffers EXCEPT ![d.seq] = IF built THEN Nil ELSE new]
            /\ expired' = expired \ {d.seq}
            /\ receiver' = IF built THEN Doing("giving", new.slots) ELSE receiver
  BY DEF Receive
<1>2. PICK m \in Started : \E i \in 0..MaxIndex(m) :
        d = Segment(m, i) /\ Past(m, i) /\ MaxIndex(m) <= MaxUint16
  BY <1>0 DEF NetInv
<1>3. PICK i \in 0..MaxIndex(m) : d = Segment(m, i) /\ Past(m, i) /\ MaxIndex(m) <= MaxUint16
  BY <1>2
<1>4. m \in Datagrams /\ seqNum[m] \in Numbers
  BY <1>0, StartedNumbers
<1>5. d.seq = seqNum[m] /\ d.max = MaxIndex(m) /\ d.idx = i
  BY <1>3 DEF Segment
<1>6. /\ receiver.doing = "receiving"
      /\ UNCHANGED <<number, sending, seqNum, segIdx, unreliableC, got>>
  BY DEF Receive, ReceiverFrame
<1>7. PICK old : old = IF buffers[seqNum[m]] = Nil THEN Fresh(MaxIndex(m)) ELSE buffers[seqNum[m]]
  OBVIOUS
<1>8. PICK new : new = Add(old, d)
  OBVIOUS
<1> DEFINE built == new # old /\ new.count = Cardinality(DOMAIN new.slots)
<1>9. /\ net' = net \ {d}
      /\ buffers' = [buffers EXCEPT ![seqNum[m]] = IF built THEN Nil ELSE new]
      /\ receiver' = IF built THEN Doing("giving", new.slots) ELSE receiver
  BY <1>1, <1>5, <1>7, <1>8
<1>10. Holds(old, m)
  <2>1. CASE buffers[seqNum[m]] = Nil
    BY <1>4, <1>7, <2>1, FreshHolds
  <2>2. CASE buffers[seqNum[m]] # Nil
    <3>1. PICK k \in Started : seqNum[k] = seqNum[m] /\ Holds(buffers[seqNum[m]], k)
      BY <1>0, <1>4, <2>2 DEF BufferInv
    <3>2. k = m
      BY <1>0, <3>1 DEF NumberInv
    <3> QED BY <1>7, <2>2, <3>1, <3>2
  <2> QED BY <2>1, <2>2
<1>11. IF built THEN new.slots = Segments(m) ELSE Holds(new, m)'
  <2>1. CASE i \in DOMAIN old.slots
    <3>1. /\ new # old
          /\ IF new.count = Cardinality(DOMAIN new.slots)
               THEN new.slots = Segments(m)
               ELSE Holds(new, m)'
      BY <1>3, <1>4, <1>6, <1>8, <1>9, <1>10, <2>1, ArrivalHolds
    <3> QED BY <3>1
  <2>2. CASE i \notin DOMAIN old.slots
    <3>1. new = old
      BY <1>5, <1>8, <2>2 DEF Add
    <3>2. Holds(old, m)'
      BY <1>6, <1>9, <1>10 DEF Holds, Filled, Past, Segment
    <3> QED BY <3>1, <3>2
  <2> QED BY <2>1, <2>2
<1> HIDE DEF built
<1>12. Started' = Started /\ \A k, j : Segment(k, j)' = Segment(k, j) /\ (Past(k, j)' <=> Past(k, j))
  BY <1>6 DEF Started, Segment, Past
<1>13. ~CameOut(m)
  BY <1>0, <1>3, <1>4 DEF OutInv
<1>14. /\ buffers'[seqNum[m]] = IF built THEN Nil ELSE new
       /\ \A n \in Numbers : n # seqNum[m] => buffers'[n] = buffers[n]
       /\ buffers' = [n \in Numbers |-> buffers'[n]]
  BY <1>0, <1>4, <1>9 DEF DatagramTypes
<1>15. DatagramTypes'
  BY <1>0, <1>6, <1>9, <1>14 DEF DatagramTypes, Doing
<1>16. NumberInv' /\ NetInv'
  BY <1>0, <1>6, <1>9, <1>12 DEF NumberInv, NetInv
<1>17. BufferInv'
  <2>1. ASSUME NEW n \in Numbers, buffers'[n] # Nil
        PROVE  \E k \in Started' : seqNum'[k] = n /\ Holds(buffers[n], k)'
    <3>1. CASE n = seqNum[m]
      <4>1. buffers'[n] = new /\ Holds(new, m)'
        BY <1>11, <1>14, <2>1, <3>1
      <4>2. Holds(buffers[n], m)'
        BY <4>1 DEF Holds, Filled
      <4> QED BY <1>6, <1>12, <3>1, <4>2
    <3>2. CASE n # seqNum[m]
      BY <1>0, <1>6, <1>9, <1>12, <1>14, <2>1, <3>2, BufferKept
    <3> QED BY <3>1, <3>2
  <2> QED BY <2>1 DEF BufferInv
<1>18. ASSUME NEW k \in Datagrams, CameOut(k)'
       PROVE  CameOut(k) \/ (k = m /\ built)
  <2>1. CASE built
    <3>1. receiver' = Doing("giving", Segments(m))
      BY <1>9, <1>11, <2>1
    <3> QED BY <1>4, <1>6, <1>18, <2>1, <3>1, SegmentsDiffer DEF CameOut, Doing
  <2>2. CASE ~built
    BY <1>6, <1>9, <1>18, <2>2 DEF CameOut
  <2> QED BY <2>1, <2>2
<1>19. built => sending[m] # "sending" /\ \A j \in 0..MaxIndex(m) : Segment(m, j) \notin net'
  <2> SUFFICES ASSUME built
               PROVE  sending[m] # "sending" /\ \A j \in 0..MaxIndex(m) : Segment(m, j) \notin net'
    OBVIOUS
  <2>1. new # old /\ new.slots = Segments(m)
    BY <1>11 DEF built
  <2>2. i \in DOMAIN old.slots
    BY <1>5, <1>8, <2>1 DEF Add
  <2>3. \A j \in 0..MaxIndex(m) : j = i \/ j \in Filled(old)
    <3>1. new.slots = [old.slots EXCEPT ![i] = d.payload]
      BY <1>5, <1>8, <2>2 DEF Add
    <3>2. DOMAIN old.slots = 0..MaxIndex(m)
      BY <2>1, <3>1 DEF Segments
    <3>3. ASSUME NEW j \in 0..MaxIndex(m), j # i
          PROVE  j \in Filled(old)
      <4>1. old.slots[j] = <<m, j>>
        BY <2>1, <3>1, <3>2, <3>3 DEF Segments
      <4>2. <<m, j>> # Nil
        BY <1>4, MaxIndexType, QuicAssumption
      <4> QED BY <3>2, <4>1, <4>2 DEF Filled
    <3> QED BY <3>3
  <2>4. \A j \in 0..MaxIndex(m) : Past(m, j) /\ Segment(m, j) \notin net'
    BY <1>3, <1>9, <1>10, <2>3 DEF Holds
  <2>5. sending[m] # "sending"
    <3>1. MaxIndex(m) \in 0..MaxIndex(m)
      BY <1>4, MaxIndexType
    <3> QED BY <1>0, <1>4, <2>4, <3>1, MaxIndexType DEF Past, NumberInv, DatagramTypes
  <2> QED BY <2>4, <2>5
<1>20. OutInv'
  <2>1. ASSUME NEW k \in Datagrams, CameOut(k)'
        PROVE  /\ k \in Started'
               /\ sending'[k] # "sending"
               /\ \A j \in 0..MaxIndex(k) : Segment(k, j)' \notin net'
               /\ buffers'[seqNum'[k]] = Nil
    <3>1. CASE CameOut(k)
      <4>1. k \in Started /\ k # m /\ seqNum[k] \in Numbers
        BY <1>0, <1>13, <3>1, StartedNumbers DEF OutInv
      <4>2. seqNum[k] # seqNum[m]
        BY <1>0, <4>1 DEF NumberInv
      <4> QED BY <1>0, <1>6, <1>9, <1>12, <1>14, <3>1, <4>1, <4>2 DEF OutInv
    <3>2. CASE k = m /\ built
      BY <1>6, <1>12, <1>14, <1>19, <3>2
    <3> QED BY <1>18, <2>1, <3>1, <3>2
  <2> QED BY <2>1 DEF OutInv
<1>21. GivenInv'
  <2>1. CASE built
    <3>1. receiver' = Doing("giving", Segments(m))
      BY <1>9, <1>11, <2>1
    <3>2. \A j \in 1..Len(got \o unreliableC) : (got \o unreliableC)[j] # Segments(m)
      <4>1. DOMAIN (got \o unreliableC) = 1..Len(got \o unreliableC)
        BY <1>0 DEF DatagramTypes
      <4> QED BY <1>13, <4>1 DEF CameOut
    <3>3. \A j \in 1..Len(got \o unreliableC) : (got \o unreliableC)[j] # Error
      BY <1>0, <1>6 DEF GivenInv
    <3> QED BY <1>0, <1>4, <1>6, <3>1, <3>2, <3>3 DEF GivenInv, Doing
  <2>2. CASE ~built
    BY <1>0, <1>6, <1>9, <2>2 DEF GivenInv
  <2> QED BY <2>1, <2>2
<1> QED BY <1>15, <1>16, <1>17, <1>20, <1>21 DEF DatagramInv

(* What is built is given once, and what is given came out, as long as ctx *)
(* is open.                                                                 *)
LEMMA ReceiverGivesDatagrams ==
  ASSUME DatagramInv, ReceiverGives
  PROVE  DatagramInv'
<1>0. DatagramTypes /\ NumberInv /\ NetInv /\ BufferInv /\ OutInv /\ GivenInv
  BY DEF DatagramInv
<1>1. /\ receiver.doing = "giving"
      /\ UNCHANGED <<number, sending, seqNum, segIdx, net, buffers, got>>
  BY DEF ReceiverGives, ReceiverFrame
<1> DEFINE T == {Segments(m) : m \in Datagrams} \cup {Error}
           out == got \o unreliableC
           x == receiver.with
<1>2. x \in T /\ got \in Seq(T) /\ unreliableC \in Seq(T)
  BY <1>0, <1>1 DEF GivenInv, DatagramTypes
<1>3. /\ out \in Seq(T) /\ Len(out) \in Nat
      /\ DOMAIN out = 1..Len(out)
  BY <1>2
<1>4. Started' = Started /\ \A k, j : Segment(k, j)' = Segment(k, j) /\ (Past(k, j)' <=> Past(k, j))
  BY <1>1 DEF Started, Segment, Past
<1>5. NumberInv' /\ NetInv' /\ BufferInv'
  <2>1. NumberInv' /\ NetInv'
    BY <1>0, <1>1, <1>4 DEF NumberInv, NetInv
  <2>2. ASSUME NEW n \in Numbers, buffers'[n] # Nil
        PROVE  \E k \in Started' : seqNum'[k] = n /\ Holds(buffers[n], k)'
    BY <1>0, <1>1, <1>4, <2>2, BufferKept
  <2> QED BY <2>1, <2>2 DEF BufferInv
<1>6. CASE /\ unreliableC' = Append(unreliableC, x)
           /\ receiver' = Doing(IF x = Error THEN "ended" ELSE "receiving", Nil)
  <2>1. out' = Append(out, x)
    BY <1>1, <1>2, <1>6, AppendRight
  <2>2. /\ Len(out') = Len(out) + 1 /\ DOMAIN out' = 1..(Len(out) + 1)
        /\ \A i \in 1..Len(out) : out'[i] = out[i]
        /\ out'[Len(out) + 1] = x
        /\ unreliableC' \in Seq(T)
    BY <1>2, <1>3, <1>6, <2>1, AppendElements
  <2> HIDE DEF T, out
  <2>3. DatagramTypes'
    BY <1>0, <1>1, <1>6, <2>2 DEF DatagramTypes, Doing, T
  <2>4. \A m \in Datagrams : CameOut(m)' => CameOut(m)
    <3>1. ASSUME NEW m \in Datagrams, CameOut(m)'
          PROVE  CameOut(m)
      <4>1. receiver' # Doing("giving", Segments(m))
        BY <1>6 DEF Doing
      <4>2. PICK i \in DOMAIN out' : out'[i] = Segments(m)
        BY <3>1, <4>1 DEF CameOut, out
      <4>3. CASE i = Len(out) + 1
        BY <1>0, <1>1, <2>2, <4>2, <4>3 DEF CameOut, DatagramTypes
      <4>4. CASE i \in 1..Len(out)
        BY <1>3, <2>2, <4>2, <4>4 DEF CameOut, out
      <4> QED BY <1>3, <2>2, <4>3, <4>4
    <3> QED BY <3>1
  <2>5. OutInv'
    BY <1>0, <1>1, <1>4, <2>4 DEF OutInv
  <2>6. /\ \A i \in 1..Len(out) : out[i] # x /\ out[i] # Error
        /\ \A i, j \in 1..Len(out) : out[i] = out[j] => i = j
    BY <1>0, <1>1 DEF GivenInv, out
  <2>7. /\ \A i, j \in 1..Len(out') : out'[i] = out'[j] => i = j
        /\ \A i \in 1..Len(out') : out'[i] = Error => i = Len(out') /\ receiver'.doing = "ended"
    <3>1. ASSUME NEW i \in 1..Len(out'), NEW j \in 1..Len(out'), out'[i] = out'[j]
          PROVE  i = j
      BY <1>3, <2>2, <2>6, <3>1
    <3>2. ASSUME NEW i \in 1..Len(out'), out'[i] = Error
          PROVE  i = Len(out') /\ receiver'.doing = "ended"
      <4>1. i = Len(out) + 1
        BY <1>3, <2>2, <2>6, <3>2
      <4> QED BY <1>6, <2>2, <3>2, <4>1 DEF Doing
    <3> QED BY <3>1, <3>2
  <2>8. receiver'.doing # "giving"
    BY <1>6 DEF Doing
  <2>9. GivenInv'
    BY <2>7, <2>8 DEF GivenInv, out
  <2> QED BY <1>5, <2>3, <2>5, <2>9 DEF DatagramInv
<1>7. CASE unreliableC' = unreliableC /\ receiver' = Doing("ended", Nil)
  <2>1. DatagramTypes'
    BY <1>0, <1>1, <1>7 DEF DatagramTypes, Doing
  <2>2. \A m \in Datagrams : CameOut(m)' => CameOut(m)
    BY <1>1, <1>7 DEF CameOut, Doing
  <2>3. OutInv'
    BY <1>0, <1>1, <1>4, <2>2 DEF OutInv
  <2>4. GivenInv'
    BY <1>0, <1>1, <1>7 DEF GivenInv, Doing
  <2> QED BY <1>5, <2>1, <2>3, <2>4 DEF DatagramInv
<1>8. Append(unreliableC, x) # unreliableC
  BY <1>2
<1> QED BY <1>1, <1>6, <1>7, <1>8 DEF ReceiverGives

(* datagram.Read moves a message from the queue to what was got.           *)
LEMMA ReadUnreliableDatagrams ==
  ASSUME DatagramInv, ReadUnreliable
  PROVE  DatagramInv'
<1>0. DatagramTypes /\ NumberInv /\ NetInv /\ BufferInv /\ OutInv /\ GivenInv
  BY DEF DatagramInv
<1>1. /\ UNCHANGED <<number, sending, seqNum, segIdx, net, buffers, receiver>>
      /\ unreliableC # <<>> /\ unreliableC' = Tail(unreliableC) /\ got' = Append(got, Head(unreliableC))
  BY DEF ReadUnreliable, ReceiverFrame
<1>2. /\ got' \o unreliableC' = got \o unreliableC
      /\ got' \in Seq({Segments(m) : m \in Datagrams} \cup {Error})
      /\ unreliableC' \in Seq({Segments(m) : m \in Datagrams} \cup {Error})
  BY <1>0, <1>1, MoveOver DEF DatagramTypes
<1>3. Started' = Started /\ \A k, j : Segment(k, j)' = Segment(k, j) /\ (Past(k, j)' <=> Past(k, j))
  BY <1>1 DEF Started, Segment, Past
<1>4. DatagramTypes'
  BY <1>0, <1>1, <1>2 DEF DatagramTypes
<1>5. NumberInv' /\ NetInv'
  BY <1>0, <1>1, <1>3 DEF NumberInv, NetInv
<1>6. BufferInv'
  <2>1. ASSUME NEW n \in Numbers, buffers'[n] # Nil
        PROVE  \E k \in Started' : seqNum'[k] = n /\ Holds(buffers[n], k)'
    BY <1>0, <1>1, <1>3, <2>1, BufferKept
  <2> QED BY <2>1 DEF BufferInv
<1>7. \A m \in Datagrams : CameOut(m)' => CameOut(m)
  BY <1>1, <1>2 DEF CameOut
<1>8. OutInv'
  BY <1>0, <1>1, <1>3, <1>7 DEF OutInv
<1> DEFINE out == got \o unreliableC
<1>9. GivenInv'
  <2>1. out' = out /\ receiver' = receiver
    BY <1>1, <1>2
  <2> HIDE DEF out
  <2>2. /\ \A i, j \in 1..Len(out) : out[i] = out[j] => i = j
        /\ \A i \in 1..Len(out) : out[i] = Error => i = Len(out) /\ receiver.doing = "ended"
        /\ receiver.doing = "giving" =>
             /\ receiver.with = Error \/ \E m \in Datagrams : receiver.with = Segments(m)
             /\ \A i \in 1..Len(out) : out[i] # receiver.with
    BY <1>0 DEF GivenInv, out
  <2> QED BY <2>1, <2>2 DEF GivenInv, out
<1> QED BY <1>4, <1>5, <1>6, <1>8, <1>9 DEF DatagramInv

(* An error comes after every message.                                     *)
LEMMA ReceiveFailsDatagrams ==
  ASSUME DatagramInv, ReceiveFails
  PROVE  DatagramInv'
<1>0. DatagramTypes /\ NumberInv /\ NetInv /\ BufferInv /\ OutInv /\ GivenInv
  BY DEF DatagramInv
<1>1. /\ receiver.doing = "receiving" /\ receiver' = Doing("giving", Error)
      /\ UNCHANGED <<number, sending, seqNum, segIdx, net, buffers, unreliableC, got>>
  BY DEF ReceiveFails, ReceiverFrame
<1>2. Started' = Started /\ \A k, j : Segment(k, j)' = Segment(k, j) /\ (Past(k, j)' <=> Past(k, j))
  BY <1>1 DEF Started, Segment, Past
<1>3. DatagramTypes'
  BY <1>0, <1>1 DEF DatagramTypes, Doing
<1>4. NumberInv' /\ NetInv'
  BY <1>0, <1>1, <1>2 DEF NumberInv, NetInv
<1>5. BufferInv'
  <2>1. ASSUME NEW n \in Numbers, buffers'[n] # Nil
        PROVE  \E k \in Started' : seqNum'[k] = n /\ Holds(buffers[n], k)'
    BY <1>0, <1>1, <1>2, <2>1, BufferKept
  <2> QED BY <2>1 DEF BufferInv
<1>6. \A m \in Datagrams : CameOut(m)' => CameOut(m)
  <2>1. \A m \in Datagrams : Segments(m) # Error
    BY QuicAssumption
  <2>2. \A m \in Datagrams : receiver' # Doing("giving", Segments(m))
    BY <1>1, <2>1 DEF Doing
  <2> QED BY <1>1, <2>2 DEF CameOut
<1>7. OutInv'
  BY <1>0, <1>1, <1>2, <1>6 DEF OutInv
<1>8. GivenInv'
  BY <1>0, <1>1 DEF GivenInv, Doing
<1> QED BY <1>3, <1>4, <1>5, <1>7, <1>8 DEF DatagramInv

(* The stream does not touch the datagrams.                                *)
LEMMA DatagramsQuiet ==
  ASSUME DatagramInv, UNCHANGED <<netVars, bufferVars>>
  PROVE  DatagramInv'
<1>1. UNCHANGED <<number, sending, seqNum, segIdx, receiver, unreliableC, got, net, buffers>>
  BY DEF netVars, bufferVars
<1>2. buffers' = [n \in Numbers |-> buffers'[n]]
  BY <1>1 DEF DatagramInv, DatagramTypes
<1> QED BY <1>1, <1>2, DatagramsFewer

-----------------------------------------------------------------------------
(* The invariant.                                                           *)

(* It holds at first ...                                                   *)
LEMMA QuicInit ==
  ASSUME Init
  PROVE  IInv
<1> USE DEF Init, Doing
<1>1. StreamTypes
  BY DEF StreamTypes, Uses
<1>2. WriterInv
  BY DEF WriterInv, Uses
<1>3. StreamInv
  <2>1. Given = 0 /\ Taken = 0 /\ Owed = 0
    BY DEF Given, Taken, Owed, Uses
  <2>2. Len(stream) = 0 /\ Len(sequence) = 0
    OBVIOUS
  <2>3. InStep
    BY <2>1, <2>2 DEF InStep, Laid
  <2> QED BY <2>3 DEF StreamInv
<1>4. ReadInv
  <2>1. Len(read \o readC) = 0
    OBVIOUS
  <2> QED BY <2>1 DEF ReadInv
<1>5. Started = {} /\ net = {} /\ Len(got \o unreliableC) = 0
  BY DEF Started
<1>6. DatagramTypes
  BY DEF DatagramTypes, Uses
<1>7. NumberInv
  <2>1. number + 1 = Cardinality(Started)
    BY <1>5, FS_EmptySet
  <2>2. number = -1 => \/ \A m \in Datagrams : sending[m] = "done"
                       \/ \A m \in Datagrams : sending[m] = "idle"
    BY DEF Uses
  <2>3. \A m \in Datagrams : segIdx[m] = 0 /\ segIdx[m] <= MaxIndex(m) /\ sending[m] # "sending"
    BY MaxIndexType DEF Uses
  <2> QED BY <1>5, <2>1, <2>2, <2>3 DEF NumberInv
<1>8. NetInv
  BY DEF NetInv
<1>9. BufferInv
  BY DEF BufferInv
<1>10. OutInv
  BY <1>5 DEF OutInv, CameOut
<1>11. GivenInv
  BY <1>5 DEF GivenInv
<1> QED BY <1>1, <1>2, <1>3, <1>4, <1>6, <1>7, <1>8, <1>9, <1>10, <1>11
    DEF IInv, FrameInv, DatagramInv

(* and every step keeps it.                                                *)
LEMMA QuicStep ==
  ASSUME IInv, [Next]_vars
  PROVE  IInv'
<1>0. FrameInv /\ DatagramInv /\ DatagramTypes /\ conn \in {"up", "lost", "closed"}
  BY DEF IInv, DatagramInv
<1>1. CASE UNCHANGED vars
  <2>1. FrameInv'
    BY <1>0, <1>1, StreamQuiet DEF vars
  <2>2. DatagramInv'
    BY <1>0, <1>1, DatagramsQuiet DEF vars
  <2> QED BY <1>0, <1>1, <2>1, <2>2 DEF IInv, vars
<1>2. CASE Lose \/ Close
  <2>1. /\ conn' \in {"up", "lost", "closed"} /\ (conn' = "up" => conn = "up")
        /\ UNCHANGED <<streamVars, netVars, bufferVars>>
    BY <1>0, <1>2 DEF Lose, Close
  <2> QED BY <1>0, <2>1, StreamQuiet, DatagramsQuiet DEF IInv
<1>3. CASE LoseDatagram
  <2>1. /\ UNCHANGED <<conn, streamVars, number, sending, seqNum, segIdx, bufferVars>>
        /\ net' \subseteq net
    BY <1>3 DEF LoseDatagram
  <2>2. buffers' = [n \in Numbers |-> buffers'[n]] /\ \A n \in Numbers : buffers'[n] = buffers[n]
    BY <1>0, <2>1 DEF DatagramTypes, bufferVars
  <2>3. UNCHANGED <<receiver, unreliableC, got>>
    BY <2>1 DEF bufferVars
  <2> QED BY <1>0, <2>1, <2>2, <2>3, StreamQuiet, DatagramsFewer DEF IInv
<1>4. ASSUME NEW m \in Frames, WriteBegin(m) \/ WriteHeader(m) \/ WriteBody(m)
      PROVE  IInv'
  <2>1. UNCHANGED <<conn, netVars, bufferVars>>
    BY <1>4 DEF WriteBegin, WriteHeader, WriteBody, WriteFrame
  <2>2. FrameInv'
    BY <1>0, <1>4, WriteBeginFrames, WriteHeaderFrames, WriteBodyFrames
  <2> QED BY <1>0, <2>1, <2>2, DatagramsQuiet DEF IInv
<1>5. CASE Taking \/ Read
  <2>1. UNCHANGED <<netVars, bufferVars>>
    BY <1>5 DEF Taking, TakeHeader, TakeBody, TakeFails, TakeGives, Read, TakeFrame
  <2>2. conn' \in {"up", "lost", "closed"}
    BY <1>0, <1>5 DEF Taking, TakeHeader, TakeBody, TakeFails, TakeGives, Read
  <2>3. FrameInv'
    BY <1>0, <1>5, TakeHeaderFrames, TakeBodyFrames, TakeFailsFrames, TakeGivesFrames, ReadFrames
       DEF Taking
  <2> QED BY <1>0, <2>1, <2>2, <2>3, DatagramsQuiet DEF IInv
<1>6. ASSUME NEW m \in Datagrams, SendBegin(m) \/ SendSegment(m) \/ SendFails(m)
      PROVE  IInv'
  <2>1. UNCHANGED <<conn, streamVars>>
    BY <1>6 DEF SendBegin, Starts, SendSegment, SendFails, SendFrame
  <2>2. DatagramInv'
    BY <1>0, <1>6, SendBeginDatagrams, SendSegmentDatagrams, SendFailsDatagrams
  <2> QED BY <1>0, <2>1, <2>2, StreamQuiet DEF IInv
<1>7. CASE Receiving \/ ReadUnreliable
  <2>1. /\ UNCHANGED streamVars
        /\ conn' \in {conn, "closed"}
    BY <1>7 DEF Receiving, Receive, ReceiveFails, ReceiverGives, ReadUnreliable, ReceiverFrame
  <2>2. DatagramInv'
    BY <1>0, <1>7, ReceiveDatagrams, ReceiveFailsDatagrams, ReceiverGivesDatagrams,
       ReadUnreliableDatagrams DEF Receiving
  <2> QED BY <1>0, <2>1, <2>2, StreamQuiet DEF IInv
<1>8. CASE Expires \/ RemoveExpired
  <2>1. UNCHANGED <<conn, streamVars, number, sending, seqNum, segIdx, receiver, unreliableC, got, net>>
    BY <1>8 DEF Expires, RemoveExpired, ReceiverFrame
  <2>2. /\ buffers' = [n \in Numbers |-> buffers'[n]]
        /\ \A n \in Numbers : buffers'[n] \in {buffers[n], Nil}
    BY <1>0, <1>8 DEF Expires, RemoveExpired, DatagramTypes
  <2> QED BY <1>0, <2>1, <2>2, StreamQuiet, DatagramsFewer DEF IInv
<1> QED BY <1>1, <1>2, <1>3, <1>4, <1>5, <1>6, <1>7, <1>8 DEF Next

(* An invariant holds, and it is enough for what is promised.              *)
LEMMA IntactFollows ==
  ASSUME IInv
  PROVE  MessagesIntact
<1>1. FramesIntact
  <2> DEFINE out == read \o readC
  <2>1. /\ DOMAIN out = 1..Len(out) /\ Len(out) \in Nat
        /\ DOMAIN sequence = 1..Len(sequence) /\ Len(sequence) \in Nat
    BY DEF IInv, FrameInv, StreamTypes
  <2> HIDE DEF out
  <2>2. \A i \in 1..Len(out) :
          \/ i <= Len(sequence) /\ out[i] = sequence[i]
          \/ out[i] = Error /\ i = Len(out)
    BY DEF IInv, FrameInv, ReadInv, out
  <2>3. \A i \in DOMAIN out :
          \/ i \in DOMAIN sequence /\ out[i] = sequence[i]
          \/ out[i] = Error /\ i = Len(out)
    <3> SUFFICES ASSUME NEW i \in 1..Len(out)
                 PROVE  \/ i \in DOMAIN sequence /\ out[i] = sequence[i]
                        \/ out[i] = Error /\ i = Len(out)
      BY <2>1
    <3>1. i \in Int /\ 1 <= i
      BY <2>1
    <3>2. i <= Len(sequence) => i \in DOMAIN sequence
      BY <2>1, <3>1
    <3> QED BY <2>2, <3>2
  <2> QED BY <2>3 DEF FramesIntact, out
<1>2. DatagramsIntact
  <2> DEFINE out == got \o unreliableC
             T == {Segments(m) : m \in Datagrams} \cup {Error}
  <2>1. out \in Seq(T) /\ DOMAIN out = 1..Len(out)
    BY DEF IInv, DatagramInv, DatagramTypes
  <2>2. \A i \in DOMAIN out : out[i] \in T
    BY <2>1
  <2> HIDE DEF out
  <2>3. /\ \A i, j \in 1..Len(out) : out[i] = out[j] => i = j
        /\ \A i \in 1..Len(out) : out[i] = Error => i = Len(out)
    BY DEF IInv, DatagramInv, GivenInv, out
  <2>4. \A i \in DOMAIN out :
          \/ \E m \in Datagrams : out[i] = Segments(m)
          \/ out[i] = Error /\ i = Len(out)
    BY <2>1, <2>2, <2>3
  <2>5. IsInjective(out)
    BY <2>1, <2>3 DEF IsInjective
  <2>6. ASSUME NEW n \in Numbers, NEW m \in Datagrams, buffers[n] # Nil
        PROVE  buffers[n].slots # Segments(m)
    <3> SUFFICES ASSUME buffers[n].slots = Segments(m)
                 PROVE  FALSE
      OBVIOUS
    <3>1. PICK k \in Started : Holds(buffers[n], k)
      BY <2>6 DEF IInv, DatagramInv, BufferInv
    <3>2. DOMAIN buffers[n].slots = 0..MaxIndex(m) /\ 0 \in 0..MaxIndex(m)
      BY MaxIndexType DEF Segments
    <3>3. \A i \in 0..MaxIndex(m) : buffers[n].slots[i] = <<m, i>> /\ <<m, i>> # Nil
      BY MaxIndexType, QuicAssumption DEF Segments
    <3>4. Filled(buffers[n]) = DOMAIN buffers[n].slots
      BY <3>2, <3>3 DEF Filled
    <3> QED BY <3>1, <3>2, <3>4 DEF Holds
  <2> QED BY <2>4, <2>5, <2>6 DEF DatagramsIntact, out
<1> QED BY <1>1, <1>2 DEF MessagesIntact

(* The stream and the datagrams stay as the invariant says.                *)
THEOREM QuicInvariant == Spec => []IInv
<1>1. Init => IInv
  BY QuicInit
<1>2. IInv /\ [Next]_vars => IInv'
  BY QuicStep
<1> QED BY <1>1, <1>2, PTL DEF Spec

(* What Read and datagram.Read return is what was written, each message    *)
(* whole and once, for any messages, lengths, interleavings and losses.    *)
THEOREM QuicMessagesIntact == Spec => []MessagesIntact
<1>1. IInv => MessagesIntact
  BY IntactFollows
<1> QED BY <1>1, QuicInvariant, PTL
=============================================================================
