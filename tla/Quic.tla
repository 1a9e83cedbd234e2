-------------------------------- MODULE Quic --------------------------------
(***************************************************************************)
(* One direction between two transport/quic Transports (webtransport has   *)
(* the same code): messages written to a stream, each a length and a body, *)
(* and messages written as datagrams, cut into segments by internal/segment*)
(* and put together again from what arrives, in whatever order.            *)
(*                                                                         *)
(* QUIC itself is the environment: a stream keeps its order, a datagram may*)
(* be lost or overtaken but not doubled, and the connection may go at any  *)
(* time.  Compression is left out: it is undone by the receiver of a whole *)
(* message.  A segment's payload is who it belongs to and its place.       *)
(***************************************************************************)
EXTENDS Integers, Sequences, FiniteSets, SequencesExt

CONSTANTS
  Frames,      \* messages for the stream, one per caller of Write
  Datagrams,   \* messages for datagrams, one per caller of datagram.Write
  Length,      \* the length of each of them
  MaxPayload,  \* maxPayloadSize
  MaxUint16,   \* the greatest index of a segment (65535 in the code)
  QueueSize,   \* capacity of readC and of readUnreliableC
  Nil,         \* no payload, no buffer, nothing to give
  Torn,        \* what decodeFrom makes of bytes that are not one message's
  Error        \* a readBinarySet with an error

\* SendTo: the greatest index of a message's segments, which starts another
\* segment where the message fills the one before.
MaxIndex(m) == IF Length[m] <= MaxPayload THEN 0 ELSE Length[m] \div MaxPayload

Segments(m) == [i \in 0..MaxIndex(m) |-> <<m, i>>]

ASSUME QuicAssumption ==
  /\ IsFiniteSet(Datagrams)
  /\ Length \in [Datagrams -> Nat]
  /\ {MaxPayload, MaxUint16, QueueSize} \subseteq Nat \ {0}
  /\ Frames \cap {Nil, Torn, Error} = {}
  /\ Error \notin {Nil} \cup {Segments(m) : m \in Datagrams}
  /\ Nil \notin Datagrams \X Nat

VARIABLES
  conn,       \* the connection: "up", "lost" or "closed" by an end of ours
  ctx,        \* the receiver's ctx: "open" or "cancelled"
  writing,    \* Write: "idle", "waiting" for sendMu, "header", "body", "done" or "failed"
  stream,     \* what is on the stream: <<"length", m>> or <<"body", m>>
  sequence,   \* the messages in the order their lengths were written
  taker,      \* the stream's reader: what it does and, after a length, whose
  readC,      \* the stream's messages for Read
  read,       \* history: the messages Read has returned
  number,     \* sequenceNumber
  sending,    \* datagram.Write: "idle", "sending", "done" or "failed"
  seqNum,     \* and the sequence number the message took
  segIdx,     \* and the segment that comes next
  net,        \* the datagrams on their way
  buffers,    \* ReadBuffer: by sequence number, [count, slots], or Nil
  expired,    \* the buffers whose ExpiredAt is over
  receiver,   \* the datagrams' reader: what it does, with a built message or Nil
  unreliableC,\* the datagrams' messages for datagram.Read
  got         \* history: the messages datagram.Read has returned

streamVars == <<writing, stream, sequence, taker, readC, read>>
netVars    == <<number, sending, seqNum, segIdx, net>>
bufferVars == <<buffers, expired, receiver, unreliableC, got>>
vars == <<conn, ctx, streamVars, netVars, bufferVars>>

\* Sequence numbers: the code starts below 0, and every message takes one.
Numbers == 0..(Cardinality(Datagrams) - 1)

Doing(what, m) == [doing |-> what, with |-> m]

\* Bound: the application writes to the stream or writes datagrams; the two
\* share nothing but the connection and ctx.
Uses ==
  \/ /\ writing = [m \in Frames |-> "idle"]
     /\ sending = [m \in Datagrams |-> "done"]
  \/ /\ writing = [m \in Frames |-> "done"]
     /\ sending = [m \in Datagrams |-> "idle"]

Init ==
  /\ Uses
  /\ conn = "up"
  /\ ctx = "open"
  /\ stream = <<>>
  /\ sequence = <<>>
  /\ taker = Doing("header", Nil)
  /\ readC = <<>>
  /\ read = <<>>
  /\ number = -1
  /\ seqNum = [m \in Datagrams |-> 0]
  /\ segIdx = [m \in Datagrams |-> 0]
  /\ net = {}
  /\ buffers = [n \in Numbers |-> Nil]
  /\ expired = {}
  /\ receiver = Doing("receiving", Nil)
  /\ unreliableC = <<>>
  /\ got = <<>>

-----------------------------------------------------------------------------
(* The connection.                                                          *)

Lose ==
  /\ conn = "up"
  /\ conn' = "lost"
  /\ UNCHANGED <<ctx, streamVars, netVars, bufferVars>>

Close ==
  /\ ctx = "open"
  /\ ctx' = "cancelled"
  /\ conn' = IF conn = "up" THEN "closed" ELSE conn
  /\ UNCHANGED <<streamVars, netVars, bufferVars>>

LoseDatagram ==
  /\ \E d \in net : net' = net \ {d}
  /\ UNCHANGED <<conn, ctx, streamVars, number, sending, seqNum, segIdx, bufferVars>>

-----------------------------------------------------------------------------
(* Write: the length and the body are two writes, under sendMu.             *)

WriteFrame == UNCHANGED <<conn, ctx, taker, readC, read, netVars, bufferVars>>

Writes(m, to) == writing' = [writing EXCEPT ![m] = to]

WriteBegin(m) ==
  /\ writing[m] = "idle"
  /\ \A k \in Frames : writing[k] \notin {"header", "body"}
  /\ Writes(m, "header")
  /\ UNCHANGED <<stream, sequence>>
  /\ WriteFrame

WriteHeader(m) ==
  /\ writing[m] = "header"
  /\ \/ conn = "up" /\ Writes(m, "body") /\ stream' = Append(stream, <<"length", m>>)
                    /\ sequence' = Append(sequence, m)
     \/ conn # "up" /\ Writes(m, "failed") /\ UNCHANGED <<stream, sequence>>
  /\ WriteFrame

WriteBody(m) ==
  /\ writing[m] = "body"
  /\ \/ conn = "up" /\ Writes(m, "done") /\ stream' = Append(stream, <<"body", m>>)
     \/ conn # "up" /\ Writes(m, "failed") /\ UNCHANGED stream
  /\ UNCHANGED sequence
  /\ WriteFrame

-----------------------------------------------------------------------------
(* The reader of the stream: decodeFrom reads a length and as many bytes.   *)

TakeFrame == UNCHANGED <<ctx, writing, sequence, netVars, bufferVars>>

TakeHeader ==
  /\ taker.doing = "header"
  /\ stream # <<>>
  /\ taker' = Doing("body", Head(stream)[2])
  /\ stream' = Tail(stream)
  /\ UNCHANGED <<conn, readC, read>>
  /\ TakeFrame

TakeBody ==
  /\ taker.doing = "body"
  /\ stream # <<>>
  /\ taker' = Doing("giving", IF Head(stream) = <<"body", taker.with>> THEN taker.with ELSE Torn)
  /\ stream' = Tail(stream)
  /\ UNCHANGED <<conn, readC, read>>
  /\ TakeFrame

\* handleError closes the connection and reports; what is left is not read.
TakeFails ==
  /\ taker.doing \in {"header", "body"}
  /\ conn # "up" \/ ctx = "cancelled"
  /\ conn' = "closed"
  /\ taker' = Doing("giving", Error)
  /\ UNCHANGED <<stream, readC, read>>
  /\ TakeFrame

TakeGives ==
  /\ taker.doing = "giving"
  /\ \/ Len(readC) < QueueSize /\ readC' = Append(readC, taker.with)
     \/ ctx = "cancelled" /\ UNCHANGED readC
  /\ taker' = Doing(IF taker.with = Error \/ readC' = readC THEN "ended" ELSE "header", Nil)
  /\ UNCHANGED <<conn, stream, read>>
  /\ TakeFrame

Read ==
  /\ readC # <<>>
  /\ readC' = Tail(readC)
  /\ read' = Append(read, Head(readC))
  /\ UNCHANGED <<conn, taker, stream>>
  /\ TakeFrame

-----------------------------------------------------------------------------
(* datagram.Write and segment.SendTo.                                       *)

SendFrame == UNCHANGED <<conn, ctx, streamVars, bufferVars>>

Starts(m, n) ==
  /\ sending[m] = "idle"
  /\ sending' = [sending EXCEPT ![m] = IF MaxIndex(m) > MaxUint16 THEN "failed" ELSE "sending"]
  /\ number' = n
  /\ seqNum' = [seqNum EXCEPT ![m] = n]
  /\ UNCHANGED <<segIdx, net>>
  /\ SendFrame

SendBegin_BugShared(m) ==
  Starts(m, IF \E k \in Datagrams : sending[k] = "sending" THEN number ELSE number + 1)

SendBegin(m) == Starts(m, number + 1)

SendSegment(m) ==
  LET last == segIdx[m] = MaxIndex(m)
  IN  /\ sending[m] = "sending"
      /\ conn = "up"
      /\ net' = net \cup {[seq |-> seqNum[m], max |-> MaxIndex(m), idx |-> segIdx[m], payload |-> <<m, segIdx[m]>>]}
      /\ segIdx' = [segIdx EXCEPT ![m] = IF last THEN 0 ELSE @ + 1]
      /\ sending' = [sending EXCEPT ![m] = IF last THEN "done" ELSE "sending"]
      /\ UNCHANGED <<number, seqNum>>
      /\ SendFrame

SendFails(m) ==
  /\ sending[m] = "sending"
  /\ conn # "up"
  /\ sending' = [sending EXCEPT ![m] = "failed"]
  /\ segIdx' = [segIdx EXCEPT ![m] = 0]
  /\ UNCHANGED <<number, seqNum, net>>
  /\ SendFrame

-----------------------------------------------------------------------------
(* segment.ReadBuffers.                                                     *)

ReceiverFrame == UNCHANGED <<ctx, streamVars, number, sending, seqNum, segIdx>>

\* The slots are numbered by a uint16 of one more than the greatest index.
Fresh(max) == [count |-> 0, slots |-> [i \in 0..(((max + 1) % (MaxUint16 + 1)) - 1) |-> Nil]]

Add(buf, d) ==
  IF d.idx \in DOMAIN buf.slots
    THEN [count |-> buf.count + 1, slots |-> [buf.slots EXCEPT ![d.idx] = d.payload]]
    ELSE buf

Receive ==
  /\ receiver.doing = "receiving"
  /\ \E d \in net :
       LET old == IF buffers[d.seq] = Nil THEN Fresh(d.max) ELSE buffers[d.seq]
           new == Add(old, d)
           built == new # old /\ new.count = Cardinality(DOMAIN new.slots)
       IN  /\ net' = net \ {d}
           /\ buffers' = [buffers EXCEPT ![d.seq] = IF built THEN Nil ELSE new]
           /\ expired' = expired \ {d.seq}
           /\ receiver' = IF built THEN Doing("giving", new.slots) ELSE receiver
  /\ UNCHANGED <<conn, unreliableC, got>>
  /\ ReceiverFrame

ReceiveFails ==
  /\ receiver.doing = "receiving"
  /\ conn # "up" \/ ctx = "cancelled"
  /\ conn' = "closed"
  /\ receiver' = Doing("giving", Error)
  /\ UNCHANGED <<net, buffers, expired, unreliableC, got>>
  /\ ReceiverFrame

ReceiverGives_BugStuck ==
  /\ receiver.doing = "giving"
  /\ Len(unreliableC) < QueueSize
  /\ unreliableC' = Append(unreliableC, receiver.with)
  /\ receiver' = Doing(IF receiver.with = Error THEN "ended" ELSE "receiving", Nil)
  /\ UNCHANGED <<conn, net, buffers, expired, got>>
  /\ ReceiverFrame

ReceiverGives ==
  /\ receiver.doing = "giving"
  /\ \/ Len(unreliableC) < QueueSize /\ unreliableC' = Append(unreliableC, receiver.with)
     \/ ctx = "cancelled" /\ UNCHANGED unreliableC
  /\ receiver' = Doing(IF receiver.with = Error \/ unreliableC' = unreliableC THEN "ended" ELSE "receiving", Nil)
  /\ UNCHANGED <<conn, net, buffers, expired, got>>
  /\ ReceiverFrame

Expires ==
  /\ \E n \in Numbers : buffers[n] # Nil /\ expired' = expired \cup {n}
  /\ UNCHANGED <<conn, net, buffers, receiver, unreliableC, got>>
  /\ ReceiverFrame

\* The clear loop ends with the transport.
RemoveExpired ==
  /\ ctx = "open"
  /\ expired # {}
  /\ buffers' = [n \in Numbers |-> IF n \in expired THEN Nil ELSE buffers[n]]
  /\ expired' = {}
  /\ UNCHANGED <<conn, net, receiver, unreliableC, got>>
  /\ ReceiverFrame

ReadUnreliable ==
  /\ unreliableC # <<>>
  /\ unreliableC' = Tail(unreliableC)
  /\ got' = Append(got, Head(unreliableC))
  /\ UNCHANGED <<conn, net, buffers, expired, receiver>>
  /\ ReceiverFrame

-----------------------------------------------------------------------------
Taking    == TakeHeader \/ TakeBody \/ TakeFails \/ TakeGives
Receiving == Receive \/ ReceiveFails \/ ReceiverGives

Next ==
  \/ Lose \/ Close \/ LoseDatagram
  \/ \E m \in Frames : WriteBegin(m) \/ WriteHeader(m) \/ WriteBody(m)
  \/ \E m \in Datagrams : SendBegin(m) \/ SendSegment(m) \/ SendFails(m)
  \/ Taking
  \/ Receiving
  \/ Read \/ ReadUnreliable
  \/ Expires \/ RemoveExpired

Spec == Init /\ [][Next]_vars

\* The two readers go on while they can; nobody has to read what they give.
FairSpec == Spec /\ WF_vars(Taking) /\ WF_vars(Receiving)

-----------------------------------------------------------------------------
(* Properties.                                                              *)

\* What Read returns is what was written, whole and in the order it was written,
\* whoever wrote at the same time, and an error after that at most.
FramesIntact ==
  LET out == read \o readC
  IN  \A i \in DOMAIN out :
        \/ i \in DOMAIN sequence /\ out[i] = sequence[i]
        \/ out[i] = Error /\ i = Len(out)

\* What comes out of the read buffers is a message that was sent, with all its
\* segments in their places, and comes out once, though segments overtake each
\* other, are lost, or come after their buffer has been removed; and no message
\* stays in its buffer when all of it is there.
DatagramsIntact ==
  LET out == got \o unreliableC
  IN  /\ \A i \in DOMAIN out :
           \/ \E m \in Datagrams : out[i] = Segments(m)
           \/ out[i] = Error /\ i = Len(out)
      /\ IsInjective(out)
      /\ \A n \in Numbers, m \in Datagrams : buffers[n] # Nil => buffers[n].slots # Segments(m)

\* No message is torn, misplaced or doubled on its way.
MessagesIntact == FramesIntact /\ DatagramsIntact

\* When the transport is closed, or the connection is lost and the application
\* reads on, both readers end, so that Read and datagram.Read do not hang.
ReadersEnd ==
  /\ ctx = "cancelled" ~> taker.doing = "ended" /\ receiver.doing = "ended"
  /\ []<>(readC = <<>>) => (conn # "up" ~> taker.doing = "ended")
  /\ []<>(unreliableC = <<>>) => (conn # "up" ~> receiver.doing = "ended")

=============================================================================
