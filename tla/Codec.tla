-------------------------------- MODULE Codec --------------------------------
(***************************************************************************)
(* encoding.Transport (encoding/main.go): messages are written to and read *)
(* from a transport through an encoding (encoding/protobuf, encoding/json; *)
(* both convert with ToProto and ToWire).  One message is on its way at a  *)
(* time.  It was written by this library, or by another implementation of  *)
(* the protocol, which may leave fields out and knows other enumerators    *)
(* and other messages.                                                     *)
(* The reader is a goroutine of the wire session that ends with the first  *)
(* error.                                                                  *)
(***************************************************************************)
EXTENDS ToWire

CONSTANT Messages    \* the messages handed to Write

ASSUME MessagesAssumption == \A m \in Messages : IsMessage(m)

VARIABLES
  sent,       \* the message written by this library, or Nil
  wire,       \* the protobuf message on the transport, or Nil
  received,   \* the message Read returned, until it is taken, or Nil
  reader,     \* the reading goroutine: "reading" or "ended"
  refused     \* the last Write returned an error

vars == <<sent, wire, received, reader, refused>>

Init ==
  /\ sent = Nil
  /\ wire = Nil
  /\ received = Nil
  /\ reader = "reading"
  /\ refused = FALSE

Idle == sent = Nil /\ wire = Nil /\ received = Nil /\ reader = "reading"

\* Write: nothing reaches the transport when the conversion fails.
Write(m) ==
  /\ Idle
  /\ LET pb == WireToProto(m) IN
       /\ refused' = (pb = Malformed)
       /\ wire' = IF pb = Malformed THEN Nil ELSE pb
       /\ sent' = IF pb = Malformed THEN Nil ELSE m
  /\ UNCHANGED <<received, reader>>

\* Read: the encoding converts back, and recovers from its panics.
Read ==
  /\ reader = "reading"
  /\ wire # Nil
  /\ LET m == ProtoToWire(wire) IN
       /\ received' = IF m = Malformed THEN Nil ELSE m
       /\ reader' = IF m = Malformed THEN "ended" ELSE "reading"
  /\ wire' = Nil
  /\ UNCHANGED <<sent, refused>>

\* The session takes the message Read returned.
Take ==
  /\ received # Nil
  /\ received' = Nil
  /\ sent' = Nil
  /\ UNCHANGED <<wire, reader, refused>>

-----------------------------------------------------------------------------
(* Another implementation writes.  A field that is left out is read as the  *)
(* default of its type.                                                     *)

Strings  == {"ProtocolVersion", "NodeId", "ResultString", "SessionId", "AssignedStreamId",
             "ResumeToken", "StreamId", "CallId", "RequestCallId", "DestinationNodeId", "Name",
             "Type", "Payload", "SourceNodeId"}
Lists    == {"DataIds", "DataIdAliases", "DownstreamFilters", "Results", "UpstreamAliases",
             "DownstreamFilterReferences"}
Pointers == {"ExtensionFields", "StreamChunk", "UpstreamOrAlias", "Metadata"}

Default(f) ==
  CASE f \in Strings -> ""
    [] f \in Lists -> <<>>
    [] f \in Pointers -> Nil
    [] f = "ResultCode" -> "SUCCEEDED"
    [] f = "Qos" -> "UNRELIABLE"
    [] f = "OmitEmptyChunk" -> FALSE
    [] OTHER -> 0

Without(r) == {[r EXCEPT ![f] = Default(f)] : f \in DOMAIN r \ {"kind"}}
WithUnknown(r) == {[r EXCEPT ![f] = "UNKNOWN"] : f \in DOMAIN r \cap {"kind", "ResultCode", "Qos"}}

\* Where a message has parts of its own, the same happens inside one of them.
Foreign(pb) ==
  Without(pb) \cup WithUnknown(pb)
  \cup (IF "Metadata" \in DOMAIN pb
        THEN {[pb EXCEPT !.Metadata = v] : v \in Without(pb.Metadata) \cup WithUnknown(pb.Metadata)}
        ELSE {})
  \cup (IF "Results" \in DOMAIN pb
        THEN UNION {{[pb EXCEPT !.Results[i] = v] : v \in WithUnknown(pb.Results[i])} :
                    i \in DOMAIN pb.Results}
        ELSE {})
  \cup (IF "StreamChunk" \in DOMAIN pb
        THEN {[pb EXCEPT !.StreamChunk.DataPointGroups[i].DataIdOrAlias = Nil] :
              i \in DOMAIN pb.StreamChunk.DataPointGroups}
        ELSE {})

ForeignWrite(m) ==
  /\ Idle
  /\ WireToProto(m) # Malformed
  /\ wire' \in Foreign(WireToProto(m))
  /\ UNCHANGED <<sent, received, reader, refused>>

Next ==
  \/ \E m \in Messages : Write(m) \/ ForeignWrite(m)
  \/ Read
  \/ Take

Spec == Init /\ [][Next]_vars

-----------------------------------------------------------------------------
(* Properties.                                                              *)

\* What the peer is to find in a field.  The protocol has seconds for the
\* intervals of a connection and of the expiry, milliseconds for the interval
\* of acks, no code of its own for a normal closure and no unset time.
AtPeer(f, v) ==
  CASE f \in {"PingInterval", "PingTimeout", "ExpiryInterval"} -> v - (v % Second)
    [] f = "AckInterval" -> v - (v % Milli)
    [] f = "ResultCode" -> IF v = "NormalClosure" THEN "Succeeded" ELSE v
    [] f = "ServerTime" -> IF v = Never THEN 0 ELSE v
    [] f = "Results" ->
         [i \in DOMAIN v |-> [v[i] EXCEPT !.ResultCode = IF @ = "NormalClosure" THEN "Succeeded" ELSE @]]
    [] f = "StreamChunk" -> IF v = Nil THEN [SequenceNumber |-> 0, DataPointGroups |-> <<>>] ELSE v
    [] OTHER -> v

\* A message that Write has accepted is read as the message it was: nothing of
\* it is lost but what the protocol can not say, and it never ends the peer's
\* reader (WireToProto and ProtoToWire agree on every kind of message).
WrittenIsUnderstood ==
  sent # Nil /\ wire = Nil => received = [f \in DOMAIN sent |-> AtPeer(f, sent[f])]

KnownCodes == {"Succeeded"} \cup ErrorCodes
QoSs == {"Unreliable", "Reliable", "Partial"}
IdFields == {"StreamID", "AssignedStreamID", "StreamIDOfUpstream", "ProjectUUID"}

\* A record whose enumerations are known and whose ids are ids.
Sound(r) ==
  \A f \in DOMAIN r :
    /\ f = "ResultCode" => r[f] \in KnownCodes
    /\ f = "QoS" => r[f] \in QoSs
    /\ f \in IdFields => r[f] \in UUIDs

\* A message with known enumerators and proper ids, all the way down, and with
\* the unions the session looks into without a further look.
WellFormed(m) ==
  /\ Sound(m)
  /\ "Results" \in DOMAIN m => \A i \in DOMAIN m.Results : Sound(m.Results[i])
  /\ "Metadata" \in DOMAIN m => m.Metadata # Nil /\ Sound(m.Metadata)
  /\ "UpstreamOrAlias" \in DOMAIN m => m.UpstreamOrAlias # Nil /\ Sound(m.UpstreamOrAlias)
  /\ "UpstreamAliases" \in DOMAIN m =>
       \A a \in DOMAIN m.UpstreamAliases : Sound(m.UpstreamAliases[a])
  /\ "StreamChunk" \in DOMAIN m =>
       /\ m.StreamChunk # Nil
       /\ \A i \in DOMAIN m.StreamChunk.DataPointGroups :
            m.StreamChunk.DataPointGroups[i].DataIDOrAlias # Nil
  /\ m.kind = "ConnectRequest" =>
       \/ m.ExtensionFields = Nil
       \/ m.ExtensionFields.Intdash = Nil
       \/ Sound(m.ExtensionFields.Intdash)

\* Whatever a peer sends, a message that reaches the session is well-formed and
\* of a kind of the protocol (every other message ends the reader).
NothingMalformedIsDelivered == received # Nil => received.kind \in Kinds /\ WellFormed(received)

==============================================================================
