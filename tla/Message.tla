------------------------------ MODULE Message ------------------------------
(***************************************************************************)
(* The library's messages (package message): the structs and their fields. *)
(* A struct is a record; a message and a kind of metadata have the name of *)
(* their type as `kind`.  Durations and times are in ticks; names, tokens  *)
(* and payloads are strings, and so are the enumerators.  A list or a map  *)
(* that is nil is the empty one.                                           *)
(***************************************************************************)
EXTENDS Integers, Sequences

CONSTANTS
  Malformed,   \* the error of a conversion (errors.ErrMalformedMessage)
  Never,       \* the zero time.Time
  UUIDs,       \* the ids: 16 bytes each
  Aliases,     \* the keys of the maps: uint32
  Width        \* 2^64: int64 and uint64 are taken modulo Width

\* A nil pointer or interface: a record unlike any struct.
Nil == [nil |-> TRUE]

\* Extension fields of a type that has none.
Plain == {Nil, <<>>}

-----------------------------------------------------------------------------
(* The parts of messages.                                                   *)

ErrorCodes ==
  {"IncompatibleVersion", "MaximumDataIDAlias", "MaximumUpstreamAlias", "UnspecifiedError",
   "NoNodeID", "AuthFailed", "ConnectTimeout", "MalformedMessage", "ProtocolError",
   "AckTimeout", "InvalidPayload", "InvalidDataID", "InvalidDataIDAlias",
   "InvalidDataFilter", "StreamNotFound", "ResumeRequestConflict", "ProcessFailed",
   "DesiredQosNotSupported", "PingTimeout", "TooLargeMessageSize",
   "TooManyDataIDAliases", "TooManyStreams", "TooLongAckInterval",
   "TooManyDownstreamFilters", "TooManyDataFilters", "TooLongExpiryInterval",
   "TooLongPingTimeout", "TooShortPingInterval", "TooShortPingTimeout",
   "NodeIDMismatch", "RateLimitReached", "SessionNotFound", "SessionAlreadyClosed",
   "SessionCannotClosed", "InvalidResumeToken"}

\* result_code.go and qos.go; "Unset" and "Invalid" are any other numbers.
ResultCode == {"Unset", "Succeeded", "NormalClosure"} \cup ErrorCodes
QoS == {"Unreliable", "Reliable", "Partial", "Invalid"}
Duration == Nat
Time == Int \cup {Never}

DataID == [Name : STRING, Type : STRING]
DataFilter == [Name : STRING, Type : STRING]
DownstreamFilter == [SourceNodeID : STRING, DataFilters : Seq(DataFilter)]
DownstreamFilterReference == [DownstreamFilterIndex : Nat, DataFilterIndex : Nat]

\* A group that the library writes has an id.
DataIDOrAlias == DataID \cup [DataIDAlias : Nat]
DataPoint == [ElapsedTime : Int, Payload : STRING]
DataPointGroup == [DataIDOrAlias : DataIDOrAlias, DataPoints : Seq(DataPoint)]
StreamChunk == [SequenceNumber : Nat, DataPointGroups : Seq(DataPointGroup)]

UpstreamInfo == [SessionID : STRING, SourceNodeID : STRING, StreamID : UUIDs]
UpstreamOrAlias == UpstreamInfo \cup [UpstreamAlias : Nat]

UpstreamChunkResult ==
  [SequenceNumber : Nat, ResultCode : ResultCode, ResultString : STRING, ExtensionFields : Plain]
DownstreamChunkResult ==
  [StreamIDOfUpstream : UUIDs, SequenceNumberInUpstream : Nat, ResultCode : ResultCode,
   ResultString : STRING, ExtensionFields : Plain]

IntdashExtensionFields == [ProjectUUID : UUIDs]
ConnectRequestExtensionFields == [AccessToken : STRING, Intdash : {Nil} \cup IntdashExtensionFields]
Persists == {Nil} \cup [Persist : BOOLEAN]
CloseSessions == {Nil} \cup [CloseSession : BOOLEAN]

-----------------------------------------------------------------------------
(* Metadata.                                                                *)

BaseTime ==
  [kind : {"BaseTime"}, SessionID : STRING, Name : STRING, Priority : Nat,
   ElapsedTime : -(Width \div 2)..(Width \div 2 - 1), BaseTime : Int]

StartedUpstream(kind) == [kind : {kind}, StreamID : UUIDs, SessionID : STRING, QoS : QoS]
StartedDownstream(kind) ==
  [kind : {kind}, StreamID : UUIDs, DownstreamFilters : Seq(DownstreamFilter), QoS : QoS]
EndedDownstream(kind) == [kind : {kind}, StreamID : UUIDs]

UpstreamAbnormalClose == [kind : {"UpstreamAbnormalClose"}, StreamID : UUIDs, SessionID : STRING]
UpstreamNormalClose ==
  [kind : {"UpstreamNormalClose"}, StreamID : UUIDs, SessionID : STRING, TotalDataPoints : Nat,
   FinalSequenceNumber : Nat]

SendableMetadata == BaseTime
Metadata ==
  BaseTime
  \cup StartedUpstream("UpstreamOpen") \cup StartedUpstream("UpstreamResume")
  \cup UpstreamAbnormalClose \cup UpstreamNormalClose
  \cup StartedDownstream("DownstreamOpen") \cup StartedDownstream("DownstreamResume")
  \cup EndedDownstream("DownstreamAbnormalClose") \cup EndedDownstream("DownstreamNormalClose")

-----------------------------------------------------------------------------
(* The messages.                                                            *)

RequestID == Nat

ConnectRequest ==
  [kind : {"ConnectRequest"}, RequestID : RequestID, ProtocolVersion : STRING, NodeID : STRING,
   PingInterval : Duration, PingTimeout : Duration,
   ExtensionFields : {Nil} \cup ConnectRequestExtensionFields]
ConnectResponse ==
  [kind : {"ConnectResponse"}, RequestID : RequestID, ProtocolVersion : STRING,
   ResultCode : ResultCode, ResultString : STRING, ExtensionFields : Plain]
Disconnect ==
  [kind : {"Disconnect"}, ResultCode : ResultCode, ResultString : STRING, ExtensionFields : Plain]

UpstreamOpenRequest ==
  [kind : {"UpstreamOpenRequest"}, RequestID : RequestID, SessionID : STRING,
   AckInterval : Duration, ExpiryInterval : Duration, DataIDs : Seq(DataID), QoS : QoS,
   ExtensionFields : Persists]
UpstreamOpenResponse(A) ==
  [kind : {"UpstreamOpenResponse"}, RequestID : RequestID, AssignedStreamID : UUIDs,
   AssignedStreamIDAlias : Nat, ResultCode : ResultCode, ResultString : STRING, ServerTime : Time,
   DataIDAliases : [A -> DataID], ExtensionFields : Plain, ResumeToken : STRING]
UpstreamResumeRequest ==
  [kind : {"UpstreamResumeRequest"}, RequestID : RequestID, StreamID : UUIDs,
   ExtensionFields : Plain, ResumeToken : STRING]
UpstreamResumeResponse ==
  [kind : {"UpstreamResumeResponse"}, RequestID : RequestID, AssignedStreamIDAlias : Nat,
   ResultCode : ResultCode, ResultString : STRING, ExtensionFields : Plain, ResumeToken : STRING]
UpstreamCloseRequest ==
  [kind : {"UpstreamCloseRequest"}, RequestID : RequestID, StreamID : UUIDs,
   TotalDataPoints : Nat, FinalSequenceNumber : Nat, ExtensionFields : CloseSessions]

DownstreamOpenRequest(A) ==
  [kind : {"DownstreamOpenRequest"}, RequestID : RequestID, DesiredStreamIDAlias : Nat,
   DownstreamFilters : Seq(DownstreamFilter), ExpiryInterval : Duration,
   DataIDAliases : [A -> DataID], QoS : QoS, ExtensionFields : Plain, OmitEmptyChunk : BOOLEAN]
DownstreamOpenResponse ==
  [kind : {"DownstreamOpenResponse"}, RequestID : RequestID, AssignedStreamID : UUIDs,
   ResultCode : ResultCode, ResultString : STRING, ServerTime : Time, ExtensionFields : Plain,
   ResumeToken : STRING]
DownstreamResumeRequest ==
  [kind : {"DownstreamResumeRequest"}, RequestID : RequestID, StreamID : UUIDs,
   DesiredStreamIDAlias : Nat, ExtensionFields : Plain, ResumeToken : STRING]
DownstreamResumeResponse ==
  [kind : {"DownstreamResumeResponse"}, RequestID : RequestID, ResultCode : ResultCode,
   ResultString : STRING, ExtensionFields : Plain, ResumeToken : STRING]
DownstreamCloseRequest ==
  [kind : {"DownstreamCloseRequest"}, RequestID : RequestID, StreamID : UUIDs,
   ExtensionFields : Plain]

\* UpstreamCloseResponse, DownstreamCloseResponse, UpstreamMetadataAck and
\* DownstreamMetadataAck have the same fields.
Answer(kind) ==
  [kind : {kind}, RequestID : RequestID, ResultCode : ResultCode, ResultString : STRING,
   ExtensionFields : Plain]

UpstreamCall ==
  [kind : {"UpstreamCall"}, CallID : STRING, RequestCallID : STRING, DestinationNodeID : STRING,
   Name : STRING, Type : STRING, Payload : STRING, ExtensionFields : Plain]
UpstreamCallAck ==
  [kind : {"UpstreamCallAck"}, CallID : STRING, ResultCode : ResultCode, ResultString : STRING,
   ExtensionFields : Plain]
DownstreamCall ==
  [kind : {"DownstreamCall"}, CallID : STRING, RequestCallID : STRING, SourceNodeID : STRING,
   Name : STRING, Type : STRING, Payload : STRING, ExtensionFields : Plain]
Ping == [kind : {"Ping"}, RequestID : RequestID, ExtensionFields : Plain]
Pong == [kind : {"Pong"}, RequestID : RequestID, ExtensionFields : Plain]

UpstreamChunk ==
  [kind : {"UpstreamChunk"}, StreamIDAlias : Nat, DataIDs : Seq(DataID),
   StreamChunk : {Nil} \cup StreamChunk, ExtensionFields : Plain]
UpstreamChunkAck(A) ==
  [kind : {"UpstreamChunkAck"}, StreamIDAlias : Nat, Results : Seq(UpstreamChunkResult),
   DataIDAliases : [A -> DataID], ExtensionFields : Plain]
DownstreamChunk ==
  [kind : {"DownstreamChunk"}, StreamIDAlias : Nat, UpstreamOrAlias : {Nil} \cup UpstreamOrAlias,
   StreamChunk : {Nil} \cup StreamChunk, ExtensionFields : Plain,
   DownstreamFilterReferences : Seq(Seq(DownstreamFilterReference))]
DownstreamChunkAck(A, B) ==
  [kind : {"DownstreamChunkAck"}, StreamIDAlias : Nat, AckID : Nat,
   Results : Seq(DownstreamChunkResult), UpstreamAliases : [B -> UpstreamInfo],
   DataIDAliases : [A -> DataID], ExtensionFields : Plain]
DownstreamChunkAckComplete ==
  [kind : {"DownstreamChunkAckComplete"}, StreamIDAlias : Nat, AckID : Nat,
   ResultCode : ResultCode, ResultString : STRING, ExtensionFields : Plain]

UpstreamMetadata ==
  [kind : {"UpstreamMetadata"}, RequestID : RequestID, Metadata : {Nil} \cup SendableMetadata,
   ExtensionFields : Persists]
DownstreamMetadata ==
  [kind : {"DownstreamMetadata"}, RequestID : RequestID, StreamIDAlias : Nat,
   SourceNodeID : STRING, Metadata : {Nil} \cup Metadata, ExtensionFields : Plain]

\* The messages whose maps have the keys A (ids of data) and B (upstreams).
Message(A, B) ==
  ConnectRequest \cup ConnectResponse \cup Disconnect
  \cup UpstreamOpenRequest \cup UpstreamOpenResponse(A) \cup UpstreamResumeRequest
  \cup UpstreamResumeResponse \cup UpstreamCloseRequest \cup Answer("UpstreamCloseResponse")
  \cup DownstreamOpenRequest(A) \cup DownstreamOpenResponse \cup DownstreamResumeRequest
  \cup DownstreamResumeResponse \cup DownstreamCloseRequest \cup Answer("DownstreamCloseResponse")
  \cup UpstreamCall \cup UpstreamCallAck \cup DownstreamCall \cup Ping \cup Pong
  \cup UpstreamChunk \cup UpstreamChunkAck(A) \cup DownstreamChunk \cup DownstreamChunkAck(A, B)
  \cup DownstreamChunkAckComplete
  \cup UpstreamMetadata \cup DownstreamMetadata
  \cup Answer("UpstreamMetadataAck") \cup Answer("DownstreamMetadataAck")

IsMessage(m) == \E A, B \in SUBSET Aliases : m \in Message(A, B)

=============================================================================
