------------------------------- MODULE ToProto -------------------------------
(***************************************************************************)
(* The conversion of the library's messages (package message) into the     *)
(* generated protobuf messages: encoding/convert/wire_to_proto.go.  It is  *)
(* written out field by field, as is the way back in ToWire, so that a     *)
(* field that is forgotten, swapped or given the wrong unit in one of the  *)
(* two shows.                                                              *)
(*                                                                         *)
(* Durations are in ticks: Milli to the millisecond, Second to the second. *)
(***************************************************************************)
EXTENDS Message

CONSTANTS
  Milli,       \* ticks in a millisecond
  Second       \* ticks in a second

ASSUME ConvertAssumption ==
  /\ Milli \in Nat \ {0}
  /\ Second \in Nat \ {0}
  /\ Second % Milli = 0
  /\ Width \in Nat \ {0}
  /\ Width % 2 = 0

\* A composite whose parts are converted is an error when one of them is.
AllOr(f) == IF \E x \in DOMAIN f : f[x] = Malformed THEN Malformed ELSE f

Each(Op(_), s) == AllOr([i \in DOMAIN s |-> Op(s[i])])

Unsigned(n) == n % Width
Signed(n)   == IF n < Width \div 2 THEN n ELSE n - Width

-----------------------------------------------------------------------------
(* Enumerations and leaves, towards protobuf.                              *)

toResultCodeProto(rc) ==
  CASE rc \in {"Succeeded", "NormalClosure"} -> "SUCCEEDED"
    [] rc \in ErrorCodes -> rc
    [] OTHER -> Malformed

toQoSProto(qos) ==
  CASE qos = "Reliable" -> "RELIABLE"
    [] qos = "Unreliable" -> "UNRELIABLE"
    [] qos = "Partial" -> "PARTIAL"
    [] OTHER -> Malformed

toDataIDProto(id) == [Name |-> id.Name, Type |-> id.Type]
toDataIDAliasesProto(aliases) == [a \in DOMAIN aliases |-> toDataIDProto(aliases[a])]
toDataIDsProto(ids) == [i \in DOMAIN ids |-> toDataIDProto(ids[i])]
toDataFiltersProto(fs) == [i \in DOMAIN fs |-> toDataIDProto(fs[i])]

toDataPointsProto(dps) ==
  [i \in DOMAIN dps |-> [ElapsedTime |-> dps[i].ElapsedTime, Payload |-> dps[i].Payload]]

toDownstreamFiltersProto(fs) ==
  [i \in DOMAIN fs |-> [SourceNodeId |-> fs[i].SourceNodeID,
                        DataFilters  |-> toDataFiltersProto(fs[i].DataFilters)]]

\* Extension fields: nil stays nil; of a struct that is there the fields of
\* its type are copied, and most types have none.  First those of the session
\* and of the requests about streams, then all of them.
StreamExtensionProto(type, in) ==
  CASE type = "UpstreamOpenRequest" -> [Persist |-> in.Persist]
    [] type = "UpstreamCloseRequest" -> [CloseSession |-> in.CloseSession]
    [] OTHER -> <<>>

ExtensionProto(type, in) ==
  CASE in = Nil -> Nil
    [] in # Nil /\ type = "UpstreamMetadata" -> [Persist |-> in.Persist]
    [] OTHER -> StreamExtensionProto(type, in)

toIntdashExtenstionFieldsProto(in) ==
  IF in = Nil THEN Nil ELSE [ProjectUuid |-> in.ProjectUUID]

toConnectRequestExtensionFieldsProto(in) ==
  IF in = Nil THEN Nil
  ELSE [AccessToken |-> in.AccessToken, Intdash |-> toIntdashExtenstionFieldsProto(in.Intdash)]

toUpstreamChunkResultProto(r) ==
  AllOr([SequenceNumber |-> r.SequenceNumber, ResultCode |-> toResultCodeProto(r.ResultCode),
         ResultString |-> r.ResultString,
         ExtensionFields |-> ExtensionProto("UpstreamChunkResult", r.ExtensionFields)])

toDownstreamChunkResultProto(r) ==
  AllOr([StreamIdOfUpstream |-> r.StreamIDOfUpstream,
         SequenceNumberInUpstream |-> r.SequenceNumberInUpstream,
         ResultCode |-> toResultCodeProto(r.ResultCode),
         ResultString |-> r.ResultString,
         ExtensionFields |-> ExtensionProto("DownstreamChunkResult", r.ExtensionFields)])

toUpstreamInfoProto(info) ==
  [SessionId |-> info.SessionID, SourceNodeId |-> info.SourceNodeID, StreamId |-> info.StreamID]

toUpstreamAliasesProto(aliases) == [a \in DOMAIN aliases |-> toUpstreamInfoProto(aliases[a])]

\* The two unions, DataIDOrAlias and UpstreamOrAlias.  A group without an id
\* is written without one: toDataIDOrAliasProto leaves it out and reports no
\* error.
toDataIDOrAliasProto(in) ==
  CASE in = Nil -> Nil
    [] "DataIDAlias" \in DOMAIN in -> [DataIdAlias |-> in.DataIDAlias]
    [] OTHER -> [DataId |-> toDataIDProto(in)]

toDataPointGroupProto(g) ==
  [DataIdOrAlias |-> toDataIDOrAliasProto(g.DataIDOrAlias),
   DataPoints |-> toDataPointsProto(g.DataPoints)]

toStreamChunkProto(c) ==
  IF c = Nil THEN [SequenceNumber |-> 0, DataPointGroups |-> <<>>]
  ELSE AllOr([SequenceNumber |-> c.SequenceNumber,
              DataPointGroups |-> Each(toDataPointGroupProto, c.DataPointGroups)])

toUpstreamOrAliasProto_BugNoDefault(u) ==
  CASE u = Nil -> Nil
    [] "UpstreamAlias" \in DOMAIN u -> [UpstreamAlias |-> u.UpstreamAlias]
    [] OTHER -> [UpstreamInfo |-> toUpstreamInfoProto(u)]

toUpstreamOrAliasProto(u) ==
  CASE u = Nil -> Malformed
    [] "UpstreamAlias" \in DOMAIN u -> [UpstreamAlias |-> u.UpstreamAlias]
    [] OTHER -> [UpstreamInfo |-> toUpstreamInfoProto(u)]

toDownstreamFilterReferencesProto(groups) ==
  [i \in DOMAIN groups |->
     [References |->
        [j \in DOMAIN groups[i] |->
           [DownstreamFilterIndex |-> groups[i][j].DownstreamFilterIndex,
            DataFilterIndex       |-> groups[i][j].DataFilterIndex]]]]

-----------------------------------------------------------------------------
(* Metadata, towards protobuf.  The kinds of a stream's opening, resuming  *)
(* and closing differ in the fields they have.                             *)

ToBaseTimeProto(v) ==
  [SessionId |-> v.SessionID, Name |-> v.Name, Priority |-> v.Priority,
   ElapsedTime |-> Unsigned(v.ElapsedTime), BaseTime |-> v.BaseTime]

toUpstreamEventProto(v) ==
  CASE v.kind \in {"UpstreamOpen", "UpstreamResume"} ->
         [StreamId |-> v.StreamID, SessionId |-> v.SessionID, Qos |-> toQoSProto(v.QoS)]
    [] v.kind = "UpstreamAbnormalClose" -> [StreamId |-> v.StreamID, SessionId |-> v.SessionID]
    [] v.kind = "UpstreamNormalClose" ->
         [StreamId |-> v.StreamID, SessionId |-> v.SessionID,
          TotalDataPoints |-> v.TotalDataPoints, FinalSequenceNumber |-> v.FinalSequenceNumber]

toDownstreamEventProto(v) ==
  CASE v.kind \in {"DownstreamOpen", "DownstreamResume"} ->
         [StreamId |-> v.StreamID, Qos |-> toQoSProto(v.QoS),
          DownstreamFilters |-> toDownstreamFiltersProto(v.DownstreamFilters)]
    [] v.kind \in {"DownstreamAbnormalClose", "DownstreamNormalClose"} -> [StreamId |-> v.StreamID]

UpstreamEvents   == {"UpstreamOpen", "UpstreamResume", "UpstreamAbnormalClose", "UpstreamNormalClose"}
DownstreamEvents == {"DownstreamOpen", "DownstreamResume", "DownstreamAbnormalClose",
                     "DownstreamNormalClose"}

Tagged(kind, r) == AllOr([f \in {"kind"} \cup DOMAIN r |-> IF f = "kind" THEN kind ELSE r[f]])

toUpstreamMetadataProto(v) ==
  IF v # Nil /\ v.kind = "BaseTime" THEN Tagged("BaseTime", ToBaseTimeProto(v)) ELSE Malformed

toDownstreamMetadataProto(v) ==
  IF v = Nil THEN Malformed
  ELSE CASE v.kind = "BaseTime" -> Tagged("BaseTime", ToBaseTimeProto(v))
         [] v.kind \in UpstreamEvents -> Tagged(v.kind, toUpstreamEventProto(v))
         [] v.kind \in DownstreamEvents -> Tagged(v.kind, toDownstreamEventProto(v))
         [] OTHER -> Malformed

-----------------------------------------------------------------------------
(* WireToProto, one operator for a group of its cases.  ext is the          *)
(* converted ExtensionFields, present in every message.                     *)

ConnectionToProto(m, ext) ==
  CASE m.kind = "ConnectRequest" ->
         [RequestId |-> m.RequestID, ProtocolVersion |-> m.ProtocolVersion, NodeId |-> m.NodeID,
          PingInterval |-> m.PingInterval \div Second, PingTimeout |-> m.PingTimeout \div Second,
          ExtensionFields |-> toConnectRequestExtensionFieldsProto(m.ExtensionFields)]
    [] m.kind = "ConnectResponse" ->
         [RequestId |-> m.RequestID, ProtocolVersion |-> m.ProtocolVersion,
          ResultCode |-> toResultCodeProto(m.ResultCode), ResultString |-> m.ResultString,
          ExtensionFields |-> ext]
    [] m.kind = "Disconnect" ->
         [ResultCode |-> toResultCodeProto(m.ResultCode), ResultString |-> m.ResultString,
          ExtensionFields |-> ext]

ServerTimeOrUnixZero(m) == IF m.ServerTime = Never THEN 0 ELSE m.ServerTime

UpstreamToProto(m, ext) ==
  CASE m.kind = "UpstreamOpenRequest" ->
         [RequestId |-> m.RequestID, SessionId |-> m.SessionID,
          AckInterval |-> m.AckInterval \div Milli, ExpiryInterval |-> m.ExpiryInterval \div Second,
          DataIds |-> toDataIDsProto(m.DataIDs), Qos |-> toQoSProto(m.QoS),
          ExtensionFields |-> ext]
    [] m.kind = "UpstreamOpenResponse" ->
         [RequestId |-> m.RequestID, AssignedStreamId |-> m.AssignedStreamID,
          AssignedStreamIdAlias |-> m.AssignedStreamIDAlias,
          DataIdAliases |-> toDataIDAliasesProto(m.DataIDAliases),
          ServerTime |-> ServerTimeOrUnixZero(m), ResultCode |-> toResultCodeProto(m.ResultCode),
          ResultString |-> m.ResultString, ExtensionFields |-> ext, ResumeToken |-> m.ResumeToken]
    [] m.kind = "UpstreamResumeRequest" ->
         [RequestId |-> m.RequestID, StreamId |-> m.StreamID, ExtensionFields |-> ext,
          ResumeToken |-> m.ResumeToken]
    [] m.kind = "UpstreamResumeResponse" ->
         [RequestId |-> m.RequestID, AssignedStreamIdAlias |-> m.AssignedStreamIDAlias,
          ResultCode |-> toResultCodeProto(m.ResultCode), ResultString |-> m.ResultString,
          ExtensionFields |-> ext, ResumeToken |-> m.ResumeToken]
    [] m.kind = "UpstreamCloseRequest" ->
         [RequestId |-> m.RequestID, StreamId |-> m.StreamID,
          TotalDataPoints |-> m.TotalDataPoints, FinalSequenceNumber |-> m.FinalSequenceNumber,
          ExtensionFields |-> ext]
    [] m.kind = "UpstreamCloseResponse" ->
         [RequestId |-> m.RequestID, ResultCode |-> toResultCodeProto(m.ResultCode),
          ResultString |-> m.ResultString, ExtensionFields |-> ext]

DownstreamToProto(m, ext) ==
  CASE m.kind = "DownstreamOpenRequest" ->
         [RequestId |-> m.RequestID, DesiredStreamIdAlias |-> m.DesiredStreamIDAlias,
          DownstreamFilters |-> toDownstreamFiltersProto(m.DownstreamFilters),
          ExpiryInterval |-> m.ExpiryInterval \div Second,
          DataIdAliases |-> toDataIDAliasesProto(m.DataIDAliases), Qos |-> toQoSProto(m.QoS),
          ExtensionFields |-> ext, OmitEmptyChunk |-> m.OmitEmptyChunk]
    [] m.kind = "DownstreamOpenResponse" ->
         [RequestId |-> m.RequestID, AssignedStreamId |-> m.AssignedStreamID,
          ServerTime |-> ServerTimeOrUnixZero(m), ResultCode |-> toResultCodeProto(m.ResultCode),
          ResultString |-> m.ResultString, ExtensionFields |-> ext, ResumeToken |-> m.ResumeToken]
    [] m.kind = "DownstreamResumeRequest" ->
         [RequestId |-> m.RequestID, StreamId |-> m.StreamID,
          DesiredStreamIdAlias |-> m.DesiredStreamIDAlias, ExtensionFields |-> ext,
          ResumeToken |-> m.ResumeToken]
    [] m.kind = "DownstreamResumeResponse" ->
         [RequestId |-> m.RequestID, ResultCode |-> toResultCodeProto(m.ResultCode),
          ResultString |-> m.ResultString, ExtensionFields |-> ext, ResumeToken |-> m.ResumeToken]
    [] m.kind = "DownstreamCloseRequest" ->
         [RequestId |-> m.RequestID, StreamId |-> m.StreamID, ExtensionFields |-> ext]
    [] m.kind = "DownstreamCloseResponse" ->
         [RequestId |-> m.RequestID, ResultCode |-> toResultCodeProto(m.ResultCode),
          ResultString |-> m.ResultString, ExtensionFields |-> ext]

CallToProto(m, ext) ==
  CASE m.kind = "UpstreamCall" ->
         [CallId |-> m.CallID, RequestCallId |-> m.RequestCallID,
          DestinationNodeId |-> m.DestinationNodeID, Name |-> m.Name, Type |-> m.Type,
          Payload |-> m.Payload, ExtensionFields |-> ext]
    [] m.kind = "UpstreamCallAck" ->
         [CallId |-> m.CallID, ResultCode |-> toResultCodeProto(m.ResultCode),
          ResultString |-> m.ResultString, ExtensionFields |-> ext]
    [] m.kind = "DownstreamCall" ->
         [CallId |-> m.CallID, RequestCallId |-> m.RequestCallID,
          SourceNodeId |-> m.SourceNodeID, Name |-> m.Name, Type |-> m.Type,
          Payload |-> m.Payload, ExtensionFields |-> ext]
    [] m.kind \in {"Ping", "Pong"} -> [RequestId |-> m.RequestID, ExtensionFields |-> ext]

ChunkToProto(m, ext) ==
  CASE m.kind = "UpstreamChunk" ->
         [StreamIdAlias |-> m.StreamIDAlias, StreamChunk |-> toStreamChunkProto(m.StreamChunk),
          DataIds |-> toDataIDsProto(m.DataIDs), ExtensionFields |-> ext]
    [] m.kind = "UpstreamChunkAck" ->
         [StreamIdAlias |-> m.StreamIDAlias, Results |-> Each(toUpstreamChunkResultProto, m.Results),
          DataIdAliases |-> toDataIDAliasesProto(m.DataIDAliases), ExtensionFields |-> ext]
    [] m.kind = "DownstreamChunk" ->
         [StreamIdAlias |-> m.StreamIDAlias,
          UpstreamOrAlias |-> toUpstreamOrAliasProto(m.UpstreamOrAlias),
          StreamChunk |-> toStreamChunkProto(m.StreamChunk), ExtensionFields |-> ext,
          DownstreamFilterReferences |->
            toDownstreamFilterReferencesProto(m.DownstreamFilterReferences)]
    [] m.kind = "DownstreamChunkAck" ->
         [StreamIdAlias |-> m.StreamIDAlias, AckId |-> m.AckID,
          Results |-> Each(toDownstreamChunkResultProto, m.Results),
          UpstreamAliases |-> toUpstreamAliasesProto(m.UpstreamAliases),
          DataIdAliases |-> toDataIDAliasesProto(m.DataIDAliases), ExtensionFields |-> ext]
    [] m.kind = "DownstreamChunkAckComplete" ->
         [StreamIdAlias |-> m.StreamIDAlias, AckId |-> m.AckID,
          ResultCode |-> toResultCodeProto(m.ResultCode), ResultString |-> m.ResultString,
          ExtensionFields |-> ext]

MetadataToProto(m, ext) ==
  CASE m.kind = "UpstreamMetadata" ->
         [RequestId |-> m.RequestID, Metadata |-> toUpstreamMetadataProto(m.Metadata),
          ExtensionFields |-> ext]
    [] m.kind = "DownstreamMetadata" ->
         [RequestId |-> m.RequestID, StreamIdAlias |-> m.StreamIDAlias,
          SourceNodeId |-> m.SourceNodeID, Metadata |-> toDownstreamMetadataProto(m.Metadata),
          ExtensionFields |-> ext]
    [] m.kind \in {"UpstreamMetadataAck", "DownstreamMetadataAck"} ->
         [RequestId |-> m.RequestID, ResultCode |-> toResultCodeProto(m.ResultCode),
          ResultString |-> m.ResultString, ExtensionFields |-> ext]

ConnectionKinds == {"ConnectRequest", "ConnectResponse", "Disconnect"}
UpstreamKinds   == {"UpstreamOpenRequest", "UpstreamOpenResponse", "UpstreamResumeRequest",
                    "UpstreamResumeResponse", "UpstreamCloseRequest", "UpstreamCloseResponse"}
DownstreamKinds == {"DownstreamOpenRequest", "DownstreamOpenResponse", "DownstreamResumeRequest",
                    "DownstreamResumeResponse", "DownstreamCloseRequest", "DownstreamCloseResponse"}
CallKinds       == {"UpstreamCall", "UpstreamCallAck", "DownstreamCall", "Ping", "Pong"}
ChunkKinds      == {"UpstreamChunk", "UpstreamChunkAck", "DownstreamChunk", "DownstreamChunkAck",
                    "DownstreamChunkAckComplete"}
MetadataKinds   == {"UpstreamMetadata", "UpstreamMetadataAck", "DownstreamMetadata",
                    "DownstreamMetadataAck"}

Kinds == ConnectionKinds \cup UpstreamKinds \cup DownstreamKinds \cup CallKinds \cup ChunkKinds
           \cup MetadataKinds

WireToProto(m) ==
  LET ext == IF m.kind = "ConnectRequest" THEN Nil ELSE ExtensionProto(m.kind, m.ExtensionFields)
  IN  IF m.kind \notin Kinds THEN Malformed
      ELSE Tagged(m.kind, CASE m.kind \in ConnectionKinds -> ConnectionToProto(m, ext)
                            [] m.kind \in UpstreamKinds   -> UpstreamToProto(m, ext)
                            [] m.kind \in DownstreamKinds -> DownstreamToProto(m, ext)
                            [] m.kind \in CallKinds       -> CallToProto(m, ext)
                            [] m.kind \in ChunkKinds      -> ChunkToProto(m, ext)
                            [] m.kind \in MetadataKinds   -> MetadataToProto(m, ext))

\* An error is no message and no part of one.
ASSUME MalformedAssumption ==
  /\ Malformed \notin Kinds \cup {"BaseTime"} \cup UpstreamEvents \cup DownstreamEvents
  /\ Malformed \notin ResultCode \cup QoS \cup UUIDs /\ Malformed \notin STRING /\ Malformed \notin Int
  /\ \A A, B \in SUBSET Aliases : Malformed \notin Message(A, B) /\ Malformed \notin [B -> UpstreamInfo]
  /\ Malformed \notin DataIDOrAlias \cup DataPointGroup \cup StreamChunk \cup UpstreamOrAlias
  /\ Malformed \notin UpstreamChunkResult \cup DownstreamChunkResult \cup Metadata
  /\ Malformed \notin {Nil} \cup IntdashExtensionFields \cup ConnectRequestExtensionFields
  /\ Malformed \notin Seq(DownstreamFilter) /\ Malformed \notin Seq(DataPoint)
  /\ Malformed \notin Seq(DataPointGroup)
  /\ Malformed \notin Seq(UpstreamChunkResult) /\ Malformed \notin Seq(DownstreamChunkResult)
  /\ Malformed \notin Seq(Seq(DownstreamFilterReference))

=============================================================================
