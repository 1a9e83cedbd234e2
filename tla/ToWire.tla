-------------------------------- MODULE ToWire --------------------------------
(***************************************************************************)
(* The way back: encoding/convert/proto_to_wire.go.  What it reads need    *)
(* not come from ToProto, so that every enumeration, id and union is       *)
(* looked at again.  uuid.Must panics on an id that is not 16 bytes long,  *)
(* and the decoder recovers and returns an error, as it does for toUUID.   *)
(***************************************************************************)
EXTENDS ToProto

toResultCode_BugLenient(rc) ==
  CASE rc = "SUCCEEDED" -> "Succeeded"
    [] OTHER -> rc

toResultCode(rc) ==
  CASE rc = "SUCCEEDED" -> "Succeeded"
    [] rc \in ErrorCodes -> rc
    [] OTHER -> Malformed

toQoS(qos) ==
  CASE qos = "RELIABLE" -> "Reliable"
    [] qos = "UNRELIABLE" -> "Unreliable"
    [] qos = "PARTIAL" -> "Partial"
    [] OTHER -> Malformed

toUUID(bs) == IF bs \in UUIDs THEN bs ELSE Malformed

toDataID(id) == [Name |-> id.Name, Type |-> id.Type]
toDataIDs(ids) == [i \in DOMAIN ids |-> toDataID(ids[i])]
toDataIDAliases(aliases) == [a \in DOMAIN aliases |-> toDataID(aliases[a])]
toDataFilters(fs) == [i \in DOMAIN fs |-> toDataID(fs[i])]

toDownstreamFilters(fs) ==
  [i \in DOMAIN fs |-> [SourceNodeID |-> fs[i].SourceNodeId,
                        DataFilters  |-> toDataFilters(fs[i].DataFilters)]]

toDataPoints(dps) ==
  [i \in DOMAIN dps |-> [ElapsedTime |-> dps[i].ElapsedTime, Payload |-> dps[i].Payload]]

StreamExtension(type, in) ==
  CASE type = "UpstreamOpenRequest" -> [Persist |-> in.Persist]
    [] type = "UpstreamCloseRequest" -> [CloseSession |-> in.CloseSession]
    [] OTHER -> <<>>

Extension(type, in) ==
  CASE in = Nil -> Nil
    [] in # Nil /\ type = "UpstreamMetadata" -> [Persist |-> in.Persist]
    [] OTHER -> StreamExtension(type, in)

toIntdashExtensionFields(in) ==
  IF in = Nil THEN Nil ELSE AllOr([ProjectUUID |-> toUUID(in.ProjectUuid)])

toConnectRequestExtensionFields(in) ==
  IF in = Nil THEN Nil
  ELSE AllOr([AccessToken |-> in.AccessToken, Intdash |-> toIntdashExtensionFields(in.Intdash)])

toUpstreamDataPointResult(r) ==
  AllOr([SequenceNumber |-> r.SequenceNumber, ResultCode |-> toResultCode(r.ResultCode),
         ResultString |-> r.ResultString,
         ExtensionFields |-> Extension("UpstreamChunkResult", r.ExtensionFields)])

toDownstreamDataPointResult(r) ==
  AllOr([StreamIDOfUpstream |-> toUUID(r.StreamIdOfUpstream),
         SequenceNumberInUpstream |-> r.SequenceNumberInUpstream,
         ResultCode |-> toResultCode(r.ResultCode), ResultString |-> r.ResultString,
         ExtensionFields |-> Extension("DownstreamChunkResult", r.ExtensionFields)])

toUpstreamInfo(info) ==
  AllOr([SessionID |-> info.SessionId, SourceNodeID |-> info.SourceNodeId,
         StreamID |-> toUUID(info.StreamId)])

toUpstreamAliases(aliases) == AllOr([a \in DOMAIN aliases |-> toUpstreamInfo(aliases[a])])

toUpstreamOrAlias(u) ==
  CASE u = Nil -> Malformed
    [] "UpstreamAlias" \in DOMAIN u -> [UpstreamAlias |-> u.UpstreamAlias]
    [] OTHER -> toUpstreamInfo(u.UpstreamInfo)

toDataIDOrAlias(in) ==
  CASE in = Nil -> Malformed
    [] "DataIdAlias" \in DOMAIN in -> [DataIDAlias |-> in.DataIdAlias]
    [] OTHER -> toDataID(in.DataId)

toDataPointGroup(g) ==
  AllOr([DataIDOrAlias |-> toDataIDOrAlias(g.DataIdOrAlias), DataPoints |-> toDataPoints(g.DataPoints)])

toStreamChunk(c) ==
  IF c = Nil THEN [SequenceNumber |-> 0, DataPointGroups |-> <<>>]
  ELSE AllOr([SequenceNumber |-> c.SequenceNumber,
              DataPointGroups |-> Each(toDataPointGroup, c.DataPointGroups)])

toDownstreamFilterReferencesWire(groups) ==
  [i \in DOMAIN groups |->
     [j \in DOMAIN groups[i].References |->
        [DownstreamFilterIndex |-> groups[i].References[j].DownstreamFilterIndex,
         DataFilterIndex       |-> groups[i].References[j].DataFilterIndex]]]

-----------------------------------------------------------------------------
(* Metadata.                                                                *)

ToBaseTime(v) ==
  [SessionID |-> v.SessionId, Name |-> v.Name, Priority |-> v.Priority,
   ElapsedTime |-> Signed(v.ElapsedTime), BaseTime |-> v.BaseTime]

ToUpstreamEvent(v) ==
  CASE v.kind \in {"UpstreamOpen", "UpstreamResume"} ->
         [StreamID |-> toUUID(v.StreamId), SessionID |-> v.SessionId, QoS |-> toQoS(v.Qos)]
    [] v.kind = "UpstreamAbnormalClose" -> [StreamID |-> toUUID(v.StreamId), SessionID |-> v.SessionId]
    [] v.kind = "UpstreamNormalClose" ->
         [StreamID |-> toUUID(v.StreamId), SessionID |-> v.SessionId,
          TotalDataPoints |-> v.TotalDataPoints, FinalSequenceNumber |-> v.FinalSequenceNumber]

ToDownstreamEvent(v) ==
  CASE v.kind \in {"DownstreamOpen", "DownstreamResume"} ->
         [StreamID |-> toUUID(v.StreamId), QoS |-> toQoS(v.Qos),
          DownstreamFilters |-> toDownstreamFilters(v.DownstreamFilters)]
    [] v.kind \in {"DownstreamAbnormalClose", "DownstreamNormalClose"} ->
         [StreamID |-> toUUID(v.StreamId)]

toMetadataUpstream(v) ==
  IF v # Nil /\ v.kind = "BaseTime" THEN Tagged("BaseTime", ToBaseTime(v)) ELSE Malformed

toDownstreamMetadata(v) ==
  IF v = Nil THEN Malformed
  ELSE CASE v.kind = "BaseTime" -> Tagged("BaseTime", ToBaseTime(v))
         [] v.kind \in UpstreamEvents -> Tagged(v.kind, ToUpstreamEvent(v))
         [] v.kind \in DownstreamEvents -> Tagged(v.kind, ToDownstreamEvent(v))
         [] OTHER -> Malformed

-----------------------------------------------------------------------------
(* ProtoToWire, in the groups of WireToProto.                               *)

ConnectionToWire(pb, ext) ==
  CASE pb.kind = "ConnectRequest" ->
         [RequestID |-> pb.RequestId, ProtocolVersion |-> pb.ProtocolVersion, NodeID |-> pb.NodeId,
          PingInterval |-> pb.PingInterval * Second, PingTimeout |-> pb.PingTimeout * Second,
          ExtensionFields |-> toConnectRequestExtensionFields(pb.ExtensionFields)]
    [] pb.kind = "ConnectResponse" ->
         [RequestID |-> pb.RequestId, ProtocolVersion |-> pb.ProtocolVersion,
          ResultCode |-> toResultCode(pb.ResultCode), ResultString |-> pb.ResultString,
          ExtensionFields |-> ext]
    [] pb.kind = "Disconnect" ->
         [ResultCode |-> toResultCode(pb.ResultCode), ResultString |-> pb.ResultString,
          ExtensionFields |-> ext]

UpstreamToWire(pb, ext) ==
  CASE pb.kind = "UpstreamOpenRequest" ->
         [RequestID |-> pb.RequestId, SessionID |-> pb.SessionId,
          AckInterval |-> pb.AckInterval * Milli, ExpiryInterval |-> pb.ExpiryInterval * Second,
          DataIDs |-> toDataIDs(pb.DataIds), QoS |-> toQoS(pb.Qos), ExtensionFields |-> ext]
    [] pb.kind = "UpstreamOpenResponse" ->
         [RequestID |-> pb.RequestId, AssignedStreamID |-> toUUID(pb.AssignedStreamId),
          AssignedStreamIDAlias |-> pb.AssignedStreamIdAlias,
          ResultCode |-> toResultCode(pb.ResultCode), ResultString |-> pb.ResultString,
          ServerTime |-> pb.ServerTime, DataIDAliases |-> toDataIDAliases(pb.DataIdAliases),
          ExtensionFields |-> ext, ResumeToken |-> pb.ResumeToken]
    [] pb.kind = "UpstreamResumeRequest" ->
         [RequestID |-> pb.RequestId, StreamID |-> toUUID(pb.StreamId), ExtensionFields |-> ext,
          ResumeToken |-> pb.ResumeToken]
    [] pb.kind = "UpstreamResumeResponse" ->
         [RequestID |-> pb.RequestId, AssignedStreamIDAlias |-> pb.AssignedStreamIdAlias,
          ResultCode |-> toResultCode(pb.ResultCode), ResultString |-> pb.ResultString,
          ExtensionFields |-> ext, ResumeToken |-> pb.ResumeToken]
    [] pb.kind = "UpstreamCloseRequest" ->
         [RequestID |-> pb.RequestId, StreamID |-> toUUID(pb.StreamId),
          TotalDataPoints |-> pb.TotalDataPoints, FinalSequenceNumber |-> pb.FinalSequenceNumber,
          ExtensionFields |-> ext]
    [] pb.kind = "UpstreamCloseResponse" ->
         [RequestID |-> pb.RequestId, ResultCode |-> toResultCode(pb.ResultCode),
          ResultString |-> pb.ResultString, ExtensionFields |-> ext]

DownstreamToWire(pb, ext) ==
  CASE pb.kind = "DownstreamOpenRequest" ->
         [RequestID |-> pb.RequestId, DesiredStreamIDAlias |-> pb.DesiredStreamIdAlias,
          DownstreamFilters |-> toDownstreamFilters(pb.DownstreamFilters),
          ExpiryInterval |-> pb.ExpiryInterval * Second,
          DataIDAliases |-> toDataIDAliases(pb.DataIdAliases), QoS |-> toQoS(pb.Qos),
          OmitEmptyChunk |-> pb.OmitEmptyChunk, ExtensionFields |-> ext]
    [] pb.kind = "DownstreamOpenResponse" ->
         [RequestID |-> pb.RequestId, AssignedStreamID |-> toUUID(pb.AssignedStreamId),
          ResultCode |-> toResultCode(pb.ResultCode), ServerTime |-> pb.ServerTime,
          ResultString |-> pb.ResultString, ExtensionFields |-> ext, ResumeToken |-> pb.ResumeToken]
    [] pb.kind = "DownstreamResumeRequest" ->
         [RequestID |-> pb.RequestId, StreamID |-> toUUID(pb.StreamId),
          DesiredStreamIDAlias |-> pb.DesiredStreamIdAlias, ExtensionFields |-> ext,
          ResumeToken |-> pb.ResumeToken]
    [] pb.kind = "DownstreamResumeResponse" ->
         [RequestID |-> pb.RequestId, ResultCode |-> toResultCode(pb.ResultCode),
          ResultString |-> pb.ResultString, ExtensionFields |-> ext, ResumeToken |-> pb.ResumeToken]
    [] pb.kind = "DownstreamCloseRequest" ->
         [RequestID |-> pb.RequestId, StreamID |-> toUUID(pb.StreamId), ExtensionFields |-> ext]
    [] pb.kind = "DownstreamCloseResponse" ->
         [RequestID |-> pb.RequestId, ResultCode |-> toResultCode(pb.ResultCode),
          ResultString |-> pb.ResultString, ExtensionFields |-> ext]

CallToWire(pb, ext) ==
  CASE pb.kind = "UpstreamCall" ->
         [CallID |-> pb.CallId, RequestCallID |-> pb.RequestCallId,
          DestinationNodeID |-> pb.DestinationNodeId, Name |-> pb.Name, Type |-> pb.Type,
          Payload |-> pb.Payload, ExtensionFields |-> ext]
    [] pb.kind = "UpstreamCallAck" ->
         [CallID |-> pb.CallId, ResultCode |-> toResultCode(pb.ResultCode),
          ResultString |-> pb.ResultString, ExtensionFields |-> ext]
    [] pb.kind = "DownstreamCall" ->
         [CallID |-> pb.CallId, RequestCallID |-> pb.RequestCallId,
          SourceNodeID |-> pb.SourceNodeId, Name |-> pb.Name, Type |-> pb.Type,
          Payload |-> pb.Payload, ExtensionFields |-> ext]
    [] pb.kind \in {"Ping", "Pong"} -> [RequestID |-> pb.RequestId, ExtensionFields |-> ext]

ChunkToWire(pb, ext) ==
  CASE pb.kind = "UpstreamChunk" ->
         [StreamIDAlias |-> pb.StreamIdAlias, DataIDs |-> toDataIDs(pb.DataIds),
          StreamChunk |-> toStreamChunk(pb.StreamChunk), ExtensionFields |-> ext]
    [] pb.kind = "UpstreamChunkAck" ->
         [StreamIDAlias |-> pb.StreamIdAlias, Results |-> Each(toUpstreamDataPointResult, pb.Results),
          ExtensionFields |-> ext, DataIDAliases |-> toDataIDAliases(pb.DataIdAliases)]
    [] pb.kind = "DownstreamChunk" ->
         [StreamIDAlias |-> pb.StreamIdAlias, UpstreamOrAlias |-> toUpstreamOrAlias(pb.UpstreamOrAlias),
          StreamChunk |-> toStreamChunk(pb.StreamChunk), ExtensionFields |-> ext,
          DownstreamFilterReferences |->
            toDownstreamFilterReferencesWire(pb.DownstreamFilterReferences)]
    [] pb.kind = "DownstreamChunkAck" ->
         [StreamIDAlias |-> pb.StreamIdAlias, AckID |-> pb.AckId,
          Results |-> Each(toDownstreamDataPointResult, pb.Results),
          UpstreamAliases |-> toUpstreamAliases(pb.UpstreamAliases),
          DataIDAliases |-> toDataIDAliases(pb.DataIdAliases), ExtensionFields |-> ext]
    [] pb.kind = "DownstreamChunkAckComplete" ->
         [StreamIDAlias |-> pb.StreamIdAlias, AckID |-> pb.AckId,
          ResultCode |-> toResultCode(pb.ResultCode), ResultString |-> pb.ResultString,
          ExtensionFields |-> ext]

MetadataToWire(pb, ext) ==
  CASE pb.kind = "UpstreamMetadata" ->
         [RequestID |-> pb.RequestId, Metadata |-> toMetadataUpstream(pb.Metadata),
          ExtensionFields |-> ext]
    [] pb.kind = "DownstreamMetadata" ->
         [RequestID |-> pb.RequestId, StreamIDAlias |-> pb.StreamIdAlias,
          SourceNodeID |-> pb.SourceNodeId, Metadata |-> toDownstreamMetadata(pb.Metadata),
          ExtensionFields |-> ext]
    [] pb.kind \in {"UpstreamMetadataAck", "DownstreamMetadataAck"} ->
         [RequestID |-> pb.RequestId, ResultCode |-> toResultCode(pb.ResultCode),
          ResultString |-> pb.ResultString, ExtensionFields |-> ext]

ProtoToWire(pb) ==
  LET ext == IF pb.kind = "ConnectRequest" THEN Nil ELSE Extension(pb.kind, pb.ExtensionFields)
  IN  IF pb.kind \notin Kinds THEN Malformed
      ELSE Tagged(pb.kind, CASE pb.kind \in ConnectionKinds -> ConnectionToWire(pb, ext)
                             [] pb.kind \in UpstreamKinds   -> UpstreamToWire(pb, ext)
                             [] pb.kind \in DownstreamKinds -> DownstreamToWire(pb, ext)
                             [] pb.kind \in CallKinds       -> CallToWire(pb, ext)
                             [] pb.kind \in ChunkKinds      -> ChunkToWire(pb, ext)
                             [] pb.kind \in MetadataKinds   -> MetadataToWire(pb, ext))

===============================================================================
