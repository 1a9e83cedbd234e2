------------------------------- MODULE MCCodec -------------------------------
(***************************************************************************)
(* The messages of the instance: every kind, every union, every result     *)
(* code, lists of none and of several, extension fields there and not.     *)
(***************************************************************************)
EXTENDS Codec, TLC

Ids == {"uuid1", "uuid2"}
Keys == {1, 2, 3, 5}

Codes == ResultCode
SomeCodes == {"Succeeded", "NormalClosure", "Unset", "AckTimeout"}
SomeQoS == QoS

D1 == [Name |-> "name1", Type |-> "type1"]
D2 == [Name |-> "name2", Type |-> "type2"]
IdLists == {<<>>, <<D1>>, <<D1, D2>>}
IdTables == {<<>>, (1 :> D1), (3 :> D2 @@ 2 :> D1)}
Filters == {<<>>, <<[SourceNodeID |-> "node1", DataFilters |-> <<D1, D2>>],
                    [SourceNodeID |-> "node2", DataFilters |-> <<>>]>>}

Info1 == [SessionID |-> "session", SourceNodeID |-> "node", StreamID |-> "uuid1"]
Info2 == [SessionID |-> "session2", SourceNodeID |-> "node2", StreamID |-> "uuid2"]
UpstreamsOrAliases == {Nil, Info1, [UpstreamAlias |-> 4]}

Group(id) == [DataIDOrAlias |-> id,
              DataPoints |-> <<[ElapsedTime |-> -1, Payload |-> "p1"], [ElapsedTime |-> 7, Payload |-> ""]>>]
Chunks == {Nil, [SequenceNumber |-> 5, DataPointGroups |-> <<>>],
           [SequenceNumber |-> 5, DataPointGroups |-> <<Group(D1), Group([DataIDAlias |-> 6])>>]}
DownstreamResults ==
  {<<>>} \cup {<<[StreamIDOfUpstream |-> id, SequenceNumberInUpstream |-> 8, ResultCode |-> rc,
                  ResultString |-> "ok", ExtensionFields |-> e]>> :
               id \in Ids, rc \in Codes, e \in Plain}
UpstreamResults ==
  {<<>>} \cup {<<[SequenceNumber |-> 8, ResultCode |-> rc, ResultString |-> "ok", ExtensionFields |-> e],
                 [SequenceNumber |-> 9, ResultCode |-> "Succeeded", ResultString |-> "", ExtensionFields |-> Nil]>> :
               rc \in Codes, e \in Plain}
References == {<<>>, <<<<[DownstreamFilterIndex |-> 1, DataFilterIndex |-> 2]>>, <<>>>>}

BaseTimes == [kind : {"BaseTime"}, SessionID : {"session"}, Name : {"ntp"}, Priority : {0, 255},
              ElapsedTime : {-(Width \div 2), Width \div 2 - 1}, BaseTime : {0, 9}]
UpstreamMetas ==
  [kind : {"UpstreamOpen", "UpstreamResume"}, StreamID : Ids, SessionID : {"session"}, QoS : SomeQoS]
  \cup [kind : {"UpstreamAbnormalClose"}, StreamID : Ids, SessionID : {"session"}]
  \cup [kind : {"UpstreamNormalClose"}, StreamID : Ids, SessionID : {"session"},
        TotalDataPoints : {11}, FinalSequenceNumber : {12}]
DownstreamMetas ==
  [kind : {"DownstreamOpen", "DownstreamResume"}, StreamID : Ids, QoS : SomeQoS, DownstreamFilters : Filters]
  \cup [kind : {"DownstreamAbnormalClose", "DownstreamNormalClose"}, StreamID : Ids]

Acks == {"UpstreamCloseResponse", "DownstreamCloseResponse", "UpstreamMetadataAck", "DownstreamMetadataAck"}

MCMessages ==
  [kind : {"ConnectRequest"}, RequestID : {1}, ProtocolVersion : {"v3"}, NodeID : {"node"},
   PingInterval : {0, 4, 11}, PingTimeout : {0, 3, 8},
   ExtensionFields : {Nil} \cup [AccessToken : {"token"}, Intdash : {Nil} \cup [ProjectUUID : Ids]]]
  \cup [kind : {"ConnectResponse"}, RequestID : {1}, ProtocolVersion : {"v3"}, ResultCode : Codes,
        ResultString : {"ok"}, ExtensionFields : Plain]
  \cup [kind : {"Disconnect"}, ResultCode : Codes, ResultString : {"ok"}, ExtensionFields : Plain]
  \cup [kind : {"UpstreamOpenRequest"}, RequestID : {1}, SessionID : {"session"},
        AckInterval : {0, 3, 10}, ExpiryInterval : {0, 9}, DataIDs : IdLists, QoS : SomeQoS,
        ExtensionFields : Persists]
  \cup [kind : {"UpstreamOpenResponse"}, RequestID : {1}, AssignedStreamID : Ids,
        AssignedStreamIDAlias : {2}, ResultCode : SomeCodes, ResultString : {"ok"},
        ServerTime : {Never, 0, 9}, DataIDAliases : IdTables, ExtensionFields : Plain,
        ResumeToken : {"token"}]
  \cup [kind : {"UpstreamResumeRequest"}, RequestID : {1}, StreamID : Ids, ExtensionFields : Plain,
        ResumeToken : {"token"}]
  \cup [kind : {"UpstreamResumeResponse"}, RequestID : {1}, AssignedStreamIDAlias : {2},
        ResultCode : Codes, ResultString : {"ok"}, ExtensionFields : Plain, ResumeToken : {"token"}]
  \cup [kind : {"UpstreamCloseRequest"}, RequestID : {1}, StreamID : Ids, TotalDataPoints : {11},
        FinalSequenceNumber : {12}, ExtensionFields : {Nil} \cup [CloseSession : BOOLEAN]]
  \cup [kind : Acks, RequestID : {1}, ResultCode : Codes, ResultString : {"ok"}, ExtensionFields : Plain]
  \cup [kind : {"DownstreamOpenRequest"}, RequestID : {1}, DesiredStreamIDAlias : {2},
        DownstreamFilters : Filters, ExpiryInterval : {0, 9}, DataIDAliases : IdTables, QoS : SomeQoS,
        OmitEmptyChunk : BOOLEAN, ExtensionFields : Plain]
  \cup [kind : {"DownstreamOpenResponse"}, RequestID : {1}, AssignedStreamID : Ids,
        ResultCode : Codes, ServerTime : {Never, 0, 9}, ResultString : {"ok"},
        ExtensionFields : Plain, ResumeToken : {"token"}]
  \cup [kind : {"DownstreamResumeRequest"}, RequestID : {1}, StreamID : Ids,
        DesiredStreamIDAlias : {2}, ExtensionFields : Plain, ResumeToken : {"token"}]
  \cup [kind : {"DownstreamResumeResponse"}, RequestID : {1}, ResultCode : Codes,
        ResultString : {"ok"}, ExtensionFields : Plain, ResumeToken : {"token"}]
  \cup [kind : {"DownstreamCloseRequest"}, RequestID : {1}, StreamID : Ids, ExtensionFields : Plain]
  \cup [kind : {"UpstreamCall"}, CallID : {"call"}, RequestCallID : {"", "request"},
        DestinationNodeID : {"node"}, Name : {"name"}, Type : {"type"}, Payload : {"p"},
        ExtensionFields : Plain]
  \cup [kind : {"UpstreamCallAck"}, CallID : {"call"}, ResultCode : Codes, ResultString : {"ok"},
        ExtensionFields : Plain]
  \cup [kind : {"DownstreamCall"}, CallID : {"call"}, RequestCallID : {"", "request"},
        SourceNodeID : {"node"}, Name : {"name"}, Type : {"type"}, Payload : {"p"},
        ExtensionFields : Plain]
  \cup [kind : {"Ping", "Pong"}, RequestID : {1}, ExtensionFields : Plain]
  \cup [kind : {"UpstreamChunk"}, StreamIDAlias : {2}, DataIDs : IdLists, StreamChunk : Chunks,
        ExtensionFields : Plain]
  \cup [kind : {"UpstreamChunkAck"}, StreamIDAlias : {2}, Results : UpstreamResults,
        DataIDAliases : IdTables, ExtensionFields : Plain]
  \cup [kind : {"DownstreamChunk"}, StreamIDAlias : {2}, UpstreamOrAlias : UpstreamsOrAliases,
        StreamChunk : Chunks, ExtensionFields : Plain, DownstreamFilterReferences : References]
  \cup [kind : {"DownstreamChunkAck"}, StreamIDAlias : {2}, AckID : {3},
        Results : DownstreamResults,
        UpstreamAliases : {<<>>, (1 :> Info1 @@ 5 :> Info2)}, DataIDAliases : IdTables,
        ExtensionFields : Plain]
  \cup [kind : {"DownstreamChunkAckComplete"}, StreamIDAlias : {2}, AckID : {3}, ResultCode : Codes,
        ResultString : {"ok"}, ExtensionFields : Plain]
  \cup [kind : {"UpstreamMetadata"}, RequestID : {1}, Metadata : {Nil} \cup BaseTimes,
        ExtensionFields : Persists]
  \cup [kind : {"DownstreamMetadata"}, RequestID : {1}, StreamIDAlias : {2}, SourceNodeID : {"node"},
        Metadata : {Nil} \cup BaseTimes \cup UpstreamMetas \cup DownstreamMetas,
        ExtensionFields : Plain]

==============================================================================
