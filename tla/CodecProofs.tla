---------------------------- MODULE CodecProofs ----------------------------
(***************************************************************************)
(* Proofs about Codec for every message of the protocol: lists and maps of *)
(* any size, any strings, ids and units.                                   *)
(***************************************************************************)
EXTENDS Codec, TLAPS

-----------------------------------------------------------------------------
(* Errors and kinds.                                                       *)

(* No part of r is an error.                                               *)
Errorless(r) == \A f \in DOMAIN r : r[f] # Malformed

(* The record r with the kind k.                                           *)
WithKind(k, r) == [f \in {"kind"} \cup DOMAIN r |-> IF f = "kind" THEN k ELSE r[f]]

(* The message the peer is to find.                                        *)
AsRead(m) == [f \in DOMAIN m |-> AtPeer(f, m[f])]

(* What is no error has no error in it.                                    *)
LEMMA AllOrFails ==
  ASSUME NEW f, AllOr(f) # Malformed
  PROVE  AllOr(f) = f /\ Errorless(f)
BY DEF AllOr, Errorless

(* Parts without an error make the whole.                                  *)
LEMMA AllOrIs ==
  ASSUME NEW f, Errorless(f)
  PROVE  AllOr(f) = f
BY DEF AllOr, Errorless

(* A body that is accepted gets its kind, and has no error in it.          *)
LEMMA TaggedAccepted ==
  ASSUME NEW k, NEW r, "kind" \notin DOMAIN r, Tagged(k, r) # Malformed
  PROVE  Tagged(k, r) = WithKind(k, r) /\ Errorless(r)
<1>1. Tagged(k, r) = AllOr(WithKind(k, r))
  BY DEF Tagged, WithKind
<1>2. Tagged(k, r) = WithKind(k, r) /\ Errorless(WithKind(k, r))
  BY <1>1, AllOrFails
<1> QED BY <1>2 DEF WithKind, Errorless

(* A body without an error is accepted.                                    *)
LEMMA TaggedIs ==
  ASSUME NEW k, k # Malformed, NEW r, "kind" \notin DOMAIN r, Errorless(r)
  PROVE  Tagged(k, r) = WithKind(k, r)
<1>1. Tagged(k, r) = AllOr(WithKind(k, r))
  BY DEF Tagged, WithKind
<1>2. Errorless(WithKind(k, r))
  BY DEF Errorless, WithKind
<1> QED BY <1>1, <1>2, AllOrIs

(* What can be told apart from an error.                                   *)
LEMMA Apart ==
  /\ \A k \in Kinds \cup {"BaseTime"} \cup UpstreamEvents \cup DownstreamEvents : k # Malformed
  /\ \A c \in ResultCode \cup QoS : c # Malformed
  /\ \A n \in Int : n # Malformed
BY MalformedAssumption

-----------------------------------------------------------------------------
(* There and back: XThere says that X, written by ToProto, is read by      *)
(* ToWire as what the peer is to find in it.  First the parts of messages. *)

(* A result code, but for the closure that the protocol has no code for.   *)
LEMMA CodeThere ==
  ASSUME NEW rc, toResultCodeProto(rc) # Malformed
  PROVE  /\ toResultCode(toResultCodeProto(rc)) = IF rc = "NormalClosure" THEN "Succeeded" ELSE rc
         /\ toResultCode(toResultCodeProto(rc)) # Malformed
<1>0. "Succeeded" \in ResultCode /\ ErrorCodes \subseteq ResultCode
  BY DEF ResultCode
<1>1. CASE rc \in {"Succeeded", "NormalClosure"}
  <2>1. toResultCodeProto(rc) = "SUCCEEDED" /\ toResultCode("SUCCEEDED") = "Succeeded"
    BY <1>1 DEF toResultCodeProto, toResultCode, ErrorCodes
  <2> QED BY <1>0, <1>1, <2>1, Apart
<1>2. CASE rc \in ErrorCodes
  <2>1. rc # "Succeeded" /\ rc # "NormalClosure" /\ rc # "SUCCEEDED"
    BY <1>2 DEF ErrorCodes
  <2>2. toResultCodeProto(rc) = rc /\ toResultCode(rc) = rc
    BY <1>2, <2>1 DEF toResultCodeProto, toResultCode
  <2> QED BY <1>0, <1>2, <2>1, <2>2, Apart
<1>3. rc \in {"Succeeded", "NormalClosure"} \/ rc \in ErrorCodes
  BY DEF toResultCodeProto
<1> QED BY <1>1, <1>2, <1>3

(* A quality of service.                                                   *)
LEMMA QoSThere ==
  ASSUME NEW qos, toQoSProto(qos) # Malformed
  PROVE  toQoS(toQoSProto(qos)) = qos
BY DEF toQoSProto, toQoS

(* An id.                                                                  *)
LEMMA UUIDThere ==
  ASSUME NEW id \in UUIDs
  PROVE  toUUID(id) = id
BY DEF toUUID

(* A duration that is cut to a unit.                                       *)
LEMMA Interval ==
  ASSUME NEW v \in Nat, NEW unit \in Nat \ {0}
  PROVE  (v \div unit) * unit = v - (v % unit) /\ v - (v % unit) \in Int
OBVIOUS

(* The intervals of a connection, of the expiry and of the acks.           *)
LEMMA IntervalThere ==
  ASSUME NEW v \in Duration
  PROVE  /\ (v \div Second) * Second = v - (v % Second) /\ v - (v % Second) \in Int
         /\ (v \div Milli) * Milli = v - (v % Milli) /\ v - (v % Milli) \in Int
BY Interval, ConvertAssumption DEF Duration

(* The elapsed time of a base time, an int64 that goes as uint64.          *)
LEMMA SignedThere ==
  ASSUME NEW v \in -(Width \div 2)..(Width \div 2 - 1)
  PROVE  Signed(Unsigned(v)) = v
<1>1. PICK half \in Nat \ {0} : Width = 2 * half /\ Width \div 2 = half
  BY ConvertAssumption
<1>2. v \in Int /\ -half <= v /\ v < half
  BY <1>1
<1>3. v >= 0 => v % Width = v
  BY <1>1, <1>2
<1>4. v < 0 => v % Width = v + Width
  BY <1>1, <1>2
<1> QED BY <1>1, <1>2, <1>3, <1>4 DEF Signed, Unsigned

(* An id of data.                                                          *)
LEMMA DataIDThere ==
  ASSUME NEW id \in DataID
  PROVE  toDataIDProto(id) = id /\ toDataID(id) = id /\ toDataID(toDataIDProto(id)) = id
BY DEF DataID, toDataIDProto, toDataID

(* A list is the function of its elements.                                 *)
LEMMA SeqIs ==
  ASSUME NEW S, NEW s \in Seq(S)
  PROVE  s = [i \in DOMAIN s |-> s[i]] /\ \A i \in DOMAIN s : s[i] \in S
OBVIOUS

(* The ids of data: lists and maps, and the filters of the same shape.     *)
LEMMA DataIDsThere ==
  ASSUME NEW ids, ids = [i \in DOMAIN ids |-> ids[i]], \A i \in DOMAIN ids : ids[i] \in DataID
  PROVE  /\ toDataIDsProto(ids) = ids /\ toDataIDs(ids) = ids
         /\ toDataIDAliasesProto(ids) = ids /\ toDataIDAliases(ids) = ids
         /\ toDataFiltersProto(ids) = ids /\ toDataFilters(ids) = ids
<1>1. \A i \in DOMAIN ids : toDataIDProto(ids[i]) = ids[i] /\ toDataID(ids[i]) = ids[i]
  BY DataIDThere
<1> QED BY <1>1 DEF toDataIDsProto, toDataIDs, toDataIDAliasesProto, toDataIDAliases,
                    toDataFiltersProto, toDataFilters

(* The filters of a downstream.                                            *)
LEMMA FiltersThere ==
  ASSUME NEW fs \in Seq(DownstreamFilter)
  PROVE  toDownstreamFilters(toDownstreamFiltersProto(fs)) = fs
<1>1. fs = [i \in DOMAIN fs |-> fs[i]] /\ \A i \in DOMAIN fs : fs[i] \in DownstreamFilter
  BY SeqIs
<1>2. ASSUME NEW i \in DOMAIN fs
      PROVE  LET filters == toDataFilters(toDataFiltersProto(fs[i].DataFilters))
             IN  fs[i] = [SourceNodeID |-> fs[i].SourceNodeID, DataFilters |-> filters]
  <2>1. /\ fs[i] = [SourceNodeID |-> fs[i].SourceNodeID, DataFilters |-> fs[i].DataFilters]
        /\ fs[i].DataFilters \in Seq(DataFilter)
    BY <1>1 DEF DownstreamFilter
  <2>2. toDataFilters(toDataFiltersProto(fs[i].DataFilters)) = fs[i].DataFilters
    BY <2>1, SeqIs, DataIDsThere DEF DataFilter, DataID
  <2> QED BY <2>1, <2>2
<1> QED BY <1>1, <1>2 DEF toDownstreamFilters, toDownstreamFiltersProto

(* Extension fields of the types that have none,                           *)
LEMMA PlainThere ==
  ASSUME NEW type, NEW x \in Plain,
         type \notin {"UpstreamOpenRequest", "UpstreamCloseRequest", "UpstreamMetadata"}
  PROVE  ExtensionProto(type, x) = x /\ Extension(type, x) = x
BY DEF Plain, ExtensionProto, Extension, StreamExtensionProto, StreamExtension

(* of the two with a flag to persist,                                      *)
LEMMA PersistsThere ==
  ASSUME NEW x \in Persists, NEW type \in {"UpstreamOpenRequest", "UpstreamMetadata"}
  PROVE  ExtensionProto(type, x) = x /\ Extension(type, x) = x
BY DEF Persists, ExtensionProto, Extension, StreamExtensionProto, StreamExtension, Nil

(* and of the one with a flag to close the session.                        *)
LEMMA CloseSessionsThere ==
  ASSUME NEW x \in CloseSessions
  PROVE  ExtensionProto("UpstreamCloseRequest", x) = x /\ Extension("UpstreamCloseRequest", x) = x
BY DEF CloseSessions, ExtensionProto, Extension, StreamExtensionProto, StreamExtension, Nil

(* The extension fields of a ConnectRequest.                               *)
LEMMA ConnectExtensionThere ==
  ASSUME NEW x \in {Nil} \cup ConnectRequestExtensionFields
  PROVE  toConnectRequestExtensionFields(toConnectRequestExtensionFieldsProto(x)) = x
<1>1. CASE x = Nil
  BY <1>1 DEF toConnectRequestExtensionFields, toConnectRequestExtensionFieldsProto
<1>2. CASE x \in ConnectRequestExtensionFields
  <2>1. x = [AccessToken |-> x.AccessToken, Intdash |-> x.Intdash] /\ x.AccessToken \in STRING
        /\ x.Intdash \in {Nil} \cup IntdashExtensionFields
    BY <1>2 DEF ConnectRequestExtensionFields
  <2>2. toIntdashExtensionFields(toIntdashExtenstionFieldsProto(x.Intdash)) = x.Intdash
    <3>1. CASE x.Intdash = Nil
      BY <3>1 DEF toIntdashExtensionFields, toIntdashExtenstionFieldsProto
    <3>2. CASE x.Intdash \in IntdashExtensionFields
      <4>1. x.Intdash = [ProjectUUID |-> x.Intdash.ProjectUUID] /\ x.Intdash.ProjectUUID \in UUIDs
        BY <3>2 DEF IntdashExtensionFields
      <4>2. x.Intdash # Nil /\ [ProjectUuid |-> x.Intdash.ProjectUUID] # Nil
        BY <4>1 DEF Nil
      <4>3. Errorless(x.Intdash)
        BY <4>1, MalformedAssumption DEF Errorless
      <4> QED BY <4>1, <4>2, <4>3, AllOrIs, UUIDThere
              DEF toIntdashExtensionFields, toIntdashExtenstionFieldsProto
    <3> QED BY <2>1, <3>1, <3>2
  <2>3. Errorless(x)
    BY <2>1, MalformedAssumption DEF Errorless
  <2>4. /\ x # Nil
        /\ toConnectRequestExtensionFieldsProto(x) # Nil
        /\ toConnectRequestExtensionFieldsProto(x).AccessToken = x.AccessToken
        /\ toConnectRequestExtensionFieldsProto(x).Intdash
             = toIntdashExtenstionFieldsProto(x.Intdash)
    BY <2>1 DEF toConnectRequestExtensionFieldsProto, Nil
  <2> QED BY <2>1, <2>2, <2>3, <2>4, AllOrIs DEF toConnectRequestExtensionFields
<1> QED BY <1>1, <1>2

(* One result of an UpstreamChunkAck.                                      *)
LEMMA UpstreamResultThere ==
  ASSUME NEW r \in UpstreamChunkResult, toUpstreamChunkResultProto(r) # Malformed
  PROVE  toUpstreamDataPointResult(toUpstreamChunkResultProto(r))
           = [r EXCEPT !.ResultCode = IF @ = "NormalClosure" THEN "Succeeded" ELSE @]
<1> DEFINE p == [SequenceNumber |-> r.SequenceNumber,
                 ResultCode |-> toResultCodeProto(r.ResultCode),
                 ResultString |-> r.ResultString, ExtensionFields |-> r.ExtensionFields]
           w == [SequenceNumber |-> r.SequenceNumber,
                 ResultCode |-> toResultCode(toResultCodeProto(r.ResultCode)),
                 ResultString |-> r.ResultString, ExtensionFields |-> r.ExtensionFields]
<1>1. /\ r = [SequenceNumber |-> r.SequenceNumber, ResultCode |-> r.ResultCode,
              ResultString |-> r.ResultString, ExtensionFields |-> r.ExtensionFields]
      /\ r.ExtensionFields \in Plain
  BY DEF UpstreamChunkResult
<1>2. /\ ExtensionProto("UpstreamChunkResult", r.ExtensionFields) = r.ExtensionFields
      /\ Extension("UpstreamChunkResult", r.ExtensionFields) = r.ExtensionFields
  BY <1>1, PlainThere
<1>3. toUpstreamChunkResultProto(r) = AllOr(p)
  BY <1>2 DEF toUpstreamChunkResultProto
<1>4. toUpstreamChunkResultProto(r) = p /\ Errorless(p)
  BY <1>3, AllOrFails
<1>5. /\ toResultCodeProto(r.ResultCode) # Malformed
      /\ Errorless(w)
  BY <1>4, CodeThere DEF Errorless
<1>6. toUpstreamDataPointResult(p) = AllOr(w)
  BY <1>2 DEF toUpstreamDataPointResult
<1>7. toUpstreamDataPointResult(p) = w
  BY <1>5, <1>6, AllOrIs
<1> QED BY <1>1, <1>4, <1>5, <1>7, CodeThere

(* One result of a DownstreamChunkAck.                                     *)
LEMMA DownstreamResultThere ==
  ASSUME NEW r \in DownstreamChunkResult, toDownstreamChunkResultProto(r) # Malformed
  PROVE  toDownstreamDataPointResult(toDownstreamChunkResultProto(r))
           = [r EXCEPT !.ResultCode = IF @ = "NormalClosure" THEN "Succeeded" ELSE @]
<1> DEFINE p == [StreamIdOfUpstream |-> r.StreamIDOfUpstream,
                 SequenceNumberInUpstream |-> r.SequenceNumberInUpstream,
                 ResultCode |-> toResultCodeProto(r.ResultCode),
                 ResultString |-> r.ResultString, ExtensionFields |-> r.ExtensionFields]
           w == [StreamIDOfUpstream |-> r.StreamIDOfUpstream,
                 SequenceNumberInUpstream |-> r.SequenceNumberInUpstream,
                 ResultCode |-> toResultCode(toResultCodeProto(r.ResultCode)),
                 ResultString |-> r.ResultString, ExtensionFields |-> r.ExtensionFields]
<1>1. /\ r = [StreamIDOfUpstream |-> r.StreamIDOfUpstream,
              SequenceNumberInUpstream |-> r.SequenceNumberInUpstream,
              ResultCode |-> r.ResultCode, ResultString |-> r.ResultString,
              ExtensionFields |-> r.ExtensionFields]
      /\ r.ExtensionFields \in Plain
      /\ toUUID(r.StreamIDOfUpstream) = r.StreamIDOfUpstream
  BY UUIDThere DEF DownstreamChunkResult
<1>2. /\ ExtensionProto("DownstreamChunkResult", r.ExtensionFields) = r.ExtensionFields
      /\ Extension("DownstreamChunkResult", r.ExtensionFields) = r.ExtensionFields
  BY <1>1, PlainThere
<1>3. toDownstreamChunkResultProto(r) = AllOr(p)
  BY <1>2 DEF toDownstreamChunkResultProto
<1>4. toDownstreamChunkResultProto(r) = p /\ Errorless(p)
  BY <1>3, AllOrFails
<1>5. /\ toResultCodeProto(r.ResultCode) # Malformed
      /\ Errorless(w)
  BY <1>4, CodeThere DEF Errorless
<1>6. toDownstreamDataPointResult(p) = AllOr(w)
  BY <1>1, <1>2 DEF toDownstreamDataPointResult
<1>7. toDownstreamDataPointResult(p) = w
  BY <1>5, <1>6, AllOrIs
<1> QED BY <1>1, <1>4, <1>5, <1>7, CodeThere

(* The results of an UpstreamChunkAck.                                     *)
LEMMA UpstreamResultsThere ==
  ASSUME NEW rs \in Seq(UpstreamChunkResult), Each(toUpstreamChunkResultProto, rs) # Malformed
  PROVE  /\ Each(toUpstreamDataPointResult, Each(toUpstreamChunkResultProto, rs))
              = AtPeer("Results", rs)
         /\ AtPeer("Results", rs) # Malformed
<1> DEFINE p == [i \in DOMAIN rs |-> toUpstreamChunkResultProto(rs[i])]
           w == [i \in DOMAIN rs |-> toUpstreamDataPointResult(p[i])]
           read == [i \in DOMAIN rs |->
                      [rs[i] EXCEPT !.ResultCode =
                         IF @ = "NormalClosure" THEN "Succeeded" ELSE @]]
<1>1. Each(toUpstreamChunkResultProto, rs) = AllOr(p)
  BY DEF Each
<1>2. AllOr(p) = p /\ Errorless(p)
  BY <1>1, AllOrFails
<1>3. Each(toUpstreamDataPointResult, p) = AllOr(w)
  BY DEF Each
<1>4. ASSUME NEW i \in DOMAIN rs
      PROVE  w[i] = read[i] /\ read[i] \in UpstreamChunkResult
  <2>1. rs[i] \in UpstreamChunkResult /\ toUpstreamChunkResultProto(rs[i]) # Malformed
    BY <1>2, SeqIs DEF Errorless
  <2>2. w[i] = read[i]
    BY <2>1, UpstreamResultThere
  <2>3. "Succeeded" \in ResultCode
    BY DEF ResultCode
  <2> QED BY <2>1, <2>2, <2>3 DEF UpstreamChunkResult
<1>5. ASSUME NEW i \in DOMAIN w
      PROVE  w[i] # Malformed
  <2>1. w[i] \in UpstreamChunkResult
    BY <1>4
  <2> QED BY <2>1, MalformedAssumption
<1>6. AllOr(w) = w /\ w = read
  BY <1>4, <1>5, AllOrIs DEF Errorless
<1>7. AtPeer("Results", rs) = read
  BY DEF AtPeer
<1>8. read \in Seq(UpstreamChunkResult)
  BY <1>4
<1>9. read # Malformed
  BY <1>8, MalformedAssumption
<1> QED BY <1>1, <1>2, <1>3, <1>6, <1>7, <1>9

(* The results of a DownstreamChunkAck.                                    *)
LEMMA DownstreamResultsThere ==
  ASSUME NEW rs \in Seq(DownstreamChunkResult), Each(toDownstreamChunkResultProto, rs) # Malformed
  PROVE  /\ Each(toDownstreamDataPointResult, Each(toDownstreamChunkResultProto, rs))
              = AtPeer("Results", rs)
         /\ AtPeer("Results", rs) # Malformed
<1> DEFINE p == [i \in DOMAIN rs |-> toDownstreamChunkResultProto(rs[i])]
           w == [i \in DOMAIN rs |-> toDownstreamDataPointResult(p[i])]
           read == [i \in DOMAIN rs |->
                      [rs[i] EXCEPT !.ResultCode =
                         IF @ = "NormalClosure" THEN "Succeeded" ELSE @]]
<1>1. Each(toDownstreamChunkResultProto, rs) = AllOr(p)
  BY DEF Each
<1>2. AllOr(p) = p /\ Errorless(p)
  BY <1>1, AllOrFails
<1>3. Each(toDownstreamDataPointResult, p) = AllOr(w)
  BY DEF Each
<1>4. ASSUME NEW i \in DOMAIN rs
      PROVE  w[i] = read[i] /\ read[i] \in DownstreamChunkResult
  <2>1. rs[i] \in DownstreamChunkResult /\ toDownstreamChunkResultProto(rs[i]) # Malformed
    BY <1>2, SeqIs DEF Errorless
  <2>2. w[i] = read[i]
    BY <2>1, DownstreamResultThere
  <2>3. "Succeeded" \in ResultCode
    BY DEF ResultCode
  <2> QED BY <2>1, <2>2, <2>3 DEF DownstreamChunkResult
<1>5. ASSUME NEW i \in DOMAIN w
      PROVE  w[i] # Malformed
  <2>1. w[i] \in DownstreamChunkResult
    BY <1>4
  <2> QED BY <2>1, MalformedAssumption
<1>6. AllOr(w) = w /\ w = read
  BY <1>4, <1>5, AllOrIs DEF Errorless
<1>7. AtPeer("Results", rs) = read
  BY DEF AtPeer
<1>8. read \in Seq(DownstreamChunkResult)
  BY <1>4
<1>9. read # Malformed
  BY <1>8, MalformedAssumption
<1> QED BY <1>1, <1>2, <1>3, <1>6, <1>7, <1>9

(* The description of an upstream.                                         *)
LEMMA InfoThere ==
  ASSUME NEW info \in UpstreamInfo
  PROVE  toUpstreamInfo(toUpstreamInfoProto(info)) = info
<1>1. /\ info = [SessionID |-> info.SessionID, SourceNodeID |-> info.SourceNodeID,
                 StreamID |-> info.StreamID]
      /\ info.SessionID \in STRING /\ info.SourceNodeID \in STRING /\ info.StreamID \in UUIDs
  BY DEF UpstreamInfo
<1>2. Errorless(info)
  BY <1>1, MalformedAssumption DEF Errorless
<1>3. AllOr(info) = info
  BY <1>2, AllOrIs
<1>4. toUpstreamInfo(toUpstreamInfoProto(info)) = AllOr([SessionID |-> info.SessionID,
        SourceNodeID |-> info.SourceNodeID, StreamID |-> info.StreamID])
  BY <1>1, UUIDThere DEF toUpstreamInfo, toUpstreamInfoProto
<1> QED BY <1>1, <1>3, <1>4

(* The aliases of upstreams in a DownstreamChunkAck.                       *)
LEMMA AliasesThere ==
  ASSUME NEW B \in SUBSET Aliases, NEW aliases \in [B -> UpstreamInfo]
  PROVE  toUpstreamAliases(toUpstreamAliasesProto(aliases)) = aliases /\ aliases # Malformed
<1>1. aliases = [a \in B |-> aliases[a]] /\ \A a \in B : aliases[a] \in UpstreamInfo
  OBVIOUS
<1>2. toUpstreamAliases(toUpstreamAliasesProto(aliases)) = AllOr(aliases)
  BY <1>1, InfoThere DEF toUpstreamAliases, toUpstreamAliasesProto
<1>3. Errorless(aliases)
  BY <1>1, MalformedAssumption DEF Errorless, UpstreamOrAlias
<1>4. aliases # Malformed
  BY MalformedAssumption
<1> QED BY <1>2, <1>3, <1>4, AllOrIs

(* The upstream of a DownstreamChunk, or its alias.                        *)
LEMMA UnionThere ==
  ASSUME NEW u \in {Nil} \cup UpstreamOrAlias, toUpstreamOrAliasProto(u) # Malformed
  PROVE  toUpstreamOrAlias(toUpstreamOrAliasProto(u)) = u /\ u # Malformed
<1>1. u # Nil
  <2>1. toUpstreamOrAliasProto(Nil) = Malformed
    BY DEF toUpstreamOrAliasProto, Nil
  <2> QED BY <2>1
<1>2. u \in UpstreamOrAlias
  BY <1>1 DEF UpstreamOrAlias
<1>3. u # Malformed
  BY <1>2, MalformedAssumption
<1>4. CASE u \in UpstreamInfo
  <2>1. "UpstreamAlias" \notin DOMAIN u
    BY <1>4 DEF UpstreamInfo
  <2>2. toUpstreamOrAliasProto(u) = [UpstreamInfo |-> toUpstreamInfoProto(u)]
    BY <1>1, <2>1 DEF toUpstreamOrAliasProto
  <2>3. toUpstreamOrAlias([UpstreamInfo |-> toUpstreamInfoProto(u)])
          = toUpstreamInfo(toUpstreamInfoProto(u))
    BY DEF toUpstreamOrAlias, Nil
  <2> QED BY <1>3, <1>4, <2>2, <2>3, InfoThere
<1>5. CASE u \in [UpstreamAlias : Nat]
  <2>1. u = [UpstreamAlias |-> u.UpstreamAlias]
    BY <1>5
  <2>2. toUpstreamOrAliasProto(u) = u
    BY <1>1, <2>1 DEF toUpstreamOrAliasProto
  <2> QED BY <1>1, <1>3, <2>1, <2>2 DEF toUpstreamOrAlias
<1> QED BY <1>1, <1>4, <1>5 DEF UpstreamOrAlias

(* The data points of a group.                                             *)
LEMMA PointsThere ==
  ASSUME NEW dps \in Seq(DataPoint)
  PROVE  toDataPoints(toDataPointsProto(dps)) = dps
<1>1. dps = [i \in DOMAIN dps |-> dps[i]] /\ \A i \in DOMAIN dps : dps[i] \in DataPoint
  BY SeqIs
<1>2. \A i \in DOMAIN dps :
        dps[i] = [ElapsedTime |-> dps[i].ElapsedTime, Payload |-> dps[i].Payload]
  BY <1>1 DEF DataPoint
<1> QED BY <1>1, <1>2 DEF toDataPoints, toDataPointsProto

(* A group of data points.                                                 *)
LEMMA GroupThere ==
  ASSUME NEW g \in DataPointGroup
  PROVE  /\ toDataPointGroup(toDataPointGroupProto(g)) = g
         /\ g # Malformed
<1>1. /\ g = [DataIDOrAlias |-> g.DataIDOrAlias, DataPoints |-> g.DataPoints]
      /\ g.DataIDOrAlias \in DataIDOrAlias /\ g.DataPoints \in Seq(DataPoint)
  BY DEF DataPointGroup
<1>2. toDataIDOrAlias(toDataIDOrAliasProto(g.DataIDOrAlias)) = g.DataIDOrAlias
  <2>1. CASE g.DataIDOrAlias \in DataID
    <3>1. "DataIDAlias" \notin DOMAIN g.DataIDOrAlias /\ g.DataIDOrAlias # Nil
      BY <2>1 DEF DataID, Nil
    <3>2. toDataIDOrAliasProto(g.DataIDOrAlias) = [DataId |-> toDataIDProto(g.DataIDOrAlias)]
      BY <3>1 DEF toDataIDOrAliasProto
    <3>3. toDataIDOrAlias([DataId |-> toDataIDProto(g.DataIDOrAlias)])
            = toDataID(toDataIDProto(g.DataIDOrAlias))
      BY DEF toDataIDOrAlias, Nil
    <3> QED BY <2>1, <3>2, <3>3, DataIDThere
  <2>2. CASE g.DataIDOrAlias \in [DataIDAlias : Nat]
    <3>1. g.DataIDOrAlias = [DataIDAlias |-> g.DataIDOrAlias.DataIDAlias] /\ g.DataIDOrAlias # Nil
      BY <2>2 DEF Nil
    <3>2. toDataIDOrAliasProto(g.DataIDOrAlias) = [DataIdAlias |-> g.DataIDOrAlias.DataIDAlias]
      BY <3>1 DEF toDataIDOrAliasProto
    <3>3. toDataIDOrAlias([DataIdAlias |-> g.DataIDOrAlias.DataIDAlias])
            = [DataIDAlias |-> g.DataIDOrAlias.DataIDAlias]
      BY DEF toDataIDOrAlias, Nil
    <3> QED BY <3>1, <3>2, <3>3
  <2> QED BY <1>1, <2>1, <2>2 DEF DataIDOrAlias
<1>3. toDataPoints(toDataPointsProto(g.DataPoints)) = g.DataPoints
  BY <1>1, PointsThere
<1>4. Errorless(g)
  BY <1>1, MalformedAssumption DEF Errorless
<1>5. toDataPointGroup(toDataPointGroupProto(g)) = AllOr(g)
  BY <1>1, <1>2, <1>3 DEF toDataPointGroup, toDataPointGroupProto
<1>6. g # Malformed
  BY MalformedAssumption
<1> QED BY <1>4, <1>5, <1>6, AllOrIs

(* The chunk of a stream; one that is nil is read as an empty one.         *)
LEMMA ChunkThere ==
  ASSUME NEW c \in {Nil} \cup StreamChunk, toStreamChunkProto(c) # Malformed
  PROVE  /\ toStreamChunk(toStreamChunkProto(c)) = AtPeer("StreamChunk", c)
         /\ AtPeer("StreamChunk", c) # Malformed
<1> DEFINE none == [SequenceNumber |-> 0, DataPointGroups |-> <<>>]
<1>1. AtPeer("StreamChunk", c) = IF c = Nil THEN none ELSE c
  BY DEF AtPeer
<1>2. Each(toDataPointGroup, <<>>) = <<>>
  BY DEF Each, AllOr
<1>3. CASE c = Nil
  <2>1. toStreamChunkProto(c) = none /\ none # Nil
    BY <1>3 DEF toStreamChunkProto, Nil
  <2>2. toStreamChunk(none) = AllOr(none)
    BY <1>2, <2>1 DEF toStreamChunk
  <2>4. none \in StreamChunk
    BY DEF StreamChunk
  <2>5. none # Malformed
    BY <2>4, MalformedAssumption
  <2>3. Errorless(none)
    <3>1. <<>> \in Seq(DataPointGroup)
      OBVIOUS
    <3>2. <<>> # Malformed
      BY <3>1, MalformedAssumption
    <3> QED BY <3>2, Apart DEF Errorless
  <2> QED BY <1>1, <1>3, <2>1, <2>2, <2>3, <2>5, AllOrIs
<1>4. CASE c \in StreamChunk
  <2> DEFINE groups == c.DataPointGroups
             p == [i \in DOMAIN groups |-> toDataPointGroupProto(groups[i])]
             w == [i \in DOMAIN groups |-> toDataPointGroup(p[i])]
             pc == [SequenceNumber |-> c.SequenceNumber, DataPointGroups |-> p]
  <2>1. /\ c = [SequenceNumber |-> c.SequenceNumber, DataPointGroups |-> groups]
        /\ c.SequenceNumber \in Nat /\ groups \in Seq(DataPointGroup) /\ c # Nil
    BY <1>4 DEF StreamChunk, Nil
  <2>2. /\ groups = [i \in DOMAIN groups |-> groups[i]]
        /\ \A i \in DOMAIN groups : groups[i] \in DataPointGroup
    BY <2>1, SeqIs
  <2>3. w = groups /\ Errorless(groups)
    BY <2>2, GroupThere DEF Errorless
  <2>4. Each(toDataPointGroup, p) = groups
    <3>1. Each(toDataPointGroup, p) = AllOr(w)
      BY DEF Each
    <3> QED BY <2>3, <3>1, AllOrIs
  <2>5. Each(toDataPointGroupProto, groups) = AllOr(p)
    BY DEF Each
  <2>6. toStreamChunkProto(c) = pc /\ pc # Nil
    <3> DEFINE q == [SequenceNumber |-> c.SequenceNumber, DataPointGroups |-> AllOr(p)]
    <3>1. toStreamChunkProto(c) = AllOr(q)
      BY <2>1, <2>5 DEF toStreamChunkProto
    <3>2. toStreamChunkProto(c) = q /\ Errorless(q)
      BY <3>1, AllOrFails
    <3>3. AllOr(p) # Malformed
      BY <3>2 DEF Errorless
    <3>4. q = pc
      BY <3>3, AllOrFails
    <3> QED BY <3>2, <3>4 DEF Nil
  <2>7. toStreamChunk(pc) = AllOr(c)
    BY <2>1, <2>4, <2>6 DEF toStreamChunk
  <2>8. Errorless(c)
    BY <2>1, MalformedAssumption DEF Errorless
  <2>9. c # Malformed
    BY <1>4, MalformedAssumption
  <2> QED BY <1>1, <2>1, <2>6, <2>7, <2>8, <2>9, AllOrIs
<1> QED BY <1>3, <1>4

(* The references to filters of a DownstreamChunk.                         *)
LEMMA ReferencesThere ==
  ASSUME NEW groups \in Seq(Seq(DownstreamFilterReference))
  PROVE  toDownstreamFilterReferencesWire(toDownstreamFilterReferencesProto(groups)) = groups
<1>1. groups = [i \in DOMAIN groups |-> groups[i]]
  BY SeqIs
<1>2. ASSUME NEW i \in DOMAIN groups
      PROVE  groups[i] = [j \in DOMAIN groups[i] |->
                            [DownstreamFilterIndex |-> groups[i][j].DownstreamFilterIndex,
                             DataFilterIndex       |-> groups[i][j].DataFilterIndex]]
  <2>1. groups[i] \in Seq(DownstreamFilterReference)
    BY SeqIs
  <2>2. /\ groups[i] = [j \in DOMAIN groups[i] |-> groups[i][j]]
        /\ \A j \in DOMAIN groups[i] : groups[i][j] \in DownstreamFilterReference
    BY <2>1, SeqIs
  <2>3. \A j \in DOMAIN groups[i] :
          groups[i][j] = [DownstreamFilterIndex |-> groups[i][j].DownstreamFilterIndex,
                          DataFilterIndex       |-> groups[i][j].DataFilterIndex]
    BY <2>2 DEF DownstreamFilterReference
  <2> QED BY <2>2, <2>3
<1>3. toDownstreamFilterReferencesWire(toDownstreamFilterReferencesProto(groups))
        = [i \in DOMAIN groups |-> [j \in DOMAIN groups[i] |->
                            [DownstreamFilterIndex |-> groups[i][j].DownstreamFilterIndex,
                             DataFilterIndex       |-> groups[i][j].DataFilterIndex]]]
  BY DEF toDownstreamFilterReferencesWire, toDownstreamFilterReferencesProto
<1> QED BY <1>1, <1>2, <1>3

(* A base time.                                                            *)
LEMMA BaseTimeThere ==
  ASSUME NEW v \in BaseTime, Tagged("BaseTime", ToBaseTimeProto(v)) # Malformed
  PROVE  LET pb == Tagged("BaseTime", ToBaseTimeProto(v))
         IN  pb # Nil /\ pb.kind = "BaseTime" /\ Tagged("BaseTime", ToBaseTime(pb)) = v
<1> DEFINE p == ToBaseTimeProto(v)
           pb == WithKind("BaseTime", p)
           b == [SessionID |-> v.SessionID, Name |-> v.Name, Priority |-> v.Priority,
                 ElapsedTime |-> v.ElapsedTime, BaseTime |-> v.BaseTime]
<1>1. v = WithKind("BaseTime", b) /\ v.ElapsedTime \in -(Width \div 2)..(Width \div 2 - 1)
      /\ v.ElapsedTime \in Int
  BY ConvertAssumption DEF BaseTime, WithKind
<1>2. "kind" \notin DOMAIN p
  BY DEF ToBaseTimeProto
<1>3. Tagged("BaseTime", p) = pb /\ Errorless(p)
  <2>1. Tagged("BaseTime", p) # Malformed
    OBVIOUS
  <2> HIDE DEF p
  <2> QED BY <1>2, <2>1, TaggedAccepted
<1>4. pb # Nil /\ pb.kind = "BaseTime"
  BY DEF WithKind, Nil
<1>5. ToBaseTime(pb) = b
  BY <1>1, SignedThere DEF ToBaseTime, ToBaseTimeProto, WithKind
<1>6. Errorless(b) /\ "kind" \notin DOMAIN b
  BY <1>1, <1>3, Apart DEF Errorless, ToBaseTimeProto
<1>7. Tagged("BaseTime", b) = v
  <2> HIDE DEF b
  <2> QED BY <1>1, <1>6, TaggedIs, Apart
<1> QED BY <1>3, <1>4, <1>5, <1>7

(* The metadata about an upstream,                                         *)
SomeUpstreamEvent ==
  StartedUpstream("UpstreamOpen") \cup StartedUpstream("UpstreamResume")
    \cup UpstreamAbnormalClose \cup UpstreamNormalClose

(* and about a downstream.                                                 *)
SomeDownstreamEvent ==
  StartedDownstream("DownstreamOpen") \cup StartedDownstream("DownstreamResume")
    \cup EndedDownstream("DownstreamAbnormalClose") \cup EndedDownstream("DownstreamNormalClose")

(* Metadata about an upstream's opening, resuming and closing,             *)
LEMMA UpstreamEventThere ==
  ASSUME NEW v \in SomeUpstreamEvent, Tagged(v.kind, toUpstreamEventProto(v)) # Malformed
  PROVE  LET pb == Tagged(v.kind, toUpstreamEventProto(v))
         IN  pb # Nil /\ pb.kind = v.kind /\ Tagged(v.kind, ToUpstreamEvent(pb)) = v
<1> DEFINE p == toUpstreamEventProto(v)
           pb == WithKind(v.kind, p)
           b == [f \in DOMAIN v \ {"kind"} |-> v[f]]
<1>1. v = WithKind(v.kind, b) /\ v.kind \in UpstreamEvents /\ "kind" \notin DOMAIN b
  BY DEF SomeUpstreamEvent, StartedUpstream, UpstreamAbnormalClose, UpstreamNormalClose, WithKind,
         UpstreamEvents
<1>2. "kind" \notin DOMAIN p
  BY DEF toUpstreamEventProto, SomeUpstreamEvent, StartedUpstream, UpstreamAbnormalClose,
         UpstreamNormalClose
<1>3. Tagged(v.kind, p) = pb /\ Errorless(p)
  <2>1. Tagged(v.kind, p) # Malformed
    OBVIOUS
  <2> HIDE DEF p
  <2> QED BY <1>2, <2>1, TaggedAccepted
<1>4. pb # Nil /\ pb.kind = v.kind
  BY DEF WithKind, Nil
<1>5. ToUpstreamEvent(pb) = b /\ Errorless(b)
  <2>1. CASE v \in StartedUpstream("UpstreamOpen") \cup StartedUpstream("UpstreamResume")
    <3>1. p = [StreamId |-> v.StreamID, SessionId |-> v.SessionID, Qos |-> toQoSProto(v.QoS)]
      BY <2>1 DEF toUpstreamEventProto, StartedUpstream
    <3>2. b = [StreamID |-> v.StreamID, SessionID |-> v.SessionID, QoS |-> v.QoS]
          /\ v.StreamID \in UUIDs /\ v.QoS \in QoS
      BY <2>1 DEF StartedUpstream
    <3>3. ToUpstreamEvent(pb) = b
      BY <1>3, <2>1, <3>1, <3>2, QoSThere, UUIDThere
      DEF ToUpstreamEvent, StartedUpstream, WithKind, Errorless
    <3> QED BY <1>3, <3>1, <3>2, <3>3, Apart DEF Errorless
  <2>2. CASE v \in UpstreamAbnormalClose
    <3>1. p = [StreamId |-> v.StreamID, SessionId |-> v.SessionID]
      BY <2>2 DEF toUpstreamEventProto, UpstreamAbnormalClose
    <3>2. b = [StreamID |-> v.StreamID, SessionID |-> v.SessionID] /\ v.StreamID \in UUIDs
      BY <2>2 DEF UpstreamAbnormalClose
    <3>3. ToUpstreamEvent(pb) = b
      BY <1>3, <2>2, <3>1, <3>2, UUIDThere DEF ToUpstreamEvent, UpstreamAbnormalClose, WithKind
    <3> QED BY <1>3, <3>1, <3>2, <3>3 DEF Errorless
  <2>3. CASE v \in UpstreamNormalClose
    <3>1. p = [StreamId |-> v.StreamID, SessionId |-> v.SessionID,
               TotalDataPoints |-> v.TotalDataPoints,
               FinalSequenceNumber |-> v.FinalSequenceNumber]
      BY <2>3 DEF toUpstreamEventProto, UpstreamNormalClose
    <3>2. b = [StreamID |-> v.StreamID, SessionID |-> v.SessionID,
               TotalDataPoints |-> v.TotalDataPoints,
               FinalSequenceNumber |-> v.FinalSequenceNumber]
          /\ v.StreamID \in UUIDs
      BY <2>3 DEF UpstreamNormalClose
    <3>3. ToUpstreamEvent(pb) = b
      BY <1>3, <2>3, <3>1, <3>2, UUIDThere DEF ToUpstreamEvent, UpstreamNormalClose, WithKind
    <3> QED BY <1>3, <3>1, <3>2, <3>3 DEF Errorless
  <2> QED BY <2>1, <2>2, <2>3 DEF SomeUpstreamEvent
<1>6. Tagged(v.kind, b) = v
  <2> HIDE DEF b
  <2> QED BY <1>1, <1>5, TaggedIs, Apart
<1> QED BY <1>3, <1>4, <1>5, <1>6

(* and about that of a downstream.                                         *)
LEMMA DownstreamEventThere ==
  ASSUME NEW v \in SomeDownstreamEvent, Tagged(v.kind, toDownstreamEventProto(v)) # Malformed
  PROVE  LET pb == Tagged(v.kind, toDownstreamEventProto(v))
         IN  pb # Nil /\ pb.kind = v.kind /\ Tagged(v.kind, ToDownstreamEvent(pb)) = v
<1> DEFINE p == toDownstreamEventProto(v)
           pb == WithKind(v.kind, p)
           b == [f \in DOMAIN v \ {"kind"} |-> v[f]]
<1>1. v = WithKind(v.kind, b) /\ v.kind \in DownstreamEvents /\ "kind" \notin DOMAIN b
  BY DEF SomeDownstreamEvent, StartedDownstream, EndedDownstream, WithKind, DownstreamEvents
<1>2. "kind" \notin DOMAIN p
  BY DEF toDownstreamEventProto, SomeDownstreamEvent, StartedDownstream, EndedDownstream
<1>3. Tagged(v.kind, p) = pb /\ Errorless(p)
  <2>1. Tagged(v.kind, p) # Malformed
    OBVIOUS
  <2> HIDE DEF p
  <2> QED BY <1>2, <2>1, TaggedAccepted
<1>4. pb # Nil /\ pb.kind = v.kind
  BY DEF WithKind, Nil
<1>5. ToDownstreamEvent(pb) = b /\ Errorless(b)
  <2>1. CASE v \in StartedDownstream("DownstreamOpen") \cup StartedDownstream("DownstreamResume")
    <3>1. p = [StreamId |-> v.StreamID, Qos |-> toQoSProto(v.QoS),
               DownstreamFilters |-> toDownstreamFiltersProto(v.DownstreamFilters)]
      BY <2>1 DEF toDownstreamEventProto, StartedDownstream
    <3>2. b = [StreamID |-> v.StreamID, QoS |-> v.QoS, DownstreamFilters |-> v.DownstreamFilters]
          /\ v.StreamID \in UUIDs /\ v.QoS \in QoS
          /\ v.DownstreamFilters \in Seq(DownstreamFilter)
      BY <2>1 DEF StartedDownstream
    <3>3. toDownstreamFilters(toDownstreamFiltersProto(v.DownstreamFilters)) = v.DownstreamFilters
          /\ v.DownstreamFilters # Malformed
      BY <3>2, FiltersThere, MalformedAssumption
    <3>4. toQoS(toQoSProto(v.QoS)) = v.QoS /\ toUUID(v.StreamID) = v.StreamID
      BY <1>3, <3>1, <3>2, QoSThere, UUIDThere DEF Errorless
    <3>5. ToDownstreamEvent(pb) = b
      BY <2>1, <3>1, <3>2, <3>3, <3>4 DEF ToDownstreamEvent, StartedDownstream, WithKind
    <3>6. v.StreamID # Malformed /\ v.QoS # Malformed
      BY <1>3, <3>1, <3>2, Apart DEF Errorless
    <3> QED BY <3>2, <3>3, <3>5, <3>6 DEF Errorless
  <2>2. CASE v \in EndedDownstream("DownstreamAbnormalClose")
                    \cup EndedDownstream("DownstreamNormalClose")
    <3>1. p = [StreamId |-> v.StreamID]
      BY <2>2 DEF toDownstreamEventProto, EndedDownstream
    <3>2. b = [StreamID |-> v.StreamID] /\ v.StreamID \in UUIDs
      BY <2>2 DEF EndedDownstream
    <3>3. ToDownstreamEvent(pb) = b
      BY <1>3, <2>2, <3>1, <3>2, UUIDThere DEF ToDownstreamEvent, EndedDownstream, WithKind
    <3> QED BY <1>3, <3>1, <3>2, <3>3 DEF Errorless
  <2> QED BY <2>1, <2>2 DEF SomeDownstreamEvent
<1>6. Tagged(v.kind, b) = v
  <2> HIDE DEF b
  <2> QED BY <1>1, <1>5, TaggedIs, Apart
<1> QED BY <1>3, <1>4, <1>5, <1>6

(* The metadata of an UpstreamMetadata,                                    *)
LEMMA SendableThere ==
  ASSUME NEW v \in {Nil} \cup SendableMetadata, toUpstreamMetadataProto(v) # Malformed
  PROVE  toMetadataUpstream(toUpstreamMetadataProto(v)) = v /\ v # Malformed
<1>1. /\ v # Nil /\ v.kind = "BaseTime"
      /\ toUpstreamMetadataProto(v) = Tagged("BaseTime", ToBaseTimeProto(v))
  BY DEF toUpstreamMetadataProto
<1>2. v \in BaseTime
  BY <1>1 DEF SendableMetadata
<1>3. v # Malformed
  BY <1>2, MalformedAssumption DEF Metadata
<1> QED BY <1>1, <1>2, <1>3, BaseTimeThere DEF toMetadataUpstream

(* and of a DownstreamMetadata.                                            *)
LEMMA MetadataThere ==
  ASSUME NEW v \in {Nil} \cup Metadata, toDownstreamMetadataProto(v) # Malformed
  PROVE  toDownstreamMetadata(toDownstreamMetadataProto(v)) = v /\ v # Malformed
<1>1. v # Nil
  BY DEF toDownstreamMetadataProto
<1>2. v # Malformed
  BY <1>1, MalformedAssumption
<1>3. CASE v \in BaseTime
  <2>1. v.kind = "BaseTime"
    BY <1>3 DEF BaseTime
  <2>2. toDownstreamMetadataProto(v) = Tagged("BaseTime", ToBaseTimeProto(v))
    BY <1>1, <2>1 DEF toDownstreamMetadataProto, UpstreamEvents, DownstreamEvents
  <2> DEFINE pb == Tagged("BaseTime", ToBaseTimeProto(v))
  <2>3. pb # Nil /\ pb.kind = "BaseTime" /\ Tagged("BaseTime", ToBaseTime(pb)) = v
    BY <1>3, <2>2, BaseTimeThere
  <2> HIDE DEF pb
  <2>4. toDownstreamMetadata(pb) = Tagged("BaseTime", ToBaseTime(pb))
    BY <2>3 DEF toDownstreamMetadata, UpstreamEvents, DownstreamEvents
  <2> QED BY <1>2, <2>2, <2>3, <2>4 DEF pb
<1>4. CASE v \in SomeUpstreamEvent
  <2>1. v.kind \in UpstreamEvents
    BY <1>4 DEF SomeUpstreamEvent, StartedUpstream, UpstreamAbnormalClose, UpstreamNormalClose,
                UpstreamEvents
  <2> DEFINE pb == Tagged(v.kind, toUpstreamEventProto(v))
  <2>2. toDownstreamMetadataProto(v) = pb
    BY <1>1, <2>1 DEF toDownstreamMetadataProto, UpstreamEvents, DownstreamEvents
  <2>3. pb # Nil /\ pb.kind = v.kind /\ Tagged(v.kind, ToUpstreamEvent(pb)) = v
    BY <1>4, <2>2, UpstreamEventThere
  <2> HIDE DEF pb
  <2>4. toDownstreamMetadata(pb) = Tagged(v.kind, ToUpstreamEvent(pb))
    BY <2>1, <2>3 DEF toDownstreamMetadata, UpstreamEvents, DownstreamEvents
  <2> QED BY <1>2, <2>2, <2>3, <2>4
<1>5. CASE v \in SomeDownstreamEvent
  <2>1. v.kind \in DownstreamEvents
    BY <1>5 DEF SomeDownstreamEvent, StartedDownstream, EndedDownstream, DownstreamEvents
  <2> DEFINE pb == Tagged(v.kind, toDownstreamEventProto(v))
  <2>2. toDownstreamMetadataProto(v) = pb
    BY <1>1, <2>1 DEF toDownstreamMetadataProto, UpstreamEvents, DownstreamEvents
  <2>3. pb # Nil /\ pb.kind = v.kind /\ Tagged(v.kind, ToDownstreamEvent(pb)) = v
    BY <1>5, <2>2, DownstreamEventThere
  <2> HIDE DEF pb
  <2>4. toDownstreamMetadata(pb) = Tagged(v.kind, ToDownstreamEvent(pb))
    BY <2>1, <2>3 DEF toDownstreamMetadata, UpstreamEvents, DownstreamEvents
  <2> QED BY <1>2, <2>2, <2>3, <2>4
<1> QED BY <1>1, <1>3, <1>4, <1>5 DEF Metadata, SomeUpstreamEvent, SomeDownstreamEvent

-----------------------------------------------------------------------------
(* The messages, one kind at a time.                                       *)

(* The fields of the message the peer is to find, but for the kind,        *)
Body(m) == [f \in DOMAIN m \ {"kind"} |-> AtPeer(f, m[f])]

(* the extension fields as WireToProto converts them,                      *)
ToExt(m) == IF m.kind = "ConnectRequest" THEN Nil ELSE ExtensionProto(m.kind, m.ExtensionFields)

(* and as ProtoToWire does.                                                *)
FromExt(pb) == IF pb.kind = "ConnectRequest" THEN Nil ELSE Extension(pb.kind, pb.ExtensionFields)

(* The extension fields that the kinds of messages have.                   *)
HasExtension(m) ==
  \/ m.kind \in {"UpstreamOpenRequest", "UpstreamMetadata"} /\ m.ExtensionFields \in Persists
  \/ m.kind = "UpstreamCloseRequest" /\ m.ExtensionFields \in CloseSessions
  \/ /\ m.kind \notin {"ConnectRequest", "UpstreamOpenRequest", "UpstreamMetadata",
                       "UpstreamCloseRequest"}
     /\ m.ExtensionFields \in Plain

(* The extension fields of every message but a ConnectRequest.             *)
LEMMA ExtensionThere ==
  ASSUME NEW m, HasExtension(m), NEW pb, pb.kind = m.kind, pb.ExtensionFields = ToExt(m)
  PROVE  pb.ExtensionFields = m.ExtensionFields /\ FromExt(pb) = m.ExtensionFields
BY PlainThere, PersistsThere, CloseSessionsThere DEF HasExtension, ToExt, FromExt

(* A ConnectRequest.                                                       *)
LEMMA ConnectRequestThere ==
  ASSUME NEW m \in ConnectRequest,
         NEW p, p = ConnectionToProto(m, ToExt(m)), Errorless(p),
         NEW pb, pb = WithKind(m.kind, p)
  PROVE  ConnectionToWire(pb, FromExt(pb)) = Body(m) /\ Errorless(Body(m))
<1>1. /\ (m.PingInterval \div Second) * Second = m.PingInterval - (m.PingInterval % Second)
      /\ (m.PingTimeout \div Second) * Second = m.PingTimeout - (m.PingTimeout % Second)
      /\ m.PingInterval - (m.PingInterval % Second) # Malformed
      /\ m.PingTimeout - (m.PingTimeout % Second) # Malformed
  BY IntervalThere, Apart DEF ConnectRequest
<1>2. /\ m.ExtensionFields \in {Nil} \cup ConnectRequestExtensionFields
      /\ m.ExtensionFields # Malformed
  BY MalformedAssumption DEF ConnectRequest
<1>3. toConnectRequestExtensionFields(toConnectRequestExtensionFieldsProto(m.ExtensionFields))
        = m.ExtensionFields
  BY <1>2, ConnectExtensionThere
<1>4. ConnectionToWire(pb, FromExt(pb)) = Body(m)
  BY <1>1, <1>3
  DEF ConnectionToProto, ConnectionToWire, WithKind, AtPeer, ConnectRequest, Body
<1>5. Errorless(Body(m))
  BY <1>1, <1>2 DEF ConnectionToProto, ConnectRequest, Errorless, Body, AtPeer
<1> QED BY <1>4, <1>5

(* A ConnectResponse.                                                      *)
LEMMA ConnectResponseThere ==
  ASSUME NEW m \in ConnectResponse,
         NEW p, p = ConnectionToProto(m, ToExt(m)), Errorless(p),
         NEW pb, pb = WithKind(m.kind, p)
  PROVE  ConnectionToWire(pb, FromExt(pb)) = Body(m) /\ Errorless(Body(m))
<1>1. HasExtension(m) /\ pb.kind = m.kind /\ pb.ExtensionFields = ToExt(m)
  BY DEF HasExtension, ConnectResponse, ConnectionToProto, WithKind
<1>2. FromExt(pb) = m.ExtensionFields /\ ToExt(m) = m.ExtensionFields
  BY <1>1, ExtensionThere
<1>3. /\ toResultCode(toResultCodeProto(m.ResultCode)) = AtPeer("ResultCode", m.ResultCode)
      /\ AtPeer("ResultCode", m.ResultCode) # Malformed
  BY CodeThere DEF ConnectionToProto, Errorless, AtPeer, ConnectResponse
<1>4. /\ pb.RequestId = m.RequestID /\ pb.ProtocolVersion = m.ProtocolVersion
      /\ pb.ResultCode = toResultCodeProto(m.ResultCode) /\ pb.ResultString = m.ResultString
      /\ pb.ExtensionFields = m.ExtensionFields
  BY <1>1, <1>2 DEF ConnectionToProto, WithKind, ConnectResponse
<1>5. ConnectionToWire(pb, m.ExtensionFields) = Body(m)
  BY <1>1, <1>3, <1>4
  DEF ConnectionToWire, AtPeer, ConnectResponse, Body
<1>6. Errorless(Body(m))
  BY <1>2, <1>3
  DEF ConnectionToProto, Errorless, AtPeer, ConnectResponse, Body
<1> QED BY <1>2, <1>5, <1>6

(* A Disconnect.                                                           *)
LEMMA DisconnectThere ==
  ASSUME NEW m \in Disconnect,
         NEW p, p = ConnectionToProto(m, ToExt(m)), Errorless(p),
         NEW pb, pb = WithKind(m.kind, p)
  PROVE  ConnectionToWire(pb, FromExt(pb)) = Body(m) /\ Errorless(Body(m))
<1>1. HasExtension(m) /\ pb.kind = m.kind /\ pb.ExtensionFields = ToExt(m)
  BY DEF HasExtension, Disconnect, ConnectionToProto, WithKind
<1>2. FromExt(pb) = m.ExtensionFields /\ ToExt(m) = m.ExtensionFields
  BY <1>1, ExtensionThere
<1>3. /\ toResultCode(toResultCodeProto(m.ResultCode)) = AtPeer("ResultCode", m.ResultCode)
      /\ AtPeer("ResultCode", m.ResultCode) # Malformed
  BY CodeThere DEF ConnectionToProto, Errorless, AtPeer, Disconnect
<1>4. /\ pb.ResultCode = toResultCodeProto(m.ResultCode) /\ pb.ResultString = m.ResultString
      /\ pb.ExtensionFields = m.ExtensionFields
  BY <1>1, <1>2 DEF ConnectionToProto, WithKind, Disconnect
<1>5. ConnectionToWire(pb, m.ExtensionFields) = Body(m)
  BY <1>1, <1>3, <1>4
  DEF ConnectionToWire, AtPeer, Disconnect, Body
<1>6. Errorless(Body(m))
  BY <1>2, <1>3
  DEF ConnectionToProto, Errorless, AtPeer, Disconnect, Body
<1> QED BY <1>2, <1>5, <1>6

(* An UpstreamOpenRequest.                                                 *)
LEMMA UpstreamOpenRequestThere ==
  ASSUME NEW m \in UpstreamOpenRequest,
         NEW p, p = UpstreamToProto(m, ToExt(m)), Errorless(p),
         NEW pb, pb = WithKind(m.kind, p)
  PROVE  UpstreamToWire(pb, FromExt(pb)) = Body(m) /\ Errorless(Body(m))
<1>1. HasExtension(m) /\ pb.kind = m.kind /\ pb.ExtensionFields = ToExt(m)
  BY DEF HasExtension, UpstreamOpenRequest, UpstreamToProto, WithKind
<1>2. FromExt(pb) = m.ExtensionFields /\ ToExt(m) = m.ExtensionFields
  BY <1>1, ExtensionThere
<1>3. /\ (m.AckInterval \div Milli) * Milli = m.AckInterval - (m.AckInterval % Milli)
      /\ m.AckInterval - (m.AckInterval % Milli) # Malformed
      /\ (m.ExpiryInterval \div Second) * Second = m.ExpiryInterval - (m.ExpiryInterval % Second)
      /\ m.ExpiryInterval - (m.ExpiryInterval % Second) # Malformed
  BY IntervalThere, Apart DEF UpstreamOpenRequest
<1>4. toDataIDsProto(m.DataIDs) = m.DataIDs /\ toDataIDs(m.DataIDs) = m.DataIDs
  BY SeqIs, DataIDsThere DEF UpstreamOpenRequest
<1>5. toQoS(toQoSProto(m.QoS)) = m.QoS /\ m.QoS # Malformed
  BY QoSThere, Apart DEF UpstreamToProto, Errorless, UpstreamOpenRequest
<1>6. /\ pb.RequestId = m.RequestID /\ pb.SessionId = m.SessionID
      /\ pb.AckInterval = m.AckInterval \div Milli
      /\ pb.ExpiryInterval = m.ExpiryInterval \div Second
      /\ pb.DataIds = toDataIDsProto(m.DataIDs) /\ pb.Qos = toQoSProto(m.QoS)
      /\ pb.ExtensionFields = m.ExtensionFields
  BY <1>1, <1>2 DEF UpstreamToProto, WithKind, UpstreamOpenRequest
<1>7. UpstreamToWire(pb, m.ExtensionFields) = Body(m)
  BY <1>1, <1>3, <1>4, <1>5, <1>6
  DEF UpstreamToWire, AtPeer, UpstreamOpenRequest, Body
<1>8. Errorless(Body(m))
  BY <1>2, <1>3, <1>4, <1>5
  DEF UpstreamToProto, Errorless, AtPeer, UpstreamOpenRequest, Body
<1> QED BY <1>2, <1>7, <1>8

(* An UpstreamOpenResponse.                                                *)
LEMMA UpstreamOpenResponseThere ==
  ASSUME NEW A, NEW m \in UpstreamOpenResponse(A),
         NEW p, p = UpstreamToProto(m, ToExt(m)), Errorless(p),
         NEW pb, pb = WithKind(m.kind, p)
  PROVE  UpstreamToWire(pb, FromExt(pb)) = Body(m) /\ Errorless(Body(m))
<1>1. HasExtension(m) /\ pb.kind = m.kind /\ pb.ExtensionFields = ToExt(m)
  BY DEF HasExtension, UpstreamOpenResponse, UpstreamToProto, WithKind
<1>2. FromExt(pb) = m.ExtensionFields /\ ToExt(m) = m.ExtensionFields
  BY <1>1, ExtensionThere
<1>3. /\ toDataIDAliasesProto(m.DataIDAliases) = m.DataIDAliases
      /\ toDataIDAliases(m.DataIDAliases) = m.DataIDAliases
  BY DataIDsThere DEF UpstreamOpenResponse
<1>4. toUUID(m.AssignedStreamID) = m.AssignedStreamID
  BY UUIDThere DEF UpstreamOpenResponse
<1>5. ServerTimeOrUnixZero(m) = AtPeer("ServerTime", m.ServerTime)
  BY DEF ServerTimeOrUnixZero, AtPeer
<1>6. /\ toResultCode(toResultCodeProto(m.ResultCode)) = AtPeer("ResultCode", m.ResultCode)
      /\ AtPeer("ResultCode", m.ResultCode) # Malformed
  BY CodeThere DEF UpstreamToProto, Errorless, AtPeer, UpstreamOpenResponse
<1>7. /\ pb.RequestId = m.RequestID /\ pb.AssignedStreamId = m.AssignedStreamID
      /\ pb.AssignedStreamIdAlias = m.AssignedStreamIDAlias
      /\ pb.DataIdAliases = toDataIDAliasesProto(m.DataIDAliases)
      /\ pb.ServerTime = ServerTimeOrUnixZero(m)
      /\ pb.ResultCode = toResultCodeProto(m.ResultCode) /\ pb.ResultString = m.ResultString
      /\ pb.ExtensionFields = m.ExtensionFields /\ pb.ResumeToken = m.ResumeToken
  BY <1>1, <1>2 DEF UpstreamToProto, WithKind, UpstreamOpenResponse
<1>8. UpstreamToWire(pb, m.ExtensionFields) = Body(m)
  BY <1>1, <1>3, <1>4, <1>5, <1>6, <1>7
  DEF UpstreamToWire, AtPeer, UpstreamOpenResponse, Body
<1>9. Errorless(Body(m))
  BY <1>2, <1>3, <1>4, <1>5, <1>6
  DEF UpstreamToProto, Errorless, AtPeer, UpstreamOpenResponse, Body
<1> QED BY <1>2, <1>8, <1>9

(* An UpstreamResumeRequest.                                               *)
LEMMA UpstreamResumeRequestThere ==
  ASSUME NEW m \in UpstreamResumeRequest,
         NEW p, p = UpstreamToProto(m, ToExt(m)), Errorless(p),
         NEW pb, pb = WithKind(m.kind, p)
  PROVE  UpstreamToWire(pb, FromExt(pb)) = Body(m) /\ Errorless(Body(m))
<1>1. HasExtension(m) /\ pb.kind = m.kind /\ pb.ExtensionFields = ToExt(m)
  BY DEF HasExtension, UpstreamResumeRequest, UpstreamToProto, WithKind
<1>2. FromExt(pb) = m.ExtensionFields /\ ToExt(m) = m.ExtensionFields
  BY <1>1, ExtensionThere
<1>3. toUUID(m.StreamID) = m.StreamID
  BY UUIDThere DEF UpstreamResumeRequest
<1>4. /\ pb.RequestId = m.RequestID /\ pb.StreamId = m.StreamID
      /\ pb.ExtensionFields = m.ExtensionFields /\ pb.ResumeToken = m.ResumeToken
  BY <1>1, <1>2 DEF UpstreamToProto, WithKind, UpstreamResumeRequest
<1>5. UpstreamToWire(pb, m.ExtensionFields) = Body(m)
  BY <1>1, <1>3, <1>4
  DEF UpstreamToWire, AtPeer, UpstreamResumeRequest, Body
<1>6. Errorless(Body(m))
  BY <1>2, <1>3
  DEF UpstreamToProto, Errorless, AtPeer, UpstreamResumeRequest, Body
<1> QED BY <1>2, <1>5, <1>6

(* An UpstreamResumeResponse.                                              *)
LEMMA UpstreamResumeResponseThere ==
  ASSUME NEW m \in UpstreamResumeResponse,
         NEW p, p = UpstreamToProto(m, ToExt(m)), Errorless(p),
         NEW pb, pb = WithKind(m.kind, p)
  PROVE  UpstreamToWire(pb, FromExt(pb)) = Body(m) /\ Errorless(Body(m))
<1>1. HasExtension(m) /\ pb.kind = m.kind /\ pb.ExtensionFields = ToExt(m)
  BY DEF HasExtension, UpstreamResumeResponse, UpstreamToProto, WithKind
<1>2. FromExt(pb) = m.ExtensionFields /\ ToExt(m) = m.ExtensionFields
  BY <1>1, ExtensionThere
<1>3. /\ toResultCode(toResultCodeProto(m.ResultCode)) = AtPeer("ResultCode", m.ResultCode)
      /\ AtPeer("ResultCode", m.ResultCode) # Malformed
  BY CodeThere DEF UpstreamToProto, Errorless, AtPeer, UpstreamResumeResponse
<1>4. /\ pb.RequestId = m.RequestID /\ pb.AssignedStreamIdAlias = m.AssignedStreamIDAlias
      /\ pb.ResultCode = toResultCodeProto(m.ResultCode) /\ pb.ResultString = m.ResultString
      /\ pb.ExtensionFields = m.ExtensionFields /\ pb.ResumeToken = m.ResumeToken
  BY <1>1, <1>2 DEF UpstreamToProto, WithKind, UpstreamResumeResponse
<1>5. UpstreamToWire(pb, m.ExtensionFields) = Body(m)
  BY <1>1, <1>3, <1>4
  DEF UpstreamToWire, AtPeer, UpstreamResumeResponse, Body
<1>6. Errorless(Body(m))
  BY <1>2, <1>3
  DEF UpstreamToProto, Errorless, AtPeer, UpstreamResumeResponse, Body
<1> QED BY <1>2, <1>5, <1>6

(* An UpstreamCloseRequest.                                                *)
LEMMA UpstreamCloseRequestThere ==
  ASSUME NEW m \in UpstreamCloseRequest,
         NEW p, p = UpstreamToProto(m, ToExt(m)), Errorless(p),
         NEW pb, pb = WithKind(m.kind, p)
  PROVE  UpstreamToWire(pb, FromExt(pb)) = Body(m) /\ Errorless(Body(m))
<1>1. HasExtension(m) /\ pb.kind = m.kind /\ pb.ExtensionFields = ToExt(m)
  BY DEF HasExtension, UpstreamCloseRequest, UpstreamToProto, WithKind
<1>2. FromExt(pb) = m.ExtensionFields /\ ToExt(m) = m.ExtensionFields
  BY <1>1, ExtensionThere
<1>3. toUUID(m.StreamID) = m.StreamID
  BY UUIDThere DEF UpstreamCloseRequest
<1>4. /\ pb.RequestId = m.RequestID /\ pb.StreamId = m.StreamID
      /\ pb.TotalDataPoints = m.TotalDataPoints
      /\ pb.FinalSequenceNumber = m.FinalSequenceNumber
      /\ pb.ExtensionFields = m.ExtensionFields
  BY <1>1, <1>2 DEF UpstreamToProto, WithKind, UpstreamCloseRequest
<1>5. UpstreamToWire(pb, m.ExtensionFields) = Body(m)
  BY <1>1, <1>3, <1>4
  DEF UpstreamToWire, AtPeer, UpstreamCloseRequest, Body
<1>6. Errorless(Body(m))
  BY <1>2, <1>3
  DEF UpstreamToProto, Errorless, AtPeer, UpstreamCloseRequest, Body
<1> QED BY <1>2, <1>5, <1>6

(* An UpstreamCloseResponse.                                               *)
LEMMA AnswerUpstreamThere ==
  ASSUME NEW k \in {"UpstreamCloseResponse"}, NEW m \in Answer(k),
         NEW p, p = UpstreamToProto(m, ToExt(m)), Errorless(p),
         NEW pb, pb = WithKind(m.kind, p)
  PROVE  UpstreamToWire(pb, FromExt(pb)) = Body(m) /\ Errorless(Body(m))
<1>1. HasExtension(m) /\ pb.kind = m.kind /\ pb.ExtensionFields = ToExt(m)
  BY DEF HasExtension, Answer, UpstreamToProto, WithKind
<1>2. FromExt(pb) = m.ExtensionFields /\ ToExt(m) = m.ExtensionFields
  BY <1>1, ExtensionThere
<1>3. /\ toResultCode(toResultCodeProto(m.ResultCode)) = AtPeer("ResultCode", m.ResultCode)
      /\ AtPeer("ResultCode", m.ResultCode) # Malformed
  BY CodeThere DEF UpstreamToProto, Errorless, AtPeer, Answer
<1>4. /\ pb.RequestId = m.RequestID /\ pb.ResultCode = toResultCodeProto(m.ResultCode)
      /\ pb.ResultString = m.ResultString /\ pb.ExtensionFields = m.ExtensionFields
  BY <1>1, <1>2 DEF UpstreamToProto, WithKind, Answer
<1>5. UpstreamToWire(pb, m.ExtensionFields) = Body(m)
  BY <1>1, <1>3, <1>4
  DEF UpstreamToWire, AtPeer, Answer, Body
<1>6. Errorless(Body(m))
  BY <1>2, <1>3
  DEF UpstreamToProto, Errorless, AtPeer, Answer, Body
<1> QED BY <1>2, <1>5, <1>6

(* A DownstreamOpenRequest.                                                *)
LEMMA DownstreamOpenRequestThere ==
  ASSUME NEW A, NEW m \in DownstreamOpenRequest(A),
         NEW p, p = DownstreamToProto(m, ToExt(m)), Errorless(p),
         NEW pb, pb = WithKind(m.kind, p)
  PROVE  DownstreamToWire(pb, FromExt(pb)) = Body(m) /\ Errorless(Body(m))
<1>1. HasExtension(m) /\ pb.kind = m.kind /\ pb.ExtensionFields = ToExt(m)
  BY DEF HasExtension, DownstreamOpenRequest, DownstreamToProto, WithKind
<1>2. FromExt(pb) = m.ExtensionFields /\ ToExt(m) = m.ExtensionFields
  BY <1>1, ExtensionThere
<1>3. /\ (m.ExpiryInterval \div Second) * Second = m.ExpiryInterval - (m.ExpiryInterval % Second)
      /\ m.ExpiryInterval - (m.ExpiryInterval % Second) # Malformed
  BY IntervalThere, Apart DEF DownstreamOpenRequest
<1>4. /\ toDownstreamFilters(toDownstreamFiltersProto(m.DownstreamFilters)) = m.DownstreamFilters
      /\ m.DownstreamFilters # Malformed
  BY FiltersThere, MalformedAssumption DEF DownstreamOpenRequest
<1>5. /\ toDataIDAliasesProto(m.DataIDAliases) = m.DataIDAliases
      /\ toDataIDAliases(m.DataIDAliases) = m.DataIDAliases
  BY DataIDsThere DEF DownstreamOpenRequest
<1>6. toQoS(toQoSProto(m.QoS)) = m.QoS /\ m.QoS # Malformed
  BY QoSThere, Apart DEF DownstreamToProto, Errorless, DownstreamOpenRequest
<1>7. /\ pb.RequestId = m.RequestID /\ pb.DesiredStreamIdAlias = m.DesiredStreamIDAlias
      /\ pb.DownstreamFilters = toDownstreamFiltersProto(m.DownstreamFilters)
      /\ pb.ExpiryInterval = m.ExpiryInterval \div Second
      /\ pb.DataIdAliases = toDataIDAliasesProto(m.DataIDAliases) /\ pb.Qos = toQoSProto(m.QoS)
      /\ pb.ExtensionFields = m.ExtensionFields /\ pb.OmitEmptyChunk = m.OmitEmptyChunk
  BY <1>1, <1>2 DEF DownstreamToProto, WithKind, DownstreamOpenRequest
<1>8. DownstreamToWire(pb, m.ExtensionFields) = Body(m)
  BY <1>1, <1>3, <1>4, <1>5, <1>6, <1>7
  DEF DownstreamToWire, AtPeer, DownstreamOpenRequest, Body
<1>9. Errorless(Body(m))
  BY <1>2, <1>3, <1>4, <1>5, <1>6
  DEF DownstreamToProto, Errorless, AtPeer, DownstreamOpenRequest, Body
<1> QED BY <1>2, <1>8, <1>9

(* A DownstreamOpenResponse.                                               *)
LEMMA DownstreamOpenResponseThere ==
  ASSUME NEW m \in DownstreamOpenResponse,
         NEW p, p = DownstreamToProto(m, ToExt(m)), Errorless(p),
         NEW pb, pb = WithKind(m.kind, p)
  PROVE  DownstreamToWire(pb, FromExt(pb)) = Body(m) /\ Errorless(Body(m))
<1>1. HasExtension(m) /\ pb.kind = m.kind /\ pb.ExtensionFields = ToExt(m)
  BY DEF HasExtension, DownstreamOpenResponse, DownstreamToProto, WithKind
<1>2. FromExt(pb) = m.ExtensionFields /\ ToExt(m) = m.ExtensionFields
  BY <1>1, ExtensionThere
<1>3. toUUID(m.AssignedStreamID) = m.AssignedStreamID
  BY UUIDThere DEF DownstreamOpenResponse
<1>4. ServerTimeOrUnixZero(m) = AtPeer("ServerTime", m.ServerTime)
  BY DEF ServerTimeOrUnixZero, AtPeer
<1>5. /\ toResultCode(toResultCodeProto(m.ResultCode)) = AtPeer("ResultCode", m.ResultCode)
      /\ AtPeer("ResultCode", m.ResultCode) # Malformed
  BY CodeThere DEF DownstreamToProto, Errorless, AtPeer, DownstreamOpenResponse
<1>6. /\ pb.RequestId = m.RequestID /\ pb.AssignedStreamId = m.AssignedStreamID
      /\ pb.ServerTime = ServerTimeOrUnixZero(m)
      /\ pb.ResultCode = toResultCodeProto(m.ResultCode) /\ pb.ResultString = m.ResultString
      /\ pb.ExtensionFields = m.ExtensionFields /\ pb.ResumeToken = m.ResumeToken
  BY <1>1, <1>2 DEF DownstreamToProto, WithKind, DownstreamOpenResponse
<1>7. DownstreamToWire(pb, m.ExtensionFields) = Body(m)
  BY <1>1, <1>3, <1>4, <1>5, <1>6
  DEF DownstreamToWire, AtPeer, DownstreamOpenResponse, Body
<1>8. Errorless(Body(m))
  BY <1>2, <1>3, <1>4, <1>5
  DEF DownstreamToProto, Errorless, AtPeer, DownstreamOpenResponse, Body
<1> QED BY <1>2, <1>7, <1>8

(* A DownstreamResumeRequest.                                              *)
LEMMA DownstreamResumeRequestThere ==
  ASSUME NEW m \in DownstreamResumeRequest,
         NEW p, p = DownstreamToProto(m, ToExt(m)), Errorless(p),
         NEW pb, pb = WithKind(m.kind, p)
  PROVE  DownstreamToWire(pb, FromExt(pb)) = Body(m) /\ Errorless(Body(m))
<1>1. HasExtension(m) /\ pb.kind = m.kind /\ pb.ExtensionFields = ToExt(m)
  BY DEF HasExtension, DownstreamResumeRequest, DownstreamToProto, WithKind
<1>2. FromExt(pb) = m.ExtensionFields /\ ToExt(m) = m.ExtensionFields
  BY <1>1, ExtensionThere
<1>3. toUUID(m.StreamID) = m.StreamID
  BY UUIDThere DEF DownstreamResumeRequest
<1>4. /\ pb.RequestId = m.RequestID /\ pb.StreamId = m.StreamID
      /\ pb.DesiredStreamIdAlias = m.DesiredStreamIDAlias
      /\ pb.ExtensionFields = m.ExtensionFields /\ pb.ResumeToken = m.ResumeToken
  BY <1>1, <1>2 DEF DownstreamToProto, WithKind, DownstreamResumeRequest
<1>5. DownstreamToWire(pb, m.ExtensionFields) = Body(m)
  BY <1>1, <1>3, <1>4
  DEF DownstreamToWire, AtPeer, DownstreamResumeRequest, Body
<1>6. Errorless(Body(m))
  BY <1>2, <1>3
  DEF DownstreamToProto, Errorless, AtPeer, DownstreamResumeRequest, Body
<1> QED BY <1>2, <1>5, <1>6

(* A DownstreamResumeResponse.                                             *)
LEMMA DownstreamResumeResponseThere ==
  ASSUME NEW m \in DownstreamResumeResponse,
         NEW p, p = DownstreamToProto(m, ToExt(m)), Errorless(p),
         NEW pb, pb = WithKind(m.kind, p)
  PROVE  DownstreamToWire(pb, FromExt(pb)) = Body(m) /\ Errorless(Body(m))
<1>1. HasExtension(m) /\ pb.kind = m.kind /\ pb.ExtensionFields = ToExt(m)
  BY DEF HasExtension, DownstreamResumeResponse, DownstreamToProto, WithKind
<1>2. FromExt(pb) = m.ExtensionFields /\ ToExt(m) = m.ExtensionFields
  BY <1>1, ExtensionThere
<1>3. /\ toResultCode(toResultCodeProto(m.ResultCode)) = AtPeer("ResultCode", m.ResultCode)
      /\ AtPeer("ResultCode", m.ResultCode) # Malformed
  BY CodeThere DEF DownstreamToProto, Errorless, AtPeer, DownstreamResumeResponse
<1>4. /\ pb.RequestId = m.RequestID /\ pb.ResultCode = toResultCodeProto(m.ResultCode)
      /\ pb.ResultString = m.ResultString /\ pb.ExtensionFields = m.ExtensionFields
      /\ pb.ResumeToken = m.ResumeToken
  BY <1>1, <1>2 DEF DownstreamToProto, WithKind, DownstreamResumeResponse
<1>5. DownstreamToWire(pb, m.ExtensionFields) = Body(m)
  BY <1>1, <1>3, <1>4
  DEF DownstreamToWire, AtPeer, DownstreamResumeResponse, Body
<1>6. Errorless(Body(m))
  BY <1>2, <1>3
  DEF DownstreamToProto, Errorless, AtPeer, DownstreamResumeResponse, Body
<1> QED BY <1>2, <1>5, <1>6

(* A DownstreamCloseRequest.                                               *)
LEMMA DownstreamCloseRequestThere ==
  ASSUME NEW m \in DownstreamCloseRequest,
         NEW p, p = DownstreamToProto(m, ToExt(m)), Errorless(p),
         NEW pb, pb = WithKind(m.kind, p)
  PROVE  DownstreamToWire(pb, FromExt(pb)) = Body(m) /\ Errorless(Body(m))
<1>1. HasExtension(m) /\ pb.kind = m.kind /\ pb.ExtensionFields = ToExt(m)
  BY DEF HasExtension, DownstreamCloseRequest, DownstreamToProto, WithKind
<1>2. FromExt(pb) = m.ExtensionFields /\ ToExt(m) = m.ExtensionFields
  BY <1>1, ExtensionThere
<1>3. toUUID(m.StreamID) = m.StreamID
  BY UUIDThere DEF DownstreamCloseRequest
<1>4. /\ pb.RequestId = m.RequestID /\ pb.StreamId = m.StreamID
      /\ pb.ExtensionFields = m.ExtensionFields
  BY <1>1, <1>2 DEF DownstreamToProto, WithKind, DownstreamCloseRequest
<1>5. DownstreamToWire(pb, m.ExtensionFields) = Body(m)
  BY <1>1, <1>3, <1>4
  DEF DownstreamToWire, AtPeer, DownstreamCloseRequest, Body
<1>6. Errorless(Body(m))
  BY <1>2, <1>3
  DEF DownstreamToProto, Errorless, AtPeer, DownstreamCloseRequest, Body
<1> QED BY <1>2, <1>5, <1>6

(* A DownstreamCloseResponse.                                              *)
LEMMA AnswerDownstreamThere ==
  ASSUME NEW k \in {"DownstreamCloseResponse"}, NEW m \in Answer(k),
         NEW p, p = DownstreamToProto(m, ToExt(m)), Errorless(p),
         NEW pb, pb = WithKind(m.kind, p)
  PROVE  DownstreamToWire(pb, FromExt(pb)) = Body(m) /\ Errorless(Body(m))
<1>1. HasExtension(m) /\ pb.kind = m.kind /\ pb.ExtensionFields = ToExt(m)
  BY DEF HasExtension, Answer, DownstreamToProto, WithKind
<1>2. FromExt(pb) = m.ExtensionFields /\ ToExt(m) = m.ExtensionFields
  BY <1>1, ExtensionThere
<1>3. /\ toResultCode(toResultCodeProto(m.ResultCode)) = AtPeer("ResultCode", m.ResultCode)
      /\ AtPeer("ResultCode", m.ResultCode) # Malformed
  BY CodeThere DEF DownstreamToProto, Errorless, AtPeer, Answer
<1>4. /\ pb.RequestId = m.RequestID /\ pb.ResultCode = toResultCodeProto(m.ResultCode)
      /\ pb.ResultString = m.ResultString /\ pb.ExtensionFields = m.ExtensionFields
  BY <1>1, <1>2 DEF DownstreamToProto, WithKind, Answer
<1>5. DownstreamToWire(pb, m.ExtensionFields) = Body(m)
  BY <1>1, <1>3, <1>4
  DEF DownstreamToWire, AtPeer, Answer, Body
<1>6. Errorless(Body(m))
  BY <1>2, <1>3
  DEF DownstreamToProto, Errorless, AtPeer, Answer, Body
<1> QED BY <1>2, <1>5, <1>6

(* An UpstreamCall.                                                        *)
LEMMA UpstreamCallThere ==
  ASSUME NEW m \in UpstreamCall,
         NEW p, p = CallToProto(m, ToExt(m)), Errorless(p),
         NEW pb, pb = WithKind(m.kind, p)
  PROVE  CallToWire(pb, FromExt(pb)) = Body(m) /\ Errorless(Body(m))
<1>1. HasExtension(m) /\ pb.kind = m.kind /\ pb.ExtensionFields = ToExt(m)
  BY DEF HasExtension, UpstreamCall, CallToProto, WithKind
<1>2. FromExt(pb) = m.ExtensionFields /\ ToExt(m) = m.ExtensionFields
  BY <1>1, ExtensionThere
<1>3. /\ pb.CallId = m.CallID /\ pb.RequestCallId = m.RequestCallID
      /\ pb.DestinationNodeId = m.DestinationNodeID /\ pb.Name = m.Name /\ pb.Type = m.Type
      /\ pb.Payload = m.Payload /\ pb.ExtensionFields = m.ExtensionFields
  BY <1>1, <1>2 DEF CallToProto, WithKind, UpstreamCall
<1>4. CallToWire(pb, m.ExtensionFields) = Body(m)
  BY <1>1, <1>3
  DEF CallToWire, AtPeer, UpstreamCall, Body
<1>5. Errorless(Body(m))
  BY <1>2
  DEF CallToProto, Errorless, AtPeer, UpstreamCall, Body
<1> QED BY <1>2, <1>4, <1>5

(* An UpstreamCallAck.                                                     *)
LEMMA UpstreamCallAckThere ==
  ASSUME NEW m \in UpstreamCallAck,
         NEW p, p = CallToProto(m, ToExt(m)), Errorless(p),
         NEW pb, pb = WithKind(m.kind, p)
  PROVE  CallToWire(pb, FromExt(pb)) = Body(m) /\ Errorless(Body(m))
<1>1. HasExtension(m) /\ pb.kind = m.kind /\ pb.ExtensionFields = ToExt(m)
  BY DEF HasExtension, UpstreamCallAck, CallToProto, WithKind
<1>2. FromExt(pb) = m.ExtensionFields /\ ToExt(m) = m.ExtensionFields
  BY <1>1, ExtensionThere
<1>3. /\ toResultCode(toResultCodeProto(m.ResultCode)) = AtPeer("ResultCode", m.ResultCode)
      /\ AtPeer("ResultCode", m.ResultCode) # Malformed
  BY CodeThere DEF CallToProto, Errorless, AtPeer, UpstreamCallAck
<1>4. /\ pb.CallId = m.CallID /\ pb.ResultCode = toResultCodeProto(m.ResultCode)
      /\ pb.ResultString = m.ResultString /\ pb.ExtensionFields = m.ExtensionFields
  BY <1>1, <1>2 DEF CallToProto, WithKind, UpstreamCallAck
<1>5. CallToWire(pb, m.ExtensionFields) = Body(m)
  BY <1>1, <1>3, <1>4
  DEF CallToWire, AtPeer, UpstreamCallAck, Body
<1>6. Errorless(Body(m))
  BY <1>2, <1>3
  DEF CallToProto, Errorless, AtPeer, UpstreamCallAck, Body
<1> QED BY <1>2, <1>5, <1>6

(* A DownstreamCall.                                                       *)
LEMMA DownstreamCallThere ==
  ASSUME NEW m \in DownstreamCall,
         NEW p, p = CallToProto(m, ToExt(m)), Errorless(p),
         NEW pb, pb = WithKind(m.kind, p)
  PROVE  CallToWire(pb, FromExt(pb)) = Body(m) /\ Errorless(Body(m))
<1>1. HasExtension(m) /\ pb.kind = m.kind /\ pb.ExtensionFields = ToExt(m)
  BY DEF HasExtension, DownstreamCall, CallToProto, WithKind
<1>2. FromExt(pb) = m.ExtensionFields /\ ToExt(m) = m.ExtensionFields
  BY <1>1, ExtensionThere
<1>3. /\ pb.CallId = m.CallID /\ pb.RequestCallId = m.RequestCallID
      /\ pb.SourceNodeId = m.SourceNodeID /\ pb.Name = m.Name /\ pb.Type = m.Type
      /\ pb.Payload = m.Payload /\ pb.ExtensionFields = m.ExtensionFields
  BY <1>1, <1>2 DEF CallToProto, WithKind, DownstreamCall
<1>4. CallToWire(pb, m.ExtensionFields) = Body(m)
  BY <1>1, <1>3
  DEF CallToWire, AtPeer, DownstreamCall, Body
<1>5. Errorless(Body(m))
  BY <1>2
  DEF CallToProto, Errorless, AtPeer, DownstreamCall, Body
<1> QED BY <1>2, <1>4, <1>5

(* A Ping.                                                                 *)
LEMMA PingThere ==
  ASSUME NEW m \in Ping,
         NEW p, p = CallToProto(m, ToExt(m)), Errorless(p),
         NEW pb, pb = WithKind(m.kind, p)
  PROVE  CallToWire(pb, FromExt(pb)) = Body(m) /\ Errorless(Body(m))
<1>1. HasExtension(m) /\ pb.kind = m.kind /\ pb.ExtensionFields = ToExt(m)
  BY DEF HasExtension, Ping, CallToProto, WithKind
<1>2. FromExt(pb) = m.ExtensionFields /\ ToExt(m) = m.ExtensionFields
  BY <1>1, ExtensionThere
<1>3. pb.RequestId = m.RequestID /\ pb.ExtensionFields = m.ExtensionFields
  BY <1>1, <1>2 DEF CallToProto, WithKind, Ping
<1>4. CallToWire(pb, m.ExtensionFields) = Body(m)
  BY <1>1, <1>3
  DEF CallToWire, AtPeer, Ping, Body
<1>5. Errorless(Body(m))
  BY <1>2
  DEF CallToProto, Errorless, AtPeer, Ping, Body
<1> QED BY <1>2, <1>4, <1>5

(* A Pong.                                                                 *)
LEMMA PongThere ==
  ASSUME NEW m \in Pong,
         NEW p, p = CallToProto(m, ToExt(m)), Errorless(p),
         NEW pb, pb = WithKind(m.kind, p)
  PROVE  CallToWire(pb, FromExt(pb)) = Body(m) /\ Errorless(Body(m))
<1>1. HasExtension(m) /\ pb.kind = m.kind /\ pb.ExtensionFields = ToExt(m)
  BY DEF HasExtension, Pong, CallToProto, WithKind
<1>2. FromExt(pb) = m.ExtensionFields /\ ToExt(m) = m.ExtensionFields
  BY <1>1, ExtensionThere
<1>3. pb.RequestId = m.RequestID /\ pb.ExtensionFields = m.ExtensionFields
  BY <1>1, <1>2 DEF CallToProto, WithKind, Pong
<1>4. CallToWire(pb, m.ExtensionFields) = Body(m)
  BY <1>1, <1>3
  DEF CallToWire, AtPeer, Pong, Body
<1>5. Errorless(Body(m))
  BY <1>2
  DEF CallToProto, Errorless, AtPeer, Pong, Body
<1> QED BY <1>2, <1>4, <1>5

(* An UpstreamChunk.                                                       *)
LEMMA UpstreamChunkThere ==
  ASSUME NEW m \in UpstreamChunk,
         NEW p, p = ChunkToProto(m, ToExt(m)), Errorless(p),
         NEW pb, pb = WithKind(m.kind, p)
  PROVE  ChunkToWire(pb, FromExt(pb)) = Body(m) /\ Errorless(Body(m))
<1>1. HasExtension(m) /\ pb.kind = m.kind /\ pb.ExtensionFields = ToExt(m)
  BY DEF HasExtension, UpstreamChunk, ChunkToProto, WithKind
<1>2. FromExt(pb) = m.ExtensionFields /\ ToExt(m) = m.ExtensionFields
  BY <1>1, ExtensionThere
<1>3. toDataIDsProto(m.DataIDs) = m.DataIDs /\ toDataIDs(m.DataIDs) = m.DataIDs
  BY SeqIs, DataIDsThere DEF UpstreamChunk
<1>4. m.StreamChunk \in {Nil} \cup StreamChunk /\ toStreamChunkProto(m.StreamChunk) # Malformed
  BY DEF ChunkToProto, Errorless, UpstreamChunk
<1>5. /\ toStreamChunk(toStreamChunkProto(m.StreamChunk)) = AtPeer("StreamChunk", m.StreamChunk)
      /\ AtPeer("StreamChunk", m.StreamChunk) # Malformed
  BY <1>4, ChunkThere
<1>6. /\ pb.StreamIdAlias = m.StreamIDAlias
      /\ pb.StreamChunk = toStreamChunkProto(m.StreamChunk)
      /\ pb.DataIds = toDataIDsProto(m.DataIDs) /\ pb.ExtensionFields = m.ExtensionFields
  BY <1>1, <1>2 DEF ChunkToProto, WithKind, UpstreamChunk
<1>7. ChunkToWire(pb, m.ExtensionFields) = Body(m)
  BY <1>1, <1>3, <1>5, <1>6
  DEF ChunkToWire, AtPeer, UpstreamChunk, Body
<1>8. Errorless(Body(m))
  BY <1>2, <1>3, <1>5
  DEF ChunkToProto, Errorless, AtPeer, UpstreamChunk, Body
<1> QED BY <1>2, <1>7, <1>8

(* An UpstreamChunkAck.                                                    *)
LEMMA UpstreamChunkAckThere ==
  ASSUME NEW A, NEW m \in UpstreamChunkAck(A),
         NEW p, p = ChunkToProto(m, ToExt(m)), Errorless(p),
         NEW pb, pb = WithKind(m.kind, p)
  PROVE  ChunkToWire(pb, FromExt(pb)) = Body(m) /\ Errorless(Body(m))
<1>1. HasExtension(m) /\ pb.kind = m.kind /\ pb.ExtensionFields = ToExt(m)
  BY DEF HasExtension, UpstreamChunkAck, ChunkToProto, WithKind
<1>2. FromExt(pb) = m.ExtensionFields /\ ToExt(m) = m.ExtensionFields
  BY <1>1, ExtensionThere
<1>3. /\ m.Results \in Seq(UpstreamChunkResult)
      /\ Each(toUpstreamChunkResultProto, m.Results) # Malformed
  BY DEF ChunkToProto, Errorless, UpstreamChunkAck
<1>4. /\ Each(toUpstreamDataPointResult, Each(toUpstreamChunkResultProto, m.Results))
           = AtPeer("Results", m.Results)
      /\ AtPeer("Results", m.Results) # Malformed
  BY <1>3, UpstreamResultsThere
<1>5. /\ toDataIDAliasesProto(m.DataIDAliases) = m.DataIDAliases
      /\ toDataIDAliases(m.DataIDAliases) = m.DataIDAliases
  BY DataIDsThere DEF UpstreamChunkAck
<1>6. /\ pb.StreamIdAlias = m.StreamIDAlias
      /\ pb.Results = Each(toUpstreamChunkResultProto, m.Results)
      /\ pb.DataIdAliases = toDataIDAliasesProto(m.DataIDAliases)
      /\ pb.ExtensionFields = m.ExtensionFields
  BY <1>1, <1>2 DEF ChunkToProto, WithKind, UpstreamChunkAck
<1>7. /\ AtPeer("StreamIDAlias", m.StreamIDAlias) = m.StreamIDAlias
      /\ AtPeer("DataIDAliases", m.DataIDAliases) = m.DataIDAliases
      /\ AtPeer("ExtensionFields", m.ExtensionFields) = m.ExtensionFields
  BY DEF AtPeer
<1>8. ChunkToWire(pb, m.ExtensionFields) = Body(m)
  BY <1>1, <1>3, <1>4, <1>5, <1>6, <1>7
  DEF ChunkToWire, UpstreamChunkAck, Body
<1>9. Errorless(Body(m))
  BY <1>2, <1>3, <1>4, <1>5, <1>6
  DEF ChunkToProto, Errorless, AtPeer, UpstreamChunkAck, Body
<1> QED BY <1>2, <1>8, <1>9

(* A DownstreamChunk.                                                      *)
LEMMA DownstreamChunkThere ==
  ASSUME NEW m \in DownstreamChunk,
         NEW p, p = ChunkToProto(m, ToExt(m)), Errorless(p),
         NEW pb, pb = WithKind(m.kind, p)
  PROVE  ChunkToWire(pb, FromExt(pb)) = Body(m) /\ Errorless(Body(m))
<1>1. HasExtension(m) /\ pb.kind = m.kind /\ pb.ExtensionFields = ToExt(m)
  BY DEF HasExtension, DownstreamChunk, ChunkToProto, WithKind
<1>2. FromExt(pb) = m.ExtensionFields /\ ToExt(m) = m.ExtensionFields
  BY <1>1, ExtensionThere
<1>3. m.StreamChunk \in {Nil} \cup StreamChunk /\ toStreamChunkProto(m.StreamChunk) # Malformed
  BY DEF ChunkToProto, Errorless, DownstreamChunk
<1>4. /\ toStreamChunk(toStreamChunkProto(m.StreamChunk)) = AtPeer("StreamChunk", m.StreamChunk)
      /\ AtPeer("StreamChunk", m.StreamChunk) # Malformed
  BY <1>3, ChunkThere
<1>5. /\ m.UpstreamOrAlias \in {Nil} \cup UpstreamOrAlias
      /\ toUpstreamOrAliasProto(m.UpstreamOrAlias) # Malformed
  BY DEF ChunkToProto, Errorless, DownstreamChunk
<1>6. /\ toUpstreamOrAlias(toUpstreamOrAliasProto(m.UpstreamOrAlias)) = m.UpstreamOrAlias
      /\ m.UpstreamOrAlias # Malformed
  BY <1>5, UnionThere
<1>7. /\ toDownstreamFilterReferencesWire(
           toDownstreamFilterReferencesProto(m.DownstreamFilterReferences))
             = m.DownstreamFilterReferences
      /\ m.DownstreamFilterReferences # Malformed
  BY ReferencesThere, MalformedAssumption DEF DownstreamChunk
<1>8. /\ pb.StreamIdAlias = m.StreamIDAlias
      /\ pb.UpstreamOrAlias = toUpstreamOrAliasProto(m.UpstreamOrAlias)
      /\ pb.StreamChunk = toStreamChunkProto(m.StreamChunk)
      /\ pb.ExtensionFields = m.ExtensionFields
      /\ pb.DownstreamFilterReferences
           = toDownstreamFilterReferencesProto(m.DownstreamFilterReferences)
  BY <1>1, <1>2 DEF ChunkToProto, WithKind, DownstreamChunk
<1>9. /\ AtPeer("StreamIDAlias", m.StreamIDAlias) = m.StreamIDAlias
      /\ AtPeer("UpstreamOrAlias", m.UpstreamOrAlias) = m.UpstreamOrAlias
      /\ AtPeer("ExtensionFields", m.ExtensionFields) = m.ExtensionFields
      /\ AtPeer("DownstreamFilterReferences", m.DownstreamFilterReferences)
           = m.DownstreamFilterReferences
  BY DEF AtPeer
<1>10. ChunkToWire(pb, m.ExtensionFields) = Body(m)
  BY <1>1, <1>4, <1>6, <1>7, <1>8, <1>9
  DEF ChunkToWire, DownstreamChunk, Body
<1>11. Errorless(Body(m))
  BY <1>2, <1>4, <1>6, <1>7, <1>8
  DEF ChunkToProto, Errorless, AtPeer, DownstreamChunk, Body
<1> QED BY <1>2, <1>10, <1>11

(* A DownstreamChunkAck.                                                   *)
LEMMA DownstreamChunkAckThere ==
  ASSUME NEW A, NEW B \in SUBSET Aliases, NEW m \in DownstreamChunkAck(A, B),
         NEW p, p = ChunkToProto(m, ToExt(m)), Errorless(p),
         NEW pb, pb = WithKind(m.kind, p)
  PROVE  ChunkToWire(pb, FromExt(pb)) = Body(m) /\ Errorless(Body(m))
<1>1. HasExtension(m) /\ pb.kind = m.kind /\ pb.ExtensionFields = ToExt(m)
  BY DEF HasExtension, DownstreamChunkAck, ChunkToProto, WithKind
<1>2. FromExt(pb) = m.ExtensionFields /\ ToExt(m) = m.ExtensionFields
  BY <1>1, ExtensionThere
<1>3. /\ m.Results \in Seq(DownstreamChunkResult)
      /\ Each(toDownstreamChunkResultProto, m.Results) # Malformed
  BY DEF ChunkToProto, Errorless, DownstreamChunkAck
<1>4. /\ Each(toDownstreamDataPointResult, Each(toDownstreamChunkResultProto, m.Results))
           = AtPeer("Results", m.Results)
      /\ AtPeer("Results", m.Results) # Malformed
  BY <1>3, DownstreamResultsThere
<1>5. /\ toDataIDAliasesProto(m.DataIDAliases) = m.DataIDAliases
      /\ toDataIDAliases(m.DataIDAliases) = m.DataIDAliases
  BY DataIDsThere DEF DownstreamChunkAck
<1>6. /\ toUpstreamAliases(toUpstreamAliasesProto(m.UpstreamAliases)) = m.UpstreamAliases
      /\ m.UpstreamAliases # Malformed
  BY AliasesThere DEF DownstreamChunkAck
<1>7. /\ pb.StreamIdAlias = m.StreamIDAlias /\ pb.AckId = m.AckID
      /\ pb.Results = Each(toDownstreamChunkResultProto, m.Results)
      /\ pb.UpstreamAliases = toUpstreamAliasesProto(m.UpstreamAliases)
      /\ pb.DataIdAliases = toDataIDAliasesProto(m.DataIDAliases)
      /\ pb.ExtensionFields = m.ExtensionFields
  BY <1>1, <1>2 DEF ChunkToProto, WithKind, DownstreamChunkAck
<1>8. /\ AtPeer("StreamIDAlias", m.StreamIDAlias) = m.StreamIDAlias
      /\ AtPeer("AckID", m.AckID) = m.AckID
      /\ AtPeer("UpstreamAliases", m.UpstreamAliases) = m.UpstreamAliases
      /\ AtPeer("DataIDAliases", m.DataIDAliases) = m.DataIDAliases
      /\ AtPeer("ExtensionFields", m.ExtensionFields) = m.ExtensionFields
  BY DEF AtPeer
<1>9. ChunkToWire(pb, m.ExtensionFields) = Body(m)
  BY <1>1, <1>3, <1>4, <1>5, <1>6, <1>7, <1>8
  DEF ChunkToWire, DownstreamChunkAck, Body
<1>10. Errorless(Body(m))
  BY <1>2, <1>3, <1>4, <1>5, <1>6, <1>7
  DEF ChunkToProto, Errorless, AtPeer, DownstreamChunkAck, Body
<1> QED BY <1>2, <1>9, <1>10

(* A DownstreamChunkAckComplete.                                           *)
LEMMA DownstreamChunkAckCompleteThere ==
  ASSUME NEW m \in DownstreamChunkAckComplete,
         NEW p, p = ChunkToProto(m, ToExt(m)), Errorless(p),
         NEW pb, pb = WithKind(m.kind, p)
  PROVE  ChunkToWire(pb, FromExt(pb)) = Body(m) /\ Errorless(Body(m))
<1>1. HasExtension(m) /\ pb.kind = m.kind /\ pb.ExtensionFields = ToExt(m)
  BY DEF HasExtension, DownstreamChunkAckComplete, ChunkToProto, WithKind
<1>2. FromExt(pb) = m.ExtensionFields /\ ToExt(m) = m.ExtensionFields
  BY <1>1, ExtensionThere
<1>3. /\ toResultCode(toResultCodeProto(m.ResultCode)) = AtPeer("ResultCode", m.ResultCode)
      /\ AtPeer("ResultCode", m.ResultCode) # Malformed
  BY CodeThere DEF ChunkToProto, Errorless, AtPeer, DownstreamChunkAckComplete
<1>4. /\ pb.StreamIdAlias = m.StreamIDAlias /\ pb.AckId = m.AckID
      /\ pb.ResultCode = toResultCodeProto(m.ResultCode) /\ pb.ResultString = m.ResultString
      /\ pb.ExtensionFields = m.ExtensionFields
  BY <1>1, <1>2 DEF ChunkToProto, WithKind, DownstreamChunkAckComplete
<1>5. ChunkToWire(pb, m.ExtensionFields) = Body(m)
  BY <1>1, <1>3, <1>4
  DEF ChunkToWire, AtPeer, DownstreamChunkAckComplete, Body
<1>6. Errorless(Body(m))
  BY <1>2, <1>3
  DEF ChunkToProto, Errorless, AtPeer, DownstreamChunkAckComplete, Body
<1> QED BY <1>2, <1>5, <1>6

(* An UpstreamMetadata.                                                    *)
LEMMA UpstreamMetadataThere ==
  ASSUME NEW m \in UpstreamMetadata,
         NEW p, p = MetadataToProto(m, ToExt(m)), Errorless(p),
         NEW pb, pb = WithKind(m.kind, p)
  PROVE  MetadataToWire(pb, FromExt(pb)) = Body(m) /\ Errorless(Body(m))
<1>1. HasExtension(m) /\ pb.kind = m.kind /\ pb.ExtensionFields = ToExt(m)
  BY DEF HasExtension, UpstreamMetadata, MetadataToProto, WithKind
<1>2. FromExt(pb) = m.ExtensionFields /\ ToExt(m) = m.ExtensionFields
  BY <1>1, ExtensionThere
<1>3. /\ m.Metadata \in {Nil} \cup SendableMetadata
      /\ toUpstreamMetadataProto(m.Metadata) # Malformed
  BY DEF MetadataToProto, Errorless, UpstreamMetadata
<1>4. /\ toMetadataUpstream(toUpstreamMetadataProto(m.Metadata)) = m.Metadata
      /\ m.Metadata # Malformed
  BY <1>3, SendableThere
<1>5. /\ pb.RequestId = m.RequestID /\ pb.Metadata = toUpstreamMetadataProto(m.Metadata)
      /\ pb.ExtensionFields = m.ExtensionFields
  BY <1>1, <1>2 DEF MetadataToProto, WithKind, UpstreamMetadata
<1>6. MetadataToWire(pb, m.ExtensionFields) = Body(m)
  BY <1>1, <1>4, <1>5
  DEF MetadataToWire, AtPeer, UpstreamMetadata, Body
<1>7. Errorless(Body(m))
  BY <1>2, <1>4
  DEF MetadataToProto, Errorless, AtPeer, UpstreamMetadata, Body
<1> QED BY <1>2, <1>6, <1>7

(* A DownstreamMetadata.                                                   *)
LEMMA DownstreamMetadataThere ==
  ASSUME NEW m \in DownstreamMetadata,
         NEW p, p = MetadataToProto(m, ToExt(m)), Errorless(p),
         NEW pb, pb = WithKind(m.kind, p)
  PROVE  MetadataToWire(pb, FromExt(pb)) = Body(m) /\ Errorless(Body(m))
<1>1. HasExtension(m) /\ pb.kind = m.kind /\ pb.ExtensionFields = ToExt(m)
  BY DEF HasExtension, DownstreamMetadata, MetadataToProto, WithKind
<1>2. FromExt(pb) = m.ExtensionFields /\ ToExt(m) = m.ExtensionFields
  BY <1>1, ExtensionThere
<1>3. m.Metadata \in {Nil} \cup Metadata /\ toDownstreamMetadataProto(m.Metadata) # Malformed
  BY DEF MetadataToProto, Errorless, DownstreamMetadata
<1>4. /\ toDownstreamMetadata(toDownstreamMetadataProto(m.Metadata)) = m.Metadata
      /\ m.Metadata # Malformed
  BY <1>3, MetadataThere
<1>5. /\ pb.RequestId = m.RequestID /\ pb.StreamIdAlias = m.StreamIDAlias
      /\ pb.SourceNodeId = m.SourceNodeID /\ pb.Metadata = toDownstreamMetadataProto(m.Metadata)
      /\ pb.ExtensionFields = m.ExtensionFields
  BY <1>1, <1>2 DEF MetadataToProto, WithKind, DownstreamMetadata
<1>6. MetadataToWire(pb, m.ExtensionFields) = Body(m)
  BY <1>1, <1>4, <1>5
  DEF MetadataToWire, AtPeer, DownstreamMetadata, Body
<1>7. Errorless(Body(m))
  BY <1>2, <1>4
  DEF MetadataToProto, Errorless, AtPeer, DownstreamMetadata, Body
<1> QED BY <1>2, <1>6, <1>7

(* An ack of metadata.                                                     *)
LEMMA AnswerMetadataThere ==
  ASSUME NEW k \in {"UpstreamMetadataAck", "DownstreamMetadataAck"}, NEW m \in Answer(k),
         NEW p, p = MetadataToProto(m, ToExt(m)), Errorless(p),
         NEW pb, pb = WithKind(m.kind, p)
  PROVE  MetadataToWire(pb, FromExt(pb)) = Body(m) /\ Errorless(Body(m))
<1>1. HasExtension(m) /\ pb.kind = m.kind /\ pb.ExtensionFields = ToExt(m)
  BY DEF HasExtension, Answer, MetadataToProto, WithKind
<1>2. FromExt(pb) = m.ExtensionFields /\ ToExt(m) = m.ExtensionFields
  BY <1>1, ExtensionThere
<1>3. /\ toResultCode(toResultCodeProto(m.ResultCode)) = AtPeer("ResultCode", m.ResultCode)
      /\ AtPeer("ResultCode", m.ResultCode) # Malformed
  BY CodeThere DEF MetadataToProto, Errorless, AtPeer, Answer
<1>4. /\ pb.RequestId = m.RequestID /\ pb.ResultCode = toResultCodeProto(m.ResultCode)
      /\ pb.ResultString = m.ResultString /\ pb.ExtensionFields = m.ExtensionFields
  BY <1>1, <1>2 DEF MetadataToProto, WithKind, Answer
<1>5. MetadataToWire(pb, m.ExtensionFields) = Body(m)
  BY <1>1, <1>3, <1>4
  DEF MetadataToWire, AtPeer, Answer, Body
<1>6. Errorless(Body(m))
  BY <1>2, <1>3
  DEF MetadataToProto, Errorless, AtPeer, Answer, Body
<1> QED BY <1>2, <1>5, <1>6

-----------------------------------------------------------------------------
(* All the messages.                                                       *)

(* The body of a message, towards protobuf,                                *)
ToBody(m) ==
  CASE m.kind \in ConnectionKinds -> ConnectionToProto(m, ToExt(m))
    [] m.kind \in UpstreamKinds   -> UpstreamToProto(m, ToExt(m))
    [] m.kind \in DownstreamKinds -> DownstreamToProto(m, ToExt(m))
    [] m.kind \in CallKinds       -> CallToProto(m, ToExt(m))
    [] m.kind \in ChunkKinds      -> ChunkToProto(m, ToExt(m))
    [] m.kind \in MetadataKinds   -> MetadataToProto(m, ToExt(m))

(* and back.                                                               *)
FromBody(pb) ==
  CASE pb.kind \in ConnectionKinds -> ConnectionToWire(pb, FromExt(pb))
    [] pb.kind \in UpstreamKinds   -> UpstreamToWire(pb, FromExt(pb))
    [] pb.kind \in DownstreamKinds -> DownstreamToWire(pb, FromExt(pb))
    [] pb.kind \in CallKinds       -> CallToWire(pb, FromExt(pb))
    [] pb.kind \in ChunkKinds      -> ChunkToWire(pb, FromExt(pb))
    [] pb.kind \in MetadataKinds   -> MetadataToWire(pb, FromExt(pb))

(* The two conversions are that of the body, with the kind put on.         *)
LEMMA Converted ==
  ASSUME NEW m
  PROVE  /\ WireToProto(m) = IF m.kind \notin Kinds THEN Malformed ELSE Tagged(m.kind, ToBody(m))
         /\ ProtoToWire(m) = IF m.kind \notin Kinds THEN Malformed ELSE Tagged(m.kind, FromBody(m))
BY DEF WireToProto, ProtoToWire, ToBody, FromBody, ToExt, FromExt

(* The conversion of a message is that of its group: no kind is in two of  *)
(* them.                                                                   *)
LEMMA Dispatched ==
  ASSUME NEW m
  PROVE  /\ m.kind \in ConnectionKinds => /\ ToBody(m) = ConnectionToProto(m, ToExt(m))
                                          /\ FromBody(m) = ConnectionToWire(m, FromExt(m))
         /\ m.kind \in UpstreamKinds => /\ ToBody(m) = UpstreamToProto(m, ToExt(m))
                                        /\ FromBody(m) = UpstreamToWire(m, FromExt(m))
         /\ m.kind \in DownstreamKinds => /\ ToBody(m) = DownstreamToProto(m, ToExt(m))
                                          /\ FromBody(m) = DownstreamToWire(m, FromExt(m))
         /\ m.kind \in CallKinds => /\ ToBody(m) = CallToProto(m, ToExt(m))
                                    /\ FromBody(m) = CallToWire(m, FromExt(m))
         /\ m.kind \in ChunkKinds => /\ ToBody(m) = ChunkToProto(m, ToExt(m))
                                     /\ FromBody(m) = ChunkToWire(m, FromExt(m))
         /\ m.kind \in MetadataKinds => /\ ToBody(m) = MetadataToProto(m, ToExt(m))
                                        /\ FromBody(m) = MetadataToWire(m, FromExt(m))
<1>1. /\ m.kind \in ConnectionKinds =>
           m.kind \notin UpstreamKinds \cup DownstreamKinds \cup CallKinds \cup ChunkKinds
                          \cup MetadataKinds
      /\ m.kind \in UpstreamKinds =>
           m.kind \notin DownstreamKinds \cup CallKinds \cup ChunkKinds \cup MetadataKinds
      /\ m.kind \in DownstreamKinds => m.kind \notin CallKinds \cup ChunkKinds \cup MetadataKinds
      /\ m.kind \in CallKinds => m.kind \notin ChunkKinds \cup MetadataKinds
      /\ m.kind \in ChunkKinds => m.kind \notin MetadataKinds
  BY DEF ConnectionKinds, UpstreamKinds, DownstreamKinds, CallKinds, ChunkKinds, MetadataKinds
<1> QED BY <1>1 DEF ToBody, FromBody

(* The body of every message.                                              *)
LEMMA BodyThere ==
  ASSUME NEW A \in SUBSET Aliases, NEW B \in SUBSET Aliases, NEW m \in Message(A, B),
         NEW p, p = ToBody(m), Errorless(p), NEW pb, pb = WithKind(m.kind, p)
  PROVE  FromBody(pb) = Body(m) /\ Errorless(Body(m))
<1>1. pb.kind = m.kind
  BY DEF WithKind
<1>2. CASE m \in ConnectRequest \cup ConnectResponse \cup Disconnect
  <2>1. m.kind \in ConnectionKinds
    BY <1>2 DEF ConnectRequest, ConnectResponse, Disconnect, ConnectionKinds
  <2>2. p = ConnectionToProto(m, ToExt(m)) /\ FromBody(pb) = ConnectionToWire(pb, FromExt(pb))
    BY <1>1, <2>1, Dispatched
  <2> QED BY <1>2, <2>2, ConnectRequestThere, ConnectResponseThere, DisconnectThere
<1>3. CASE m \in UpstreamOpenRequest \cup UpstreamOpenResponse(A) \cup UpstreamResumeRequest
                  \cup UpstreamResumeResponse \cup UpstreamCloseRequest
                  \cup Answer("UpstreamCloseResponse")
  <2>1. m.kind \in UpstreamKinds
    BY <1>3 DEF UpstreamOpenRequest, UpstreamOpenResponse, UpstreamResumeRequest,
                UpstreamResumeResponse, UpstreamCloseRequest, Answer, UpstreamKinds
  <2>2. p = UpstreamToProto(m, ToExt(m)) /\ FromBody(pb) = UpstreamToWire(pb, FromExt(pb))
    BY <1>1, <2>1, Dispatched
  <2> QED BY <1>3, <2>2, UpstreamOpenRequestThere, UpstreamOpenResponseThere,
             UpstreamResumeRequestThere, UpstreamResumeResponseThere, UpstreamCloseRequestThere,
             AnswerUpstreamThere
<1>4. CASE m \in DownstreamOpenRequest(A) \cup DownstreamOpenResponse \cup DownstreamResumeRequest
                  \cup DownstreamResumeResponse \cup DownstreamCloseRequest
                  \cup Answer("DownstreamCloseResponse")
  <2>1. m.kind \in DownstreamKinds
    BY <1>4 DEF DownstreamOpenRequest, DownstreamOpenResponse, DownstreamResumeRequest,
                DownstreamResumeResponse, DownstreamCloseRequest, Answer, DownstreamKinds
  <2>2. p = DownstreamToProto(m, ToExt(m)) /\ FromBody(pb) = DownstreamToWire(pb, FromExt(pb))
    BY <1>1, <2>1, Dispatched
  <2> QED BY <1>4, <2>2, DownstreamOpenRequestThere, DownstreamOpenResponseThere,
             DownstreamResumeRequestThere, DownstreamResumeResponseThere,
             DownstreamCloseRequestThere, AnswerDownstreamThere
<1>5. CASE m \in UpstreamCall \cup UpstreamCallAck \cup DownstreamCall \cup Ping \cup Pong
  <2>1. m.kind \in CallKinds
    BY <1>5 DEF UpstreamCall, UpstreamCallAck, DownstreamCall, Ping, Pong, CallKinds
  <2>2. p = CallToProto(m, ToExt(m)) /\ FromBody(pb) = CallToWire(pb, FromExt(pb))
    BY <1>1, <2>1, Dispatched
  <2> QED BY <1>5, <2>2, UpstreamCallThere, UpstreamCallAckThere, DownstreamCallThere, PingThere,
             PongThere
<1>6. CASE m \in UpstreamChunk \cup UpstreamChunkAck(A) \cup DownstreamChunk
                  \cup DownstreamChunkAck(A, B) \cup DownstreamChunkAckComplete
  <2>1. m.kind \in ChunkKinds
    BY <1>6 DEF UpstreamChunk, UpstreamChunkAck, DownstreamChunk, DownstreamChunkAck,
                DownstreamChunkAckComplete, ChunkKinds
  <2>2. p = ChunkToProto(m, ToExt(m)) /\ FromBody(pb) = ChunkToWire(pb, FromExt(pb))
    BY <1>1, <2>1, Dispatched
  <2> QED BY <1>6, <2>2, UpstreamChunkThere, UpstreamChunkAckThere, DownstreamChunkThere,
             DownstreamChunkAckThere, DownstreamChunkAckCompleteThere
<1>7. CASE m \in UpstreamMetadata \cup DownstreamMetadata \cup Answer("UpstreamMetadataAck")
                  \cup Answer("DownstreamMetadataAck")
  <2>1. m.kind \in MetadataKinds
    BY <1>7 DEF UpstreamMetadata, DownstreamMetadata, Answer, MetadataKinds
  <2>2. p = MetadataToProto(m, ToExt(m)) /\ FromBody(pb) = MetadataToWire(pb, FromExt(pb))
    BY <1>1, <2>1, Dispatched
  <2> QED BY <1>7, <2>2, UpstreamMetadataThere, DownstreamMetadataThere, AnswerMetadataThere
<1> QED BY <1>2, <1>3, <1>4, <1>5, <1>6, <1>7 DEF Message

(* What the peer is to find in a field has the type of the field.          *)
LEMMA AtPeerStays ==
  /\ \A f, v : f \notin {"PingInterval", "PingTimeout", "ExpiryInterval", "AckInterval",
                         "ResultCode", "ServerTime", "Results", "StreamChunk"} => AtPeer(f, v) = v
  /\ \A f \in {"PingInterval", "PingTimeout", "ExpiryInterval", "AckInterval"} :
       \A v \in Duration : AtPeer(f, v) \in Duration
  /\ \A v \in ResultCode : AtPeer("ResultCode", v) \in ResultCode
  /\ \A v \in Time : AtPeer("ServerTime", v) \in Time
  /\ \A v \in Seq(UpstreamChunkResult) : AtPeer("Results", v) \in Seq(UpstreamChunkResult)
  /\ \A v \in Seq(DownstreamChunkResult) : AtPeer("Results", v) \in Seq(DownstreamChunkResult)
  /\ \A v \in {Nil} \cup StreamChunk : AtPeer("StreamChunk", v) \in StreamChunk
<1>1. ASSUME NEW f, NEW v,
             f \notin {"PingInterval", "PingTimeout", "ExpiryInterval", "AckInterval",
                       "ResultCode", "ServerTime", "Results", "StreamChunk"}
      PROVE  AtPeer(f, v) = v
  BY <1>1 DEF AtPeer
<1>2. ASSUME NEW f \in {"PingInterval", "PingTimeout", "ExpiryInterval", "AckInterval"},
             NEW v \in Duration
      PROVE  AtPeer(f, v) \in Duration
  <2>1. AtPeer(f, v) = v - (v % Second) \/ AtPeer(f, v) = v - (v % Milli)
    BY DEF AtPeer
  <2>2. v - (v % Second) \in Nat /\ v - (v % Milli) \in Nat
    BY Interval, ConvertAssumption DEF Duration
  <2> QED BY <2>1, <2>2 DEF Duration
<1>3. "Succeeded" \in ResultCode
  BY DEF ResultCode
<1>4. ASSUME NEW v \in ResultCode
      PROVE  AtPeer("ResultCode", v) \in ResultCode
  BY <1>3 DEF AtPeer
<1>5. ASSUME NEW v \in Time
      PROVE  AtPeer("ServerTime", v) \in Time
  BY DEF AtPeer, Time
<1>6. ASSUME NEW v
      PROVE  AtPeer("Results", v) = [i \in DOMAIN v |-> [v[i] EXCEPT !.ResultCode =
                                       IF @ = "NormalClosure" THEN "Succeeded" ELSE @]]
  BY DEF AtPeer
<1>7. ASSUME NEW v \in Seq(UpstreamChunkResult)
      PROVE  AtPeer("Results", v) \in Seq(UpstreamChunkResult)
  <2>1. \A i \in DOMAIN v : v[i] \in UpstreamChunkResult
    BY SeqIs
  <2>2. \A i \in DOMAIN v :
          [v[i] EXCEPT !.ResultCode = IF @ = "NormalClosure" THEN "Succeeded" ELSE @]
            \in UpstreamChunkResult
    BY <1>3, <2>1 DEF UpstreamChunkResult
  <2> QED BY <1>6, <2>2
<1>8. ASSUME NEW v \in Seq(DownstreamChunkResult)
      PROVE  AtPeer("Results", v) \in Seq(DownstreamChunkResult)
  <2>1. \A i \in DOMAIN v : v[i] \in DownstreamChunkResult
    BY SeqIs
  <2>2. \A i \in DOMAIN v :
          [v[i] EXCEPT !.ResultCode = IF @ = "NormalClosure" THEN "Succeeded" ELSE @]
            \in DownstreamChunkResult
    BY <1>3, <2>1 DEF DownstreamChunkResult
  <2> QED BY <1>6, <2>2
<1>9. ASSUME NEW v \in {Nil} \cup StreamChunk
      PROVE  AtPeer("StreamChunk", v) \in StreamChunk
  BY DEF AtPeer, StreamChunk
<1> QED BY <1>1, <1>2, <1>4, <1>5, <1>7, <1>8, <1>9

(* What the peer is to find is a message with the same keys in its maps.   *)
LEMMA ReadIsMessage ==
  ASSUME NEW A, NEW B, NEW m \in Message(A, B)
  PROVE  AsRead(m) \in Message(A, B)
<1>1. m \in ConnectRequest => AsRead(m) \in ConnectRequest
  BY AtPeerStays DEF AsRead, ConnectRequest
<1>2. m \in ConnectResponse => AsRead(m) \in ConnectResponse
  BY AtPeerStays DEF AsRead, ConnectResponse
<1>3. m \in Disconnect => AsRead(m) \in Disconnect
  BY AtPeerStays DEF AsRead, Disconnect
<1>4. m \in UpstreamOpenRequest => AsRead(m) \in UpstreamOpenRequest
  BY AtPeerStays DEF AsRead, UpstreamOpenRequest
<1>5. m \in UpstreamOpenResponse(A) => AsRead(m) \in UpstreamOpenResponse(A)
  BY AtPeerStays DEF AsRead, UpstreamOpenResponse
<1>6. m \in UpstreamResumeRequest => AsRead(m) \in UpstreamResumeRequest
  BY AtPeerStays DEF AsRead, UpstreamResumeRequest
<1>7. m \in UpstreamResumeResponse => AsRead(m) \in UpstreamResumeResponse
  BY AtPeerStays DEF AsRead, UpstreamResumeResponse
<1>8. m \in UpstreamCloseRequest => AsRead(m) \in UpstreamCloseRequest
  BY AtPeerStays DEF AsRead, UpstreamCloseRequest
<1>9. m \in Answer("UpstreamCloseResponse") => AsRead(m) \in Answer("UpstreamCloseResponse")
  BY AtPeerStays DEF AsRead, Answer
<1>10. m \in DownstreamOpenRequest(A) => AsRead(m) \in DownstreamOpenRequest(A)
  BY AtPeerStays DEF AsRead, DownstreamOpenRequest
<1>11. m \in DownstreamOpenResponse => AsRead(m) \in DownstreamOpenResponse
  BY AtPeerStays DEF AsRead, DownstreamOpenResponse
<1>12. m \in DownstreamResumeRequest => AsRead(m) \in DownstreamResumeRequest
  BY AtPeerStays DEF AsRead, DownstreamResumeRequest
<1>13. m \in DownstreamResumeResponse => AsRead(m) \in DownstreamResumeResponse
  BY AtPeerStays DEF AsRead, DownstreamResumeResponse
<1>14. m \in DownstreamCloseRequest => AsRead(m) \in DownstreamCloseRequest
  BY AtPeerStays DEF AsRead, DownstreamCloseRequest
<1>15. m \in Answer("DownstreamCloseResponse") => AsRead(m) \in Answer("DownstreamCloseResponse")
  BY AtPeerStays DEF AsRead, Answer
<1>16. m \in UpstreamCall => AsRead(m) \in UpstreamCall
  BY AtPeerStays DEF AsRead, UpstreamCall
<1>17. m \in UpstreamCallAck => AsRead(m) \in UpstreamCallAck
  BY AtPeerStays DEF AsRead, UpstreamCallAck
<1>18. m \in DownstreamCall => AsRead(m) \in DownstreamCall
  BY AtPeerStays DEF AsRead, DownstreamCall
<1>19. m \in Ping => AsRead(m) \in Ping
  BY AtPeerStays DEF AsRead, Ping
<1>20. m \in Pong => AsRead(m) \in Pong
  BY AtPeerStays DEF AsRead, Pong
<1>21. m \in UpstreamChunk => AsRead(m) \in UpstreamChunk
  BY AtPeerStays DEF AsRead, UpstreamChunk
<1>22. m \in UpstreamChunkAck(A) => AsRead(m) \in UpstreamChunkAck(A)
  BY AtPeerStays DEF AsRead, UpstreamChunkAck
<1>23. m \in DownstreamChunk => AsRead(m) \in DownstreamChunk
  BY AtPeerStays DEF AsRead, DownstreamChunk
<1>24. m \in DownstreamChunkAck(A, B) => AsRead(m) \in DownstreamChunkAck(A, B)
  <2> SUFFICES ASSUME m \in DownstreamChunkAck(A, B)
               PROVE  AsRead(m) \in DownstreamChunkAck(A, B)
    OBVIOUS
  <2>1. AsRead(m) = [f \in DOMAIN m |->
                       IF f = "Results" THEN AtPeer("Results", m.Results) ELSE m[f]]
    BY AtPeerStays DEF AsRead, DownstreamChunkAck
  <2>2. AtPeer("Results", m.Results) \in Seq(DownstreamChunkResult)
    BY AtPeerStays DEF DownstreamChunkAck
  <2> QED BY <2>1, <2>2 DEF DownstreamChunkAck
<1>25. m \in DownstreamChunkAckComplete => AsRead(m) \in DownstreamChunkAckComplete
  BY AtPeerStays DEF AsRead, DownstreamChunkAckComplete
<1>26. m \in UpstreamMetadata => AsRead(m) \in UpstreamMetadata
  BY AtPeerStays DEF AsRead, UpstreamMetadata
<1>27. m \in DownstreamMetadata => AsRead(m) \in DownstreamMetadata
  BY AtPeerStays DEF AsRead, DownstreamMetadata
<1>28. m \in Answer("UpstreamMetadataAck") => AsRead(m) \in Answer("UpstreamMetadataAck")
  BY AtPeerStays DEF AsRead, Answer
<1>29. m \in Answer("DownstreamMetadataAck") => AsRead(m) \in Answer("DownstreamMetadataAck")
  BY AtPeerStays DEF AsRead, Answer
<1> QED BY <1>1, <1>2, <1>3, <1>4, <1>5, <1>6, <1>7, <1>8, <1>9, <1>10, <1>11, <1>12, <1>13,
           <1>14, <1>15, <1>16, <1>17, <1>18, <1>19, <1>20, <1>21, <1>22, <1>23, <1>24,
           <1>25, <1>26, <1>27, <1>28, <1>29
       DEF Message

(* A message is a record with a kind.                                      *)
LEMMA Shape ==
  ASSUME NEW A, NEW B, NEW m \in Message(A, B)
  PROVE  /\ m.kind \in Kinds
         /\ m = [f \in DOMAIN m |-> m[f]] /\ "kind" \in DOMAIN m
BY DEF Message, Kinds, ConnectionKinds, UpstreamKinds, DownstreamKinds, CallKinds, ChunkKinds,
       MetadataKinds, ConnectRequest, ConnectResponse, Disconnect, UpstreamOpenRequest,
       UpstreamOpenResponse, UpstreamResumeRequest, UpstreamResumeResponse, UpstreamCloseRequest,
       Answer, DownstreamOpenRequest, DownstreamOpenResponse, DownstreamResumeRequest,
       DownstreamResumeResponse, DownstreamCloseRequest, UpstreamCall, UpstreamCallAck,
       DownstreamCall, Ping, Pong, UpstreamChunk, UpstreamChunkAck, DownstreamChunk,
       DownstreamChunkAck, DownstreamChunkAckComplete, UpstreamMetadata, DownstreamMetadata

(* No body has a kind of its own.                                          *)
LEMMA ToBodyUntagged ==
  ASSUME NEW m, m.kind \in Kinds
  PROVE  "kind" \notin DOMAIN ToBody(m)
<1>1. CASE m.kind \in ConnectionKinds
  <2>1. ToBody(m) = ConnectionToProto(m, ToExt(m))
    BY <1>1, Dispatched
  <2> QED BY <1>1, <2>1 DEF ConnectionKinds, ConnectionToProto
<1>2. CASE m.kind \in UpstreamKinds
  <2>1. ToBody(m) = UpstreamToProto(m, ToExt(m))
    BY <1>2, Dispatched
  <2> QED BY <1>2, <2>1 DEF UpstreamKinds, UpstreamToProto
<1>3. CASE m.kind \in DownstreamKinds
  <2>1. ToBody(m) = DownstreamToProto(m, ToExt(m))
    BY <1>3, Dispatched
  <2> QED BY <1>3, <2>1 DEF DownstreamKinds, DownstreamToProto
<1>4. CASE m.kind \in CallKinds
  <2>1. ToBody(m) = CallToProto(m, ToExt(m))
    BY <1>4, Dispatched
  <2> QED BY <1>4, <2>1 DEF CallKinds, CallToProto
<1>5. CASE m.kind \in ChunkKinds
  <2>1. ToBody(m) = ChunkToProto(m, ToExt(m))
    BY <1>5, Dispatched
  <2> QED BY <1>5, <2>1 DEF ChunkKinds, ChunkToProto
<1>6. CASE m.kind \in MetadataKinds
  <2>1. ToBody(m) = MetadataToProto(m, ToExt(m))
    BY <1>6, Dispatched
  <2> QED BY <1>6, <2>1 DEF MetadataKinds, MetadataToProto
<1> QED BY <1>1, <1>2, <1>3, <1>4, <1>5, <1>6 DEF Kinds

(* A message that WireToProto accepts is read by ProtoToWire as what the   *)
(* peer is to find.                                                        *)
LEMMA Understood ==
  ASSUME NEW m, IsMessage(m), WireToProto(m) # Malformed
  PROVE  /\ ProtoToWire(WireToProto(m)) = AsRead(m)
         /\ AsRead(m) # Malformed
         /\ WireToProto(m) = WithKind(m.kind, ToBody(m))
<1>1. PICK A \in SUBSET Aliases, B \in SUBSET Aliases : m \in Message(A, B)
  BY DEF IsMessage
<1>2. m.kind \in Kinds /\ m = [f \in DOMAIN m |-> m[f]] /\ "kind" \in DOMAIN m
  BY <1>1, Shape
<1> DEFINE p == ToBody(m)
           pb == WithKind(m.kind, p)
<1>3. WireToProto(m) = Tagged(m.kind, p)
  BY <1>2, Converted
<1>4. "kind" \notin DOMAIN p
  BY <1>2, ToBodyUntagged
<1>5. Tagged(m.kind, p) = pb /\ Errorless(p)
  <2> HIDE DEF p
  <2> QED BY <1>3, <1>4, TaggedAccepted
<1>6. FromBody(pb) = Body(m) /\ Errorless(Body(m))
  BY <1>1, <1>5, BodyThere
<1>7. ProtoToWire(pb) = Tagged(m.kind, Body(m))
  BY <1>2, <1>6, Converted DEF WithKind
<1>8. Tagged(m.kind, Body(m)) = WithKind(m.kind, Body(m))
  <2>1. m.kind # Malformed
    BY <1>2, Apart
  <2>2. "kind" \notin DOMAIN Body(m)
    BY DEF Body
  <2> QED BY <1>6, <2>1, <2>2, TaggedIs
<1>9. WithKind(m.kind, Body(m)) = AsRead(m)
  BY <1>2 DEF WithKind, Body, AsRead, AtPeer
<1>10. AsRead(m) # Malformed
  BY <1>1, ReadIsMessage, MalformedAssumption
<1> QED BY <1>3, <1>5, <1>7, <1>8, <1>9, <1>10

(* What the property asks of a field f with the value v.                   *)
FieldSound(f, v) ==
  /\ f = "ResultCode" => v \in KnownCodes
  /\ f = "QoS" => v \in QoSs
  /\ f \in IdFields => v \in UUIDs
  /\ f = "Results" => \A i \in DOMAIN v : Sound(v[i])
  /\ f = "Metadata" => v # Nil /\ Sound(v)
  /\ f = "UpstreamOrAlias" => v # Nil /\ Sound(v)
  /\ f = "UpstreamAliases" => \A a \in DOMAIN v : Sound(v[a])
  /\ f = "StreamChunk" => /\ v # Nil
                          /\ \A i \in DOMAIN v.DataPointGroups :
                               v.DataPointGroups[i].DataIDOrAlias # Nil

-----------------------------------------------------------------------------
(* What is read is well-formed, whatever is on the transport.  First the   *)
(* parts.                                                                  *)

(* Enumerators and ids.                                                    *)
LEMMA LeavesRead ==
  ASSUME NEW x
  PROVE  /\ toResultCode(x) # Malformed => toResultCode(x) \in KnownCodes
         /\ toQoS(x) # Malformed => toQoS(x) \in QoSs
         /\ toUUID(x) # Malformed => toUUID(x) \in UUIDs
<1>1. toResultCode(x) # Malformed => toResultCode(x) \in KnownCodes
  BY DEF toResultCode, KnownCodes
<1>2. toQoS(x) # Malformed => toQoS(x) \in QoSs
  BY DEF toQoS, QoSs
<1>3. toUUID(x) # Malformed => toUUID(x) \in UUIDs
  BY DEF toUUID
<1> QED BY <1>1, <1>2, <1>3

(* One result,                                                             *)
LEMMA ResultRead ==
  ASSUME NEW r
  PROVE  /\ toUpstreamDataPointResult(r) # Malformed => Sound(toUpstreamDataPointResult(r))
         /\ toDownstreamDataPointResult(r) # Malformed => Sound(toDownstreamDataPointResult(r))
<1>1. ASSUME toUpstreamDataPointResult(r) # Malformed
      PROVE  Sound(toUpstreamDataPointResult(r))
  <2> DEFINE w == [SequenceNumber |-> r.SequenceNumber, ResultCode |-> toResultCode(r.ResultCode),
                   ResultString |-> r.ResultString,
                   ExtensionFields |-> Extension("UpstreamChunkResult", r.ExtensionFields)]
  <2>1. toUpstreamDataPointResult(r) = AllOr(w)
    BY DEF toUpstreamDataPointResult
  <2>2. toUpstreamDataPointResult(r) = w /\ Errorless(w)
    BY <1>1, <2>1, AllOrFails
  <2>3. w.ResultCode \in KnownCodes
    BY <2>2, LeavesRead DEF Errorless
  <2> QED BY <2>2, <2>3 DEF Sound, IdFields
<1>2. ASSUME toDownstreamDataPointResult(r) # Malformed
      PROVE  Sound(toDownstreamDataPointResult(r))
  <2> DEFINE w == [StreamIDOfUpstream |-> toUUID(r.StreamIdOfUpstream),
                   SequenceNumberInUpstream |-> r.SequenceNumberInUpstream,
                   ResultCode |-> toResultCode(r.ResultCode), ResultString |-> r.ResultString,
                   ExtensionFields |-> Extension("DownstreamChunkResult", r.ExtensionFields)]
  <2>1. toDownstreamDataPointResult(r) = AllOr(w)
    BY DEF toDownstreamDataPointResult
  <2>2. toDownstreamDataPointResult(r) = w /\ Errorless(w)
    BY <1>2, <2>1, AllOrFails
  <2>3. w.ResultCode \in KnownCodes /\ w.StreamIDOfUpstream \in UUIDs
    BY <2>2, LeavesRead DEF Errorless
  <2> QED BY <2>2, <2>3 DEF Sound, IdFields
<1> QED BY <1>1, <1>2

(* and the results of an ack.                                              *)
LEMMA ResultsRead ==
  ASSUME NEW rs
  PROVE  /\ Each(toUpstreamDataPointResult, rs) # Malformed
              => FieldSound("Results", Each(toUpstreamDataPointResult, rs))
         /\ Each(toDownstreamDataPointResult, rs) # Malformed
              => FieldSound("Results", Each(toDownstreamDataPointResult, rs))
<1>1. ASSUME Each(toUpstreamDataPointResult, rs) # Malformed
      PROVE  FieldSound("Results", Each(toUpstreamDataPointResult, rs))
  <2> DEFINE w == [i \in DOMAIN rs |-> toUpstreamDataPointResult(rs[i])]
  <2>1. Each(toUpstreamDataPointResult, rs) = AllOr(w)
    BY DEF Each
  <2>2. AllOr(w) = w /\ Errorless(w)
    BY <1>1, <2>1, AllOrFails
  <2>3. \A i \in DOMAIN w : Sound(w[i])
    BY <2>2, ResultRead DEF Errorless
  <2>4. FieldSound("Results", w)
    BY <2>3 DEF FieldSound, IdFields
  <2> QED BY <2>1, <2>2, <2>4
<1>2. ASSUME Each(toDownstreamDataPointResult, rs) # Malformed
      PROVE  FieldSound("Results", Each(toDownstreamDataPointResult, rs))
  <2> DEFINE w == [i \in DOMAIN rs |-> toDownstreamDataPointResult(rs[i])]
  <2>1. Each(toDownstreamDataPointResult, rs) = AllOr(w)
    BY DEF Each
  <2>2. AllOr(w) = w /\ Errorless(w)
    BY <1>2, <2>1, AllOrFails
  <2>3. \A i \in DOMAIN w : Sound(w[i])
    BY <2>2, ResultRead DEF Errorless
  <2>4. FieldSound("Results", w)
    BY <2>3 DEF FieldSound, IdFields
  <2> QED BY <2>1, <2>2, <2>4
<1> QED BY <1>1, <1>2

(* The description of an upstream.                                         *)
LEMMA InfoRead ==
  ASSUME NEW info, toUpstreamInfo(info) # Malformed
  PROVE  toUpstreamInfo(info) # Nil /\ Sound(toUpstreamInfo(info))
<1> DEFINE w == [SessionID |-> info.SessionId, SourceNodeID |-> info.SourceNodeId,
                 StreamID |-> toUUID(info.StreamId)]
<1>1. toUpstreamInfo(info) = AllOr(w)
  BY DEF toUpstreamInfo
<1>2. toUpstreamInfo(info) = w /\ Errorless(w)
  BY <1>1, AllOrFails
<1>3. w.StreamID \in UUIDs
  BY <1>2, LeavesRead DEF Errorless
<1> QED BY <1>2, <1>3 DEF Sound, IdFields, Nil

(* The aliases of upstreams.                                               *)
LEMMA AliasesRead ==
  ASSUME NEW aliases, toUpstreamAliases(aliases) # Malformed
  PROVE  FieldSound("UpstreamAliases", toUpstreamAliases(aliases))
<1> DEFINE w == [a \in DOMAIN aliases |-> toUpstreamInfo(aliases[a])]
<1>1. toUpstreamAliases(aliases) = AllOr(w)
  BY DEF toUpstreamAliases
<1>2. toUpstreamAliases(aliases) = w /\ Errorless(w)
  BY <1>1, AllOrFails
<1>3. \A a \in DOMAIN w : Sound(w[a])
  BY <1>2, InfoRead DEF Errorless
<1> QED BY <1>2, <1>3 DEF FieldSound, IdFields

(* The upstream of a DownstreamChunk, or its alias.                        *)
LEMMA UnionRead ==
  ASSUME NEW u, toUpstreamOrAlias(u) # Malformed
  PROVE  FieldSound("UpstreamOrAlias", toUpstreamOrAlias(u))
<1>1. \/ toUpstreamOrAlias(u) = [UpstreamAlias |-> u.UpstreamAlias]
      \/ toUpstreamOrAlias(u) = toUpstreamInfo(u.UpstreamInfo)
  BY DEF toUpstreamOrAlias
<1>2. CASE toUpstreamOrAlias(u) = [UpstreamAlias |-> u.UpstreamAlias]
  BY <1>2 DEF FieldSound, Sound, IdFields, Nil
<1>3. CASE toUpstreamOrAlias(u) = toUpstreamInfo(u.UpstreamInfo)
  BY <1>3, InfoRead DEF FieldSound, IdFields
<1> QED BY <1>1, <1>2, <1>3

(* A group of data points has an id.                                       *)
LEMMA GroupRead ==
  ASSUME NEW g, toDataPointGroup(g) # Malformed
  PROVE  toDataPointGroup(g).DataIDOrAlias # Nil
<1> DEFINE w == [DataIDOrAlias |-> toDataIDOrAlias(g.DataIdOrAlias),
                 DataPoints |-> toDataPoints(g.DataPoints)]
<1>1. toDataPointGroup(g) = AllOr(w)
  BY DEF toDataPointGroup
<1>2. toDataPointGroup(g) = w /\ Errorless(w)
  BY <1>1, AllOrFails
<1>3. w.DataIDOrAlias # Malformed
  BY <1>2 DEF Errorless
<1>4. toDataIDOrAlias(g.DataIdOrAlias) # Nil
  BY <1>3 DEF toDataIDOrAlias, toDataID, Nil
<1> QED BY <1>2, <1>4

(* The chunk of a stream is there.                                         *)
LEMMA ChunkRead ==
  ASSUME NEW c, toStreamChunk(c) # Malformed
  PROVE  FieldSound("StreamChunk", toStreamChunk(c))
<1>1. CASE c = Nil
  <2>1. toStreamChunk(c) = [SequenceNumber |-> 0, DataPointGroups |-> <<>>]
    BY <1>1 DEF toStreamChunk
  <2> QED BY <2>1 DEF FieldSound, IdFields, Nil
<1>2. CASE c # Nil
  <2> DEFINE groups == [i \in DOMAIN c.DataPointGroups |-> toDataPointGroup(c.DataPointGroups[i])]
             w == [SequenceNumber |-> c.SequenceNumber, DataPointGroups |-> AllOr(groups)]
  <2>1. Each(toDataPointGroup, c.DataPointGroups) = AllOr(groups)
    BY DEF Each
  <2>2. toStreamChunk(c) = AllOr(w)
    BY <1>2, <2>1 DEF toStreamChunk
  <2>3. toStreamChunk(c) = w /\ Errorless(w)
    BY <2>2, AllOrFails
  <2>4. AllOr(groups) # Malformed
    BY <2>3 DEF Errorless
  <2>5. AllOr(groups) = groups /\ Errorless(groups)
    BY <2>4, AllOrFails
  <2>6. \A i \in DOMAIN groups : groups[i].DataIDOrAlias # Nil
    BY <2>5, GroupRead DEF Errorless
  <2>7. w.DataPointGroups = groups /\ w # Nil
    BY <2>5 DEF Nil
  <2> HIDE DEF w, groups
  <2> QED BY <2>3, <2>6, <2>7 DEF FieldSound, IdFields
<1> QED BY <1>1, <1>2

(* A record keeps its fields when its kind is put on.                      *)
LEMMA TaggedRead ==
  ASSUME NEW k, NEW r, "kind" \notin DOMAIN r, Tagged(k, r) # Malformed, Errorless(r) => Sound(r)
  PROVE  Tagged(k, r) # Nil /\ Sound(Tagged(k, r))
<1>1. Tagged(k, r) = WithKind(k, r) /\ Errorless(r)
  BY TaggedAccepted
<1> QED BY <1>1 DEF WithKind, Sound, IdFields, Nil

(* Metadata: a base time,                                                  *)
LEMMA BaseTimeRead ==
  ASSUME NEW v, Tagged("BaseTime", ToBaseTime(v)) # Malformed
  PROVE  FieldSound("Metadata", Tagged("BaseTime", ToBaseTime(v)))
<1>1. "kind" \notin DOMAIN ToBaseTime(v) /\ Sound(ToBaseTime(v))
  BY DEF ToBaseTime, Sound, IdFields
<1> QED BY <1>1, TaggedRead DEF FieldSound, IdFields

(* an event of an upstream or of a downstream,                             *)
LEMMA EventRead ==
  ASSUME NEW v
  PROVE  /\ v.kind \in UpstreamEvents /\ Tagged(v.kind, ToUpstreamEvent(v)) # Malformed
              => FieldSound("Metadata", Tagged(v.kind, ToUpstreamEvent(v)))
         /\ v.kind \in DownstreamEvents /\ Tagged(v.kind, ToDownstreamEvent(v)) # Malformed
              => FieldSound("Metadata", Tagged(v.kind, ToDownstreamEvent(v)))
<1>1. ASSUME v.kind \in UpstreamEvents, Tagged(v.kind, ToUpstreamEvent(v)) # Malformed
      PROVE  FieldSound("Metadata", Tagged(v.kind, ToUpstreamEvent(v)))
  <2> DEFINE r == ToUpstreamEvent(v)
  <2>1. "kind" \notin DOMAIN r
    BY <1>1 DEF ToUpstreamEvent, UpstreamEvents
  <2>2. ASSUME Errorless(r)
        PROVE  Sound(r)
    BY <1>1, <2>2, LeavesRead DEF ToUpstreamEvent, UpstreamEvents, Errorless, Sound, IdFields
  <2>3. Tagged(v.kind, r) # Malformed
    BY <1>1
  <2> HIDE DEF r
  <2>4. Tagged(v.kind, r) # Nil /\ Sound(Tagged(v.kind, r))
    BY <2>1, <2>2, <2>3, TaggedRead
  <2> QED BY <2>4 DEF FieldSound, IdFields, r
<1>2. ASSUME v.kind \in DownstreamEvents, Tagged(v.kind, ToDownstreamEvent(v)) # Malformed
      PROVE  FieldSound("Metadata", Tagged(v.kind, ToDownstreamEvent(v)))
  <2> DEFINE r == ToDownstreamEvent(v)
  <2>1. "kind" \notin DOMAIN r
    BY <1>2 DEF ToDownstreamEvent, DownstreamEvents
  <2>2. ASSUME Errorless(r)
        PROVE  Sound(r)
    BY <1>2, <2>2, LeavesRead DEF ToDownstreamEvent, DownstreamEvents, Errorless, Sound, IdFields
  <2>3. Tagged(v.kind, r) # Malformed
    BY <1>2
  <2> HIDE DEF r
  <2>4. Tagged(v.kind, r) # Nil /\ Sound(Tagged(v.kind, r))
    BY <2>1, <2>2, <2>3, TaggedRead
  <2> QED BY <2>4 DEF FieldSound, IdFields, r
<1> QED BY <1>1, <1>2

(* and all of it.                                                          *)
LEMMA MetadataRead ==
  ASSUME NEW v
  PROVE  /\ toMetadataUpstream(v) # Malformed => FieldSound("Metadata", toMetadataUpstream(v))
         /\ toDownstreamMetadata(v) # Malformed => FieldSound("Metadata", toDownstreamMetadata(v))
<1>1. toMetadataUpstream(v) # Malformed => FieldSound("Metadata", toMetadataUpstream(v))
  BY BaseTimeRead DEF toMetadataUpstream
<1>2. ASSUME toDownstreamMetadata(v) # Malformed
      PROVE  \/ toDownstreamMetadata(v) = Tagged("BaseTime", ToBaseTime(v))
             \/ /\ v.kind \in UpstreamEvents
                /\ toDownstreamMetadata(v) = Tagged(v.kind, ToUpstreamEvent(v))
             \/ /\ v.kind \in DownstreamEvents
                /\ toDownstreamMetadata(v) = Tagged(v.kind, ToDownstreamEvent(v))
  BY <1>2 DEF toDownstreamMetadata
<1> QED BY <1>1, <1>2, BaseTimeRead, EventRead

(* The id of a project in a ConnectRequest's extension fields.             *)
LEMMA ConnectExtensionRead ==
  ASSUME NEW x, toConnectRequestExtensionFields(x) # Malformed
  PROVE  LET y == toConnectRequestExtensionFields(x)
         IN  y = Nil \/ y.Intdash = Nil \/ Sound(y.Intdash)
<1>1. CASE x = Nil
  BY <1>1 DEF toConnectRequestExtensionFields
<1>2. CASE x # Nil
  <2> DEFINE d == toIntdashExtensionFields(x.Intdash)
             y == [AccessToken |-> x.AccessToken, Intdash |-> d]
             id == [ProjectUUID |-> toUUID(x.Intdash.ProjectUuid)]
  <2>1. toConnectRequestExtensionFields(x) = AllOr(y)
    BY <1>2 DEF toConnectRequestExtensionFields
  <2>2. toConnectRequestExtensionFields(x) = y /\ Errorless(y)
    BY <2>1, AllOrFails
  <2>3. d # Malformed
    BY <2>2 DEF Errorless
  <2>4. d = Nil \/ d = AllOr(id)
    BY DEF toIntdashExtensionFields
  <2>5. AllOr(id) # Malformed => AllOr(id) = id /\ id.ProjectUUID \in UUIDs
    BY AllOrFails, LeavesRead DEF Errorless
  <2>6. id.ProjectUUID \in UUIDs => Sound(id)
    BY DEF Sound, IdFields
  <2>7. d = Nil \/ Sound(d)
    BY <2>3, <2>4, <2>5, <2>6
  <2> HIDE DEF d
  <2> QED BY <2>2, <2>7
<1> QED BY <1>1, <1>2

-----------------------------------------------------------------------------
(* The messages.                                                           *)

(* The property asks nothing of the other fields.                          *)
LEMMA PlainField ==
  ASSUME NEW f, NEW v,
         f \notin {"ResultCode", "QoS", "Results", "Metadata", "UpstreamOrAlias",
                   "UpstreamAliases", "StreamChunk"} \cup IdFields
  PROVE  FieldSound(f, v)
BY DEF FieldSound

(* Fields that are an enumerator or an id.                                 *)
LEMMA LeafField ==
  ASSUME NEW x
  PROVE  /\ toResultCode(x) # Malformed => FieldSound("ResultCode", toResultCode(x))
         /\ toQoS(x) # Malformed => FieldSound("QoS", toQoS(x))
         /\ \A f \in IdFields : toUUID(x) # Malformed => FieldSound(f, toUUID(x))
BY LeavesRead DEF FieldSound, IdFields

(* upstreams,                                                              *)
LEMMA UpstreamBodyRead ==
  ASSUME NEW pb, pb.kind \in UpstreamKinds, NEW ext,
         NEW w, w = UpstreamToWire(pb, ext), Errorless(w)
  PROVE  "kind" \notin DOMAIN w /\ \A f \in DOMAIN w : FieldSound(f, w[f])
BY PlainField, LeafField DEF UpstreamKinds, UpstreamToWire, Errorless, IdFields

(* downstreams,                                                            *)
LEMMA DownstreamBodyRead ==
  ASSUME NEW pb, pb.kind \in DownstreamKinds, NEW ext,
         NEW w, w = DownstreamToWire(pb, ext), Errorless(w)
  PROVE  "kind" \notin DOMAIN w /\ \A f \in DOMAIN w : FieldSound(f, w[f])
BY PlainField, LeafField DEF DownstreamKinds, DownstreamToWire, Errorless, IdFields

(* calls and pings,                                                        *)
LEMMA CallBodyRead ==
  ASSUME NEW pb, pb.kind \in CallKinds, NEW ext,
         NEW w, w = CallToWire(pb, ext), Errorless(w)
  PROVE  "kind" \notin DOMAIN w /\ \A f \in DOMAIN w : FieldSound(f, w[f])
BY PlainField, LeafField DEF CallKinds, CallToWire, Errorless, IdFields

(* The bodies of the messages, a group at a time: connection,              *)
LEMMA ConnectionBodyRead ==
  ASSUME NEW pb, pb.kind \in ConnectionKinds, NEW ext,
         NEW w, w = ConnectionToWire(pb, ext), Errorless(w)
  PROVE  /\ "kind" \notin DOMAIN w /\ \A f \in DOMAIN w : FieldSound(f, w[f])
         /\ pb.kind = "ConnectRequest" => \/ w.ExtensionFields = Nil
                                          \/ w.ExtensionFields.Intdash = Nil
                                          \/ Sound(w.ExtensionFields.Intdash)
<1>1. "kind" \notin DOMAIN w /\ \A f \in DOMAIN w : FieldSound(f, w[f])
  BY PlainField, LeafField DEF ConnectionKinds, ConnectionToWire, Errorless, IdFields
<1>2. ASSUME pb.kind = "ConnectRequest"
      PROVE  \/ w.ExtensionFields = Nil
             \/ w.ExtensionFields.Intdash = Nil
             \/ Sound(w.ExtensionFields.Intdash)
  <2>1. w.ExtensionFields = toConnectRequestExtensionFields(pb.ExtensionFields)
        /\ w.ExtensionFields # Malformed
    BY <1>2 DEF ConnectionToWire, Errorless
  <2> QED BY <2>1, ConnectExtensionRead
<1> QED BY <1>1, <1>2

(* chunks and their acks,                                                  *)
LEMMA ChunkBodyRead ==
  ASSUME NEW pb, pb.kind \in ChunkKinds, NEW ext,
         NEW w, w = ChunkToWire(pb, ext), Errorless(w)
  PROVE  "kind" \notin DOMAIN w /\ \A f \in DOMAIN w : FieldSound(f, w[f])
BY PlainField, LeafField, ResultsRead, AliasesRead, UnionRead, ChunkRead
DEF ChunkKinds, ChunkToWire, Errorless, IdFields

(* and metadata.                                                           *)
LEMMA MetadataBodyRead ==
  ASSUME NEW pb, pb.kind \in MetadataKinds, NEW ext,
         NEW w, w = MetadataToWire(pb, ext), Errorless(w)
  PROVE  "kind" \notin DOMAIN w /\ \A f \in DOMAIN w : FieldSound(f, w[f])
BY PlainField, LeafField, MetadataRead DEF MetadataKinds, MetadataToWire, Errorless, IdFields

(* The bodies of all the groups.                                           *)
LEMMA FromBodyRead ==
  ASSUME NEW pb, pb.kind \in Kinds
  PROVE  /\ "kind" \notin DOMAIN FromBody(pb)
         /\ Errorless(FromBody(pb)) =>
              /\ \A f \in DOMAIN FromBody(pb) : FieldSound(f, FromBody(pb)[f])
              /\ pb.kind = "ConnectRequest" =>
                   \/ FromBody(pb).ExtensionFields = Nil
                   \/ FromBody(pb).ExtensionFields.Intdash = Nil
                   \/ Sound(FromBody(pb).ExtensionFields.Intdash)
<1>1. CASE pb.kind \in ConnectionKinds
  <2>1. FromBody(pb) = ConnectionToWire(pb, FromExt(pb))
    BY <1>1, Dispatched
  <2>2. "kind" \notin DOMAIN ConnectionToWire(pb, FromExt(pb))
    BY <1>1 DEF ConnectionKinds, ConnectionToWire
  <2> QED BY <1>1, <2>1, <2>2, ConnectionBodyRead
<1>2. CASE pb.kind \in UpstreamKinds
  <2>1. FromBody(pb) = UpstreamToWire(pb, FromExt(pb))
    BY <1>2, Dispatched
  <2>2. "kind" \notin DOMAIN UpstreamToWire(pb, FromExt(pb))
    BY <1>2 DEF UpstreamKinds, UpstreamToWire
  <2>3. pb.kind # "ConnectRequest"
    BY <1>2 DEF UpstreamKinds
  <2> QED BY <1>2, <2>1, <2>2, <2>3, UpstreamBodyRead
<1>3. CASE pb.kind \in DownstreamKinds
  <2>1. FromBody(pb) = DownstreamToWire(pb, FromExt(pb))
    BY <1>3, Dispatched
  <2>2. "kind" \notin DOMAIN DownstreamToWire(pb, FromExt(pb))
    BY <1>3 DEF DownstreamKinds, DownstreamToWire
  <2>3. pb.kind # "ConnectRequest"
    BY <1>3 DEF DownstreamKinds
  <2> QED BY <1>3, <2>1, <2>2, <2>3, DownstreamBodyRead
<1>4. CASE pb.kind \in CallKinds
  <2>1. FromBody(pb) = CallToWire(pb, FromExt(pb))
    BY <1>4, Dispatched
  <2>2. "kind" \notin DOMAIN CallToWire(pb, FromExt(pb))
    BY <1>4 DEF CallKinds, CallToWire
  <2>3. pb.kind # "ConnectRequest"
    BY <1>4 DEF CallKinds
  <2> QED BY <1>4, <2>1, <2>2, <2>3, CallBodyRead
<1>5. CASE pb.kind \in ChunkKinds
  <2>1. FromBody(pb) = ChunkToWire(pb, FromExt(pb))
    BY <1>5, Dispatched
  <2>2. "kind" \notin DOMAIN ChunkToWire(pb, FromExt(pb))
    BY <1>5 DEF ChunkKinds, ChunkToWire
  <2>3. pb.kind # "ConnectRequest"
    BY <1>5 DEF ChunkKinds
  <2> QED BY <1>5, <2>1, <2>2, <2>3, ChunkBodyRead
<1>6. CASE pb.kind \in MetadataKinds
  <2>1. FromBody(pb) = MetadataToWire(pb, FromExt(pb))
    BY <1>6, Dispatched
  <2>2. "kind" \notin DOMAIN MetadataToWire(pb, FromExt(pb))
    BY <1>6 DEF MetadataKinds, MetadataToWire
  <2>3. pb.kind # "ConnectRequest"
    BY <1>6 DEF MetadataKinds
  <2> QED BY <1>6, <2>1, <2>2, <2>3, MetadataBodyRead
<1> QED BY <1>1, <1>2, <1>3, <1>4, <1>5, <1>6 DEF Kinds

(* Whatever ProtoToWire accepts is well-formed.                            *)
LEMMA ReadIsWellFormed ==
  ASSUME NEW pb, ProtoToWire(pb) # Malformed
  PROVE  ProtoToWire(pb).kind \in Kinds /\ WellFormed(ProtoToWire(pb))
<1> DEFINE w == FromBody(pb)
           m == WithKind(pb.kind, w)
<1>1. pb.kind \in Kinds /\ ProtoToWire(pb) = Tagged(pb.kind, w)
  BY Converted
<1>2. "kind" \notin DOMAIN w
  BY <1>1, FromBodyRead
<1>3. Tagged(pb.kind, w) = m /\ Errorless(w)
  <2>1. Tagged(pb.kind, w) # Malformed
    BY <1>1
  <2> HIDE DEF w
  <2> QED BY <1>2, <2>1, TaggedAccepted
<1>4. /\ \A f \in DOMAIN w : FieldSound(f, w[f])
      /\ pb.kind = "ConnectRequest" => \/ w.ExtensionFields = Nil
                                       \/ w.ExtensionFields.Intdash = Nil
                                       \/ Sound(w.ExtensionFields.Intdash)
  BY <1>1, <1>3, FromBodyRead
<1>5. /\ DOMAIN m = {"kind"} \cup DOMAIN w /\ m.kind = pb.kind
      /\ \A f \in DOMAIN w : m[f] = w[f]
  BY <1>2 DEF WithKind
<1> HIDE DEF w, m
<1>6. \A f \in DOMAIN w : FieldSound(f, m[f])
  BY <1>4, <1>5
<1>7. Sound(m)
  BY <1>5, <1>6 DEF Sound, FieldSound, IdFields
<1>8. pb.kind = "ConnectRequest" => "ExtensionFields" \in DOMAIN w
  BY <1>1, Dispatched DEF w, ConnectionKinds, ConnectionToWire
<1>9. pb.kind = "ConnectRequest" => \/ m.ExtensionFields = Nil
                                    \/ m.ExtensionFields.Intdash = Nil
                                    \/ Sound(m.ExtensionFields.Intdash)
  BY <1>4, <1>5, <1>8
<1>10. WellFormed(m)
  BY <1>5, <1>6, <1>7, <1>9 DEF WellFormed, FieldSound
<1> QED BY <1>1, <1>3, <1>5, <1>10

-----------------------------------------------------------------------------
(* The theorems.                                                           *)

(* The message on its way is the one that was written, and the one that    *)
(* was read is what the peer is to find: what the theorem needs to know    *)
(* about the time before Read.                                             *)
UnderstoodInv ==
  /\ sent # Nil => IsMessage(sent) /\ WireToProto(sent) # Malformed
  /\ sent # Nil /\ wire # Nil => wire = WireToProto(sent)
  /\ sent # Nil /\ wire = Nil => received = AsRead(sent)

(* A message that Write has accepted is what the peer's Read returns: for  *)
(* every message of the protocol, whatever the lengths of its lists, the   *)
(* keys of its maps and the units of its durations.                        *)
THEOREM CodecUnderstood == Spec => []WrittenIsUnderstood
<1>1. Init => UnderstoodInv
  BY DEF Init, UnderstoodInv
<1>2. UnderstoodInv /\ [Next]_vars => UnderstoodInv'
  <2> SUFFICES ASSUME UnderstoodInv, [Next]_vars
               PROVE  UnderstoodInv'
    OBVIOUS
  <2>1. ASSUME NEW m \in Messages, Write(m)
        PROVE  UnderstoodInv'
    <3>1. CASE WireToProto(m) = Malformed
      BY <2>1, <3>1 DEF Write, UnderstoodInv
    <3>2. CASE WireToProto(m) # Malformed
      <4>1. IsMessage(m)
        BY MessagesAssumption
      <4>2. WireToProto(m) # Nil
        <5>1. WireToProto(m) = WithKind(m.kind, ToBody(m))
          BY <3>2, <4>1, Understood
        <5> QED BY <5>1 DEF WithKind, Nil
      <4>3. sent' = m /\ wire' = WireToProto(m)
        BY <2>1, <3>2 DEF Write
      <4> QED BY <3>2, <4>1, <4>2, <4>3 DEF UnderstoodInv
    <3> QED BY <3>1, <3>2
  <2>2. ASSUME NEW m \in Messages, ForeignWrite(m)
        PROVE  UnderstoodInv'
    BY <2>2 DEF ForeignWrite, Idle, UnderstoodInv
  <2>3. CASE Read
    <3>1. CASE sent = Nil
      BY <2>3, <3>1 DEF Read, UnderstoodInv
    <3>2. CASE sent # Nil
      <4>1. wire # Nil /\ wire' = Nil /\ sent' = sent
        BY <2>3 DEF Read
      <4>2. IsMessage(sent) /\ WireToProto(sent) # Malformed /\ wire = WireToProto(sent)
        BY <3>2, <4>1 DEF UnderstoodInv
      <4>3. ProtoToWire(wire) = AsRead(sent) /\ AsRead(sent) # Malformed
        BY <4>2, Understood
      <4>4. received' = AsRead(sent)
        BY <2>3, <4>3 DEF Read
      <4> QED BY <4>1, <4>2, <4>4 DEF UnderstoodInv
    <3> QED BY <3>1, <3>2
  <2>4. CASE Take
    BY <2>4 DEF Take, UnderstoodInv
  <2>5. CASE UNCHANGED vars
    BY <2>5 DEF vars, UnderstoodInv
  <2> QED BY <2>1, <2>2, <2>3, <2>4, <2>5 DEF Next
<1>3. UnderstoodInv => WrittenIsUnderstood
  BY DEF UnderstoodInv, WrittenIsUnderstood, AsRead
<1> QED BY <1>1, <1>2, <1>3, PTL DEF Spec

(* Whatever is on the transport, the message that Read returns has known   *)
(* enumerators and proper ids and is of a kind of the protocol: the step   *)
(* that reads makes it so whatever the peer has written.                   *)
THEOREM CodecNothingMalformed == Spec => []NothingMalformedIsDelivered
<1>1. Init => NothingMalformedIsDelivered
  BY DEF Init, NothingMalformedIsDelivered
<1>2. NothingMalformedIsDelivered /\ [Next]_vars => NothingMalformedIsDelivered'
  <2> SUFFICES ASSUME NothingMalformedIsDelivered, [Next]_vars
               PROVE  NothingMalformedIsDelivered'
    OBVIOUS
  <2>1. ASSUME NEW m \in Messages, Write(m)
        PROVE  NothingMalformedIsDelivered'
    BY <2>1 DEF Write, Idle, NothingMalformedIsDelivered
  <2>2. ASSUME NEW m \in Messages, ForeignWrite(m)
        PROVE  NothingMalformedIsDelivered'
    BY <2>2 DEF ForeignWrite, Idle, NothingMalformedIsDelivered
  <2>3. CASE Read
    <3>1. CASE ProtoToWire(wire) = Malformed
      BY <2>3, <3>1 DEF Read, NothingMalformedIsDelivered
    <3>2. CASE ProtoToWire(wire) # Malformed
      <4>1. received' = ProtoToWire(wire)
        BY <2>3, <3>2 DEF Read
      <4>2. ProtoToWire(wire).kind \in Kinds /\ WellFormed(ProtoToWire(wire))
        BY <3>2, ReadIsWellFormed
      <4> QED BY <4>1, <4>2 DEF NothingMalformedIsDelivered
    <3> QED BY <3>1, <3>2
  <2>4. CASE Take
    BY <2>4 DEF Take, NothingMalformedIsDelivered
  <2>5. CASE UNCHANGED vars
    BY <2>5 DEF vars, NothingMalformedIsDelivered
  <2> QED BY <2>1, <2>2, <2>3, <2>4, <2>5 DEF Next
<1> QED BY <1>1, <1>2, PTL DEF Spec

=============================================================================
