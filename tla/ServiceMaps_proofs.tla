-------------------------- MODULE ServiceMaps_proofs --------------------------
(* Theorems about the service maps, for every set of devices and types.    *)
EXTENDS ServiceMaps, TLAPS

-----------------------------------------------------------------------------
(* Stages and steps.                                                       *)

LEMMA KindAndStage ==
  /\ Kind = {"provided", "desired"}
  /\ NextStage("provided") = "desired" /\ NextStage("desired") = "put"
  /\ \A d \in Device : AfterMapping(d) \in Mapped
  /\ Mapped = {"health", "active"}
BY DEF Kind, NextStage, AfterMapping, Mapped

(* A URI is never one of the two marks that stand for none.                *)
LEMMA URIsAreURIs ==
  /\ EmptyURI \in URI /\ SelfURI \in URI
  /\ \A u \in URI : u # Absent /\ u # NoURI
  /\ Absent # NoURI
BY ServiceAssumption

(* What an element leaves behind is a URI.                                 *)
LEMMA UpdatedIsURI ==
  ASSUME NEW old \in URI \union {Absent}, NEW u \in URI \union {NoURI}
  PROVE  Updated(old, u) \in URI
BY URIsAreURIs DEF Updated

(* Whatever is looked up is a URI too.                                     *)
LEMMA MapToIsURI ==
  ASSUME TypeOK, NEW t \in Type
  PROVE  MapTo(t) \in URI
<1>1. \A d \in Device : ProviderURI(d, t) \in URI
  BY URIsAreURIs DEF ProviderURI, Known, TypeOK, EntryOK, Kind
<1>2. QED
  BY <1>1, URIsAreURIs, ServiceAssumption DEF MapTo

(* The history's tracking of the sink only ever forgets.                   *)
LEMMA TrackSinkForgets ==
  ASSUME TrackSink
  PROVE  /\ current' \subseteq current
         /\ MapTo(SinkType)' # MapTo(SinkType) => current' = current \ Looked
BY DEF TrackSink

-----------------------------------------------------------------------------
(* Every step keeps the types.                                             *)
LEMMA TypeStep == TypeOK /\ [Next]_vars => TypeOK'
<1> SUFFICES ASSUME TypeOK, [Next]_vars PROVE TypeOK'
  OBVIOUS
<1> HandlerOK /\ EntryOK /\ VisitedOK /\ IndexOK /\ RealOK /\ StageOK
  BY DEF TypeOK
<1> SUFFICES HandlerOK' /\ EntryOK' /\ VisitedOK' /\ IndexOK' /\ RealOK' /\ StageOK'
  BY DEF TypeOK
<1> USE KindAndStage, URIsAreURIs DEF Working
<1>1. ASSUME NEW d \in Device, Discover(d)
      PROVE  HandlerOK' /\ EntryOK' /\ VisitedOK' /\ IndexOK' /\ RealOK' /\ StageOK'
  <2>1. HandlerOK' /\ RealOK' /\ IndexOK'
    BY <1>1 DEF Discover, HandlerOK, RealOK, IndexOK
  <2>2. EntryOK'
    BY <1>1 DEF Discover, EntryOK
  <2>3. VisitedOK'
    BY <1>1, ServiceAssumption DEF Discover, VisitedOK
  <2>4. StageOK'
    BY <1>1, TrackSinkForgets DEF Discover, StageOK
  <2>5. QED
    BY <2>1, <2>2, <2>3, <2>4
<1>2. ASSUME NEW d \in Device, NEW t \in Type, DeviceChanges(d, t)
      PROVE  HandlerOK' /\ EntryOK' /\ VisitedOK' /\ IndexOK' /\ RealOK' /\ StageOK'
  BY <1>2 DEF DeviceChanges, HandlerOK, EntryOK, VisitedOK, IndexOK, RealOK, StageOK
<1>3. ASSUME NEW d \in Device, NoReply(d) \/ Restart(d)
      PROVE  HandlerOK' /\ EntryOK' /\ VisitedOK' /\ IndexOK' /\ RealOK' /\ StageOK'
  <2>1. StageOK'
    BY <1>3, RestartAssumption DEF NoReply, Restart, StageOK
  <2>2. QED
    BY <1>3, <2>1 DEF NoReply, Restart, HandlerOK, EntryOK, VisitedOK, IndexOK, RealOK
<1>4. ASSUME NEW d \in Device, BeginUpdate(d)
      PROVE  HandlerOK' /\ EntryOK' /\ VisitedOK' /\ IndexOK' /\ RealOK' /\ StageOK'
  <2>1. EntryOK' /\ IndexOK' /\ RealOK' /\ StageOK'
    BY <1>4 DEF BeginUpdate, EntryOK, IndexOK, RealOK, StageOK
  <2>2. reply' \in [Type -> URI \union {Absent, NoURI}]
    BY <1>4 DEF BeginUpdate, RealOK
  <2>3. HandlerOK'
    BY <1>4, <2>2 DEF BeginUpdate, Given, HandlerOK
  <2>4. VisitedOK'
    BY <1>4 DEF BeginUpdate, Marks, VisitedOK
  <2>5. QED
    BY <2>1, <2>3, <2>4
<1>5. ASSUME NEW t \in Type, ListService(t)
      PROVE  HandlerOK' /\ EntryOK' /\ VisitedOK' /\ IndexOK' /\ RealOK' /\ StageOK'
  <2> DEFINE old == entry[work.kind][work.dev][t]
             new == Updated(old, reply[t])
  <2>1. work.kind \in Kind /\ work.dev \in Device
    BY DEF HandlerOK
  <2>2. old \in URI \union {Absent} /\ (reply[t] # Absent => new \in URI)
    BY <2>1, UpdatedIsURI DEF EntryOK, HandlerOK
  <2>3. new \in URI \union {Absent}
    BY <2>2 DEF Updated
  <2> HIDE DEF new
  <2>4. EntryOK'
    BY <1>5, <2>1, <2>3 DEF ListService, EntryOK, new
  <2>5. HandlerOK'
    BY <1>5 DEF ListService, HandlerOK
  <2>6. VisitedOK' /\ IndexOK' /\ RealOK'
    BY <1>5, <2>1 DEF ListService, VisitedOK, IndexOK, RealOK
  <2>7. StageOK'
    BY <1>5, TrackSinkForgets DEF ListService, StageOK
  <2>8. QED
    BY <2>4, <2>5, <2>6, <2>7
<1>6. ASSUME CompleteUpdate
      PROVE  HandlerOK' /\ EntryOK' /\ VisitedOK' /\ IndexOK' /\ RealOK' /\ StageOK'
  <2>1. work.kind \in Kind /\ work.dev \in Device
    BY DEF HandlerOK
  <2>2. EntryOK'
    BY <1>6, <2>1 DEF CompleteUpdate, EntryOK
  <2>3. HandlerOK'
    <3>1. work' \in {[kind |-> work.kind, dev |-> work.dev, step |-> "rebuilding"], Idle}
      BY <1>6 DEF CompleteUpdate
    <3>2. work' \in [kind : Kind, dev : Device, step : {"idle", "rebuilding"}]
      BY <2>1, <3>1, ServiceAssumption DEF Idle
    <3>3. reply' = NoEntries /\ rest' = rest /\ changed' = FALSE
      BY <1>6, Zenon DEF CompleteUpdate
    <3>4. QED
      BY <3>2, <3>3 DEF HandlerOK, NoEntries
  <2>4. VisitedOK' /\ IndexOK' /\ RealOK'
    BY <1>6, <2>1 DEF CompleteUpdate, VisitedOK, IndexOK, RealOK
  <2>5. StageOK'
    BY <1>6, <2>1, TrackSinkForgets DEF CompleteUpdate, StageOK
  <2>6. QED
    BY <2>2, <2>3, <2>4, <2>5
<1>7. ASSUME RebuildIndex
      PROVE  HandlerOK' /\ EntryOK' /\ VisitedOK' /\ IndexOK' /\ RealOK' /\ StageOK'
  <2>1. work.kind \in Kind /\ Idle \in [kind : Kind, dev : Device, step : {"idle"}]
    BY ServiceAssumption DEF HandlerOK, Idle
  <2>2. \A k \in Kind : UNION {Known(k, d) \X {d} : d \in deviceMap} \subseteq Type \X Device
    BY DEF Known, StageOK
  <2>3. IndexOK'
    BY <1>7, <2>1, <2>2 DEF RebuildIndex, IndexOK
  <2>4. HandlerOK'
    BY <1>7, <2>1 DEF RebuildIndex, HandlerOK
  <2>5. QED
    BY <1>7, <2>3, <2>4 DEF RebuildIndex, EntryOK, VisitedOK, RealOK, StageOK
<1>8. ASSUME AbandonUpdate
      PROVE  HandlerOK' /\ EntryOK' /\ VisitedOK' /\ IndexOK' /\ RealOK' /\ StageOK'
  <2>1. work.kind \in Kind /\ work.dev \in Device
    BY DEF HandlerOK
  <2>2. HandlerOK'
    BY <1>8, ServiceAssumption DEF AbandonUpdate, HandlerOK, Idle, NoEntries
  <2>3. IndexOK'
    BY <1>8, <2>1 DEF AbandonUpdate, IndexOK
  <2>4. StageOK'
    BY <1>8 DEF AbandonUpdate, StageOK
  <2>5. QED
    BY <1>8, <2>2, <2>3, <2>4 DEF AbandonUpdate, EntryOK, VisitedOK, RealOK
<1>9. ASSUME NEW d \in Device, PutMappings(d)
      PROVE  HandlerOK' /\ EntryOK' /\ VisitedOK' /\ IndexOK' /\ RealOK' /\ StageOK'
  <2>1. \A t \in Type : MapTo(t) \in URI
    BY MapToIsURI
  <2>2. HandlerOK'
    BY <1>9, <2>1 DEF PutMappings, HandlerOK
  <2>3. VisitedOK'
    BY <1>9 DEF PutMappings, VisitedOK, Known
  <2>4. StageOK'
    BY <1>9 DEF PutMappings, StageOK
  <2>5. QED
    BY <1>9, <2>2, <2>3, <2>4 DEF PutMappings, EntryOK, IndexOK, RealOK
<1>10. ASSUME NEW ok \in BOOLEAN, AnswerPut(ok)
       PROVE  HandlerOK' /\ EntryOK' /\ VisitedOK' /\ IndexOK' /\ RealOK' /\ StageOK'
  <2>1. work.dev \in Device
    BY DEF HandlerOK
  <2>2. HandlerOK'
    BY <1>10, ServiceAssumption DEF AnswerPut, HandlerOK, Idle, NoEntries
  <2>3. StageOK'
    BY <1>10, <2>1 DEF AnswerPut, StageOK
  <2>4. RealOK'
    <3>1. \A t \in Type : reply[t] \in URI \union {Absent}
      BY <1>10 DEF AnswerPut, HandlerOK, Working
    <3>2. QED
      BY <1>10, <2>1, <3>1 DEF AnswerPut, RealOK
  <2>5. QED
    BY <1>10, <2>2, <2>3, <2>4 DEF AnswerPut, EntryOK, VisitedOK, IndexOK
<1>11. CASE UNCHANGED vars
  BY <1>11 DEF vars, HandlerOK, EntryOK, VisitedOK, IndexOK, RealOK, StageOK
<1>12. QED
  BY <1>1, <1>2, <1>3, <1>4, <1>5, <1>6, <1>7, <1>8, <1>9, <1>10, <1>11 DEF Next

(* Every variable keeps its type: an entry is never left without a URI.    *)
THEOREM TypeCorrect == Spec => []TypeOK
<1>1. NoEntries \in [Type -> URI \union {Absent}] /\ Idle.kind \in Kind
  BY KindAndStage DEF NoEntries, Idle
<1>2. ASSUME Init
      PROVE  HandlerOK /\ EntryOK /\ VisitedOK /\ IndexOK /\ RealOK /\ StageOK
  <2>1. HandlerOK
    BY <1>1, <1>2, KindAndStage, ServiceAssumption DEF Init, HandlerOK, Idle, Working
  <2>2. EntryOK /\ VisitedOK /\ IndexOK /\ RealOK
    BY <1>1, <1>2 DEF Init, EntryOK, VisitedOK, IndexOK, RealOK
  <2>3. StageOK
    BY <1>2, RestartAssumption DEF Init, StageOK
  <2>4. QED
    BY <2>1, <2>2, <2>3
<1>3. QED
  BY <1>2, TypeStep, PTL DEF Spec, TypeOK

-----------------------------------------------------------------------------
(* What the sweep and the rebuild rely on. A device the arbiter works on   *)
(* has a record, and a record that is not there has no services; the stage *)
(* is the update's own kind until it completes; what the update has marked *)
(* is what it has come to in the reply, and all of it is on the record;    *)
(* and as long as nothing changed the index is not out of date.            *)
RecordsFirst ==
  /\ \A d \in Device : stage[d] # "none" => d \in deviceMap
  /\ ~Working("idle") => work.dev \in deviceMap
  /\ \A k \in Kind, d \in Device : d \notin deviceMap => Known(k, d) = {}

Marked ==
  Working("updating") =>
    /\ stage[work.dev] = work.kind
    /\ rest \subseteq Given(reply)
    /\ visited[work.kind][work.dev] = Given(reply) \ rest
    /\ visited[work.kind][work.dev] \subseteq Known(work.kind, work.dev)

Unchanged ==
  Working("updating") /\ ~changed =>
    work.dev \in unindexed[work.kind] \/ Reported(work.kind, work.dev) = Known(work.kind, work.dev)

SweepInv == TypeOK /\ RecordsFirst /\ Marked /\ Unchanged /\ IndexAgrees

(* The services a completed update leaves are those it marked.             *)
LEMMA SweptAreMarked ==
  ASSUME SweepInv, CompleteUpdate
  PROVE  \A k \in Kind, d \in Device :
           Known(k, d)' = IF k = work.kind /\ d = work.dev THEN Given(reply) ELSE Known(k, d)
<1>1. work.kind \in Kind /\ work.dev \in Device
  BY DEF SweepInv, TypeOK, HandlerOK
<1>2. visited[work.kind][work.dev] = Given(reply) /\ Given(reply) \subseteq Known(work.kind, work.dev)
  BY DEF SweepInv, Marked, CompleteUpdate
<1>3. entry \in [Kind -> [Device -> [Type -> URI \union {Absent}]]]
  BY DEF SweepInv, TypeOK, EntryOK
<1>4. entry' = [entry EXCEPT ![work.kind][work.dev] =
                  [t \in Type |-> IF t \in Unvisited(work.kind, work.dev) THEN Absent ELSE @[t]]]
  BY DEF CompleteUpdate
<1>5. \A t \in Type : entry'[work.kind][work.dev][t] =
                        IF t \in Unvisited(work.kind, work.dev) THEN Absent ELSE entry[work.kind][work.dev][t]
  BY <1>1, <1>3, <1>4
<1>6. {t \in Type : entry'[work.kind][work.dev][t] # Absent} = Given(reply)
  BY <1>2, <1>5 DEF Known, Unvisited
<1>7. \A k \in Kind, d \in Device : ~(k = work.kind /\ d = work.dev) => entry'[k][d] = entry[k][d]
  BY <1>1, <1>3, <1>4
<1>8. QED
  BY <1>6, <1>7 DEF Known

(* An element of the reply is on the record once it has been listed.       *)
LEMMA ListedIsKnown ==
  ASSUME SweepInv, NEW t \in Type, ListService(t)
  PROVE  /\ Known(work.kind, work.dev)' = Known(work.kind, work.dev) \union {t}
         /\ \A k \in Kind, d \in Device : <<k, d>> # <<work.kind, work.dev>> => Known(k, d)' = Known(k, d)
         /\ ~changed' => ~changed /\ t \in Known(work.kind, work.dev)
<1> DEFINE old == entry[work.kind][work.dev][t]
           new == Updated(old, reply[t])
<1>1. work.kind \in Kind /\ work.dev \in Device
  BY DEF SweepInv, TypeOK, HandlerOK
<1>2. reply[t] # Absent /\ reply[t] \in URI \union {Absent, NoURI}
  BY DEF SweepInv, TypeOK, HandlerOK, Marked, Given, ListService
<1>3. entry \in [Kind -> [Device -> [Type -> URI \union {Absent}]]]
  BY DEF SweepInv, TypeOK, EntryOK
<1>4. new \in URI /\ new # Absent
  <2>1. old \in URI \union {Absent} /\ reply[t] \in URI \union {NoURI}
    BY <1>1, <1>2, <1>3
  <2>2. new \in URI
    BY <2>1, UpdatedIsURI
  <2>3. QED
    BY <2>2, URIsAreURIs
<1>5. entry' = [entry EXCEPT ![work.kind][work.dev][t] = new] /\ (changed' <=> changed \/ new # old)
  BY DEF ListService
<1> HIDE DEF new
<1>6. \A k \in Kind, d \in Device : <<k, d>> # <<work.kind, work.dev>> => entry'[k][d] = entry[k][d]
  BY <1>1, <1>3, <1>5
<1>7. \A u \in Type : entry'[work.kind][work.dev][u] = IF u = t THEN new ELSE entry[work.kind][work.dev][u]
  BY <1>1, <1>3, <1>5
<1>8. ~changed' => ~changed /\ t \in Known(work.kind, work.dev)
  BY <1>4, <1>5 DEF Known
<1>9. Known(work.kind, work.dev)' = Known(work.kind, work.dev) \union {t}
  <2>1. work' = work
    BY DEF ListService
  <2>2. QED
    BY <1>4, <1>7, <2>1 DEF Known
<1>10. QED
  BY <1>6, <1>8, <1>9 DEF Known

LEMMA SweepStep == SweepInv /\ [Next]_vars => SweepInv'
<1> SUFFICES ASSUME SweepInv, [Next]_vars PROVE SweepInv'
  OBVIOUS
<1>0. TypeOK'
  BY TypeStep DEF SweepInv
<1>k. /\ HandlerOK /\ EntryOK /\ VisitedOK /\ IndexOK /\ StageOK
      /\ RecordsFirst /\ Marked /\ Unchanged /\ IndexAgrees
      /\ work.kind \in Kind /\ work.dev \in Device
  BY DEF SweepInv, TypeOK, HandlerOK
<1> SUFFICES RecordsFirst' /\ Marked' /\ Unchanged' /\ IndexAgrees'
  BY <1>0 DEF SweepInv
<1> USE <1>k, KindAndStage
<1>1. ASSUME NEW d \in Device, Discover(d)
      PROVE  RecordsFirst' /\ Marked' /\ Unchanged' /\ IndexAgrees'
  <2>1. \A k \in Kind, e \in Device : <<k, e>> # <<"provided", Self>> \/ d # Self => entry'[k][e] = entry[k][e] /\ visited'[k][e] = visited[k][e]
    BY <1>1, ServiceAssumption DEF Discover, EntryOK, VisitedOK
  <2>2. \A k \in Kind, e \in Device : e # d => Known(k, e)' = Known(k, e) /\ visited'[k][e] = visited[k][e]
    BY <2>1 DEF Known
  <2>3. \A k \in Kind : k # "provided" => Known(k, d)' = Known(k, d)
    BY <2>1 DEF Known
  <2>4. d # Self => Known("provided", d)' = Known("provided", d)
    BY <2>1 DEF Known
  <2>5. \A e \in Device : e # d => stage'[e] = stage[e]
    BY <1>1 DEF Discover, StageOK
  <2>6. d \notin deviceMap /\ deviceMap' = deviceMap \union {d} /\ UNCHANGED <<index, work, reply, rest, changed>>
    BY <1>1 DEF Discover
  <2>7. \A k \in Kind : /\ unindexed[k] \subseteq unindexed'[k]
                        /\ d = Self /\ k = "provided" => d \in unindexed'[k]
    BY <1>1 DEF Discover, IndexOK
  <2>8. ~Working("idle") => work.dev # d
    BY <2>6 DEF RecordsFirst
  <2>9. RecordsFirst'
    BY <2>2, <2>5, <2>6 DEF RecordsFirst, Working
  <2>10. Marked'
    BY <2>2, <2>5, <2>6, <2>8 DEF Marked, Working, Given
  <2>11. Unchanged'
    BY <2>2, <2>6, <2>7, <2>8 DEF Unchanged, Working, Reported
  <2>12. IndexAgrees'
    <3>1. \A k \in Kind : index'[k] \subseteq Type \X deviceMap'
      BY <2>6 DEF IndexAgrees
    <3>2. \A k \in Kind : Reported(k, d)' = {} /\ (d \in unindexed'[k] \/ Known(k, d)' = {})
      BY <2>3, <2>4, <2>6, <2>7 DEF IndexAgrees, Reported, RecordsFirst, Kind
    <3>3. \A k \in Kind, e \in Device : e # d => Reported(k, e)' = Reported(k, e)
      BY <2>6 DEF Reported
    <3>4. ASSUME NEW k \in Kind, ~(Working("rebuilding") /\ work.kind = k)
          PROVE  \A e \in deviceMap' \ unindexed'[k] :
                   (Working("updating") /\ work.kind = k /\ work.dev = e) \/ Reported(k, e)' = Known(k, e)'
      <4>1. ASSUME NEW e \in deviceMap \ unindexed[k]
            PROVE  (Working("updating") /\ work.kind = k /\ work.dev = e) \/ Reported(k, e)' = Known(k, e)'
        BY <2>2, <2>6, <3>3, <3>4, <4>1 DEF IndexAgrees, StageOK
      <4>2. QED
        BY <2>6, <2>7, <3>2, <4>1
    <3>5. QED
      BY <2>6, <3>1, <3>4 DEF IndexAgrees, Working
  <2>13. QED
    BY <2>9, <2>10, <2>11, <2>12
<1>2. ASSUME NEW d \in Device, (\E t \in Type : DeviceChanges(d, t)) \/ NoReply(d) \/ Restart(d) \/ PutMappings(d)
      PROVE  RecordsFirst' /\ Marked' /\ Unchanged' /\ IndexAgrees'
  <2>1. UNCHANGED <<deviceMap, entry, index, rest, changed, unindexed>>
    BY <1>2 DEF DeviceChanges, NoReply, Restart, PutMappings
  <2>2. \A k \in Kind, e \in Device : Known(k, e)' = Known(k, e) /\ Reported(k, e)' = Reported(k, e)
    BY <2>1 DEF Known, Reported
  <2>3. \/ UNCHANGED <<work, stage, visited, reply>>
        \/ work.step = "idle" /\ work'.step \in {"idle", "putting"}
    BY <1>2 DEF DeviceChanges, NoReply, Restart, PutMappings, Working
  <2>4. \A e \in Device : stage'[e] # "none" => e \in deviceMap
    BY <1>2 DEF DeviceChanges, NoReply, Restart, PutMappings, StageOK, RecordsFirst
  <2>5. work'.step # "idle" => work'.dev \in deviceMap
    BY <1>2 DEF DeviceChanges, NoReply, Restart, PutMappings, RecordsFirst, Working
  <2>6. RecordsFirst'
    BY <2>1, <2>2, <2>4, <2>5 DEF RecordsFirst, Working
  <2>7. Marked' /\ Unchanged'
    BY <2>1, <2>2, <2>3 DEF Marked, Unchanged, Working, Given
  <2>8. IndexAgrees'
    BY <2>1, <2>2, <2>3 DEF IndexAgrees, Working, StageOK
  <2>9. QED
    BY <2>6, <2>7, <2>8
<1>3. ASSUME NEW d \in Device, BeginUpdate(d)
      PROVE  RecordsFirst' /\ Marked' /\ Unchanged' /\ IndexAgrees'
  <2>1. /\ work' = [kind |-> stage[d], dev |-> d, step |-> "updating"]
        /\ UNCHANGED <<deviceMap, entry, index, stage, unindexed>>
        /\ work.step = "idle" /\ stage[d] \in Kind
        /\ rest' = Given(reply') /\ changed' = FALSE
        /\ visited' = [visited EXCEPT ![stage[d]][d] = Marks(stage[d], d)]
    BY <1>3 DEF BeginUpdate, Working
  <2>2. \A k \in Kind, e \in Device : Known(k, e)' = Known(k, e) /\ Reported(k, e)' = Reported(k, e)
    BY <2>1 DEF Known, Reported
  <2>3. visited'[stage[d]][d] = {}
    BY <2>1 DEF VisitedOK, Marks
  <2>4. RecordsFirst'
    BY <2>1, <2>2 DEF RecordsFirst, Working
  <2>5. Marked'
    BY <2>1, <2>3 DEF Marked, Working, Given
  <2>6. Unchanged'
    BY <2>1, <2>2 DEF Unchanged, IndexAgrees, RecordsFirst, Working
  <2>7. IndexAgrees'
    BY <2>1, <2>2 DEF IndexAgrees, Working, StageOK
  <2>8. QED
    BY <2>4, <2>5, <2>6, <2>7
<1>4. ASSUME NEW t \in Type, ListService(t)
      PROVE  RecordsFirst' /\ Marked' /\ Unchanged' /\ IndexAgrees'
  <2>1. /\ UNCHANGED <<deviceMap, index, stage, work, reply, unindexed>>
        /\ work.step = "updating" /\ t \in rest /\ rest' = rest \ {t}
        /\ visited' = [visited EXCEPT ![work.kind][work.dev] = @ \union {t}]
    BY <1>4 DEF ListService, Working
  <2>2. /\ Known(work.kind, work.dev)' = Known(work.kind, work.dev) \union {t}
        /\ \A k \in Kind, e \in Device : <<k, e>> # <<work.kind, work.dev>> => Known(k, e)' = Known(k, e)
        /\ ~changed' => ~changed /\ t \in Known(work.kind, work.dev)
    BY <1>4, ListedIsKnown
  <2>3. visited'[work.kind][work.dev] = visited[work.kind][work.dev] \union {t}
    BY <2>1 DEF VisitedOK
  <2>4. \A k \in Kind, e \in Device : Reported(k, e)' = Reported(k, e)
    BY <2>1 DEF Reported
  <2>5. work.dev \in deviceMap
    BY <2>1 DEF RecordsFirst, Working
  <2>6. RecordsFirst'
    BY <2>1, <2>2, <2>5 DEF RecordsFirst, Working
  <2>7. Marked'
    BY <2>1, <2>2, <2>3 DEF Marked, Working, Given
  <2>8. Unchanged'
    <3>1. SUFFICES ASSUME ~changed', work.dev \notin unindexed[work.kind]
                   PROVE  Reported(work.kind, work.dev)' = Known(work.kind, work.dev)'
      BY <2>1 DEF Unchanged
    <3>2. Reported(work.kind, work.dev) = Known(work.kind, work.dev)
      BY <2>1, <2>2, <3>1 DEF Unchanged, Working
    <3>3. Known(work.kind, work.dev)' = Known(work.kind, work.dev)
      BY <2>2, <3>1
    <3>4. QED
      BY <2>1, <2>4, <3>2, <3>3
  <2>9. IndexAgrees'
    BY <2>1, <2>2, <2>4 DEF IndexAgrees, Working, StageOK
  <2>10. QED
    BY <2>6, <2>7, <2>8, <2>9
<1>5. ASSUME CompleteUpdate
      PROVE  RecordsFirst' /\ Marked' /\ Unchanged' /\ IndexAgrees'
  <2>1. \A k \in Kind, d \in Device :
          Known(k, d)' = IF k = work.kind /\ d = work.dev THEN Given(reply) ELSE Known(k, d)
    BY <1>5, SweptAreMarked
  <2>2. /\ UNCHANGED <<deviceMap, unindexed>>
        /\ work.step = "updating" /\ work.dev \in deviceMap
        /\ stage' = [stage EXCEPT ![work.dev] = NextStage(work.kind)]
    BY <1>5 DEF CompleteUpdate, Working, RecordsFirst
  <2>3. RecordsFirst'
    <3>1. \A d \in Device : stage'[d] # "none" => d \in deviceMap
      BY <2>2 DEF StageOK, RecordsFirst
    <3>2. work'.step # "idle" => work'.dev \in deviceMap
      BY <1>5, <2>2 DEF CompleteUpdate, Idle
    <3>3. QED
      BY <2>1, <2>2, <3>1, <3>2 DEF RecordsFirst, Working
  <2>4. Marked' /\ Unchanged'
    BY <1>5 DEF CompleteUpdate, Marked, Unchanged, Working, Idle
  <2>5. CASE changed \/ Sweeps(work.kind, work.dev)
    <3>1. /\ work' = [kind |-> work.kind, dev |-> work.dev, step |-> "rebuilding"]
          /\ index' = [index EXCEPT ![work.kind] = {}]
      BY <1>5, <2>5 DEF CompleteUpdate
    <3>2. index'[work.kind] = {} /\ \A k \in Kind : k # work.kind => index'[k] = index[k]
      BY <3>1 DEF IndexOK
    <3>3. IndexAgrees'
      BY <2>1, <2>2, <3>1, <3>2 DEF IndexAgrees, Working, Reported, StageOK
    <3>4. QED
      BY <2>3, <2>4, <3>3
  <2>6. CASE ~changed /\ ~Sweeps(work.kind, work.dev)
    <3>1. work' = Idle /\ index' = index
      BY <1>5, <2>6 DEF CompleteUpdate
    <3>2. visited[work.kind][work.dev] = Given(reply) /\ Given(reply) \subseteq Known(work.kind, work.dev)
      BY <1>5 DEF Marked, CompleteUpdate
    <3>3. Known(work.kind, work.dev) = Given(reply)
      BY <2>6, <3>2 DEF Sweeps, Unvisited
    <3>4. work.dev \in unindexed[work.kind] \/ Reported(work.kind, work.dev) = Known(work.kind, work.dev)
      BY <2>2, <2>6 DEF Unchanged, Working
    <3>5. \A k \in Kind, d \in Device : Known(k, d)' = Known(k, d) /\ Reported(k, d)' = Reported(k, d)
      BY <2>1, <3>1, <3>3 DEF Reported
    <3>6. IndexAgrees'
      BY <2>2, <3>1, <3>4, <3>5 DEF IndexAgrees, Working, Idle, StageOK
    <3>7. QED
      BY <2>3, <2>4, <3>6
  <2>7. QED
    BY <2>5, <2>6
<1>6. ASSUME RebuildIndex
      PROVE  RecordsFirst' /\ Marked' /\ Unchanged' /\ IndexAgrees'
  <2>1. /\ UNCHANGED <<deviceMap, entry, stage>> /\ work' = Idle
        /\ index' = [index EXCEPT ![work.kind] = UNION {Known(work.kind, d) \X {d} : d \in deviceMap}]
        /\ unindexed' = [unindexed EXCEPT ![work.kind] = {}]
        /\ work.step = "rebuilding"
    BY <1>6 DEF RebuildIndex, Working
  <2>2. \A k \in Kind, d \in Device : Known(k, d)' = Known(k, d)
    BY <2>1 DEF Known
  <2>3. index'[work.kind] = UNION {Known(work.kind, d) \X {d} : d \in deviceMap}
    BY <2>1 DEF IndexOK
  <2>4. index'[work.kind] \subseteq Type \X deviceMap
    BY <2>3 DEF Known
  <2>5. \A d \in deviceMap : {t \in Type : <<t, d>> \in index'[work.kind]} = Known(work.kind, d)
    BY <2>3 DEF Known
  <2>6. \A k \in Kind : k # work.kind => index'[k] = index[k] /\ unindexed'[k] = unindexed[k]
    BY <2>1 DEF IndexOK
  <2>7. RecordsFirst' /\ Marked' /\ Unchanged'
    BY <2>1, <2>2 DEF RecordsFirst, Marked, Unchanged, Working, Idle
  <2>8. IndexAgrees'
    <3>1. ASSUME NEW k \in Kind, k = work.kind
          PROVE  index'[k] \subseteq Type \X deviceMap' /\ \A d \in deviceMap' : Reported(k, d)' = Known(k, d)'
      BY <2>1, <2>2, <2>4, <2>5, <3>1 DEF Reported, StageOK
    <3>2. ASSUME NEW k \in Kind, k # work.kind
          PROVE  /\ index'[k] \subseteq Type \X deviceMap'
                 /\ \A d \in deviceMap' \ unindexed'[k] : Reported(k, d)' = Known(k, d)'
      BY <2>1, <2>2, <2>6, <3>2 DEF IndexAgrees, Reported, StageOK, Working
    <3>3. QED
      BY <3>1, <3>2 DEF IndexAgrees
  <2>9. QED
    BY <2>7, <2>8
<1>7. ASSUME AbandonUpdate
      PROVE  RecordsFirst' /\ Marked' /\ Unchanged' /\ IndexAgrees'
  <2>1. /\ UNCHANGED <<deviceMap, entry, index>> /\ work' = Idle
        /\ unindexed' = IF changed THEN [unindexed EXCEPT ![work.kind] = @ \union {work.dev}] ELSE unindexed
        /\ stage' = [stage EXCEPT ![work.dev] = "none"]
        /\ work.step = "updating"
    BY <1>7 DEF AbandonUpdate, Working
  <2>2. \A k \in Kind, d \in Device : Known(k, d)' = Known(k, d) /\ Reported(k, d)' = Reported(k, d)
    BY <2>1 DEF Known, Reported
  <2>3. \A k \in Kind : unindexed[k] \subseteq unindexed'[k]
    BY <2>1 DEF IndexOK
  <2>4. work.dev \in unindexed'[work.kind] \/ Reported(work.kind, work.dev) = Known(work.kind, work.dev)
    BY <2>1, <2>3 DEF IndexOK, Unchanged, Working
  <2>5. RecordsFirst' /\ Marked' /\ Unchanged'
    BY <2>1, <2>2 DEF RecordsFirst, Marked, Unchanged, Working, Idle, StageOK
  <2>6. IndexAgrees'
    BY <2>1, <2>2, <2>3, <2>4 DEF IndexAgrees, Working, Idle, StageOK
  <2>7. QED
    BY <2>5, <2>6
<1>8. ASSUME NEW ok \in BOOLEAN, AnswerPut(ok)
      PROVE  RecordsFirst' /\ Marked' /\ Unchanged' /\ IndexAgrees'
  <2>1. /\ UNCHANGED <<deviceMap, entry, index, unindexed>> /\ work' = Idle
        /\ work.step = "putting" /\ work.dev \in deviceMap
        /\ \A e \in Device : e # work.dev => stage'[e] = stage[e]
    BY <1>8 DEF AnswerPut, Working, StageOK, RecordsFirst
  <2>2. \A k \in Kind, d \in Device : Known(k, d)' = Known(k, d) /\ Reported(k, d)' = Reported(k, d)
    BY <2>1 DEF Known, Reported
  <2>3. RecordsFirst' /\ Marked' /\ Unchanged'
    BY <2>1, <2>2 DEF RecordsFirst, Marked, Unchanged, Working, Idle
  <2>4. IndexAgrees'
    BY <2>1, <2>2 DEF IndexAgrees, Working, Idle, StageOK
  <2>5. QED
    BY <2>3, <2>4
<1>9. CASE UNCHANGED vars
  BY <1>9 DEF vars, RecordsFirst, Marked, Unchanged, IndexAgrees, Working, Known, Given, Reported
<1>10. QED
  BY <1>1, <1>2, <1>3, <1>4, <1>5, <1>6, <1>7, <1>8, <1>9 DEF Next

LEMMA SweepInvariant == Spec => []SweepInv
<1>1. ASSUME Init, TypeOK PROVE SweepInv
  <2>1. \A k \in Kind, d \in Device : Known(k, d) = {} /\ Reported(k, d) = {}
    BY <1>1 DEF Init, Known, Reported, NoEntries
  <2>2. RecordsFirst /\ Marked /\ Unchanged
    BY <1>1, <2>1 DEF Init, Idle, RecordsFirst, Marked, Unchanged, Working
  <2>3. IndexAgrees
    BY <1>1 DEF Init, IndexAgrees
  <2>4. QED
    BY <1>1, <2>2, <2>3 DEF SweepInv
<1>2. QED
  BY <1>1, TypeCorrect, SweepStep, PTL DEF Spec

(* Whatever the monitor is at, an index lists for each record what is on   *)
(* it, but for the kind being rebuilt, the device being updated and a map  *)
(* changed without a rebuild (the reports read while the monitor writes).  *)
THEOREM IndexAlwaysAgrees == Spec => []IndexAgrees
BY SweepInvariant, PTL DEF SweepInv

(* A completed update leaves exactly the services of the reply, though the *)
(* marks of an abandoned one, or of a lookup, were left on the record.     *)
THEOREM SweepsExactly == Spec => SweepExact
<1>1. ASSUME SweepInv, [Next]_vars, NEW k \in Kind, NEW d \in Device, stage[d] = k, stage'[d] = NextStage(k)
      PROVE  Known(k, d)' = Given(reply)
  <2>1. work.dev \in Device /\ stage \in [Device -> Kind \union Mapped \union {"none", "put"}]
    BY <1>1 DEF SweepInv, TypeOK, HandlerOK, StageOK
  <2>2. stage'[d] \in {"desired", "put"} /\ stage'[d] # stage[d]
    BY <1>1, KindAndStage
  <2>3. CompleteUpdate /\ d = work.dev
    <3>1. ASSUME NEW e \in Device, Discover(e) PROVE FALSE
      BY <2>1, <2>2, <3>1 DEF Discover
    <3>2. ASSUME NEW e \in Device, NoReply(e) \/ BeginUpdate(e) \/ Restart(e) PROVE FALSE
      BY <2>1, <2>2, <3>2 DEF NoReply, BeginUpdate, Restart
    <3>3. ~ \E e \in Device, t \in Type : DeviceChanges(e, t)
      BY <2>2 DEF DeviceChanges
    <3>4. ~(\E t \in Type : ListService(t)) /\ ~RebuildIndex /\ ~UNCHANGED vars
      BY <2>2 DEF ListService, RebuildIndex, vars
    <3>5. ASSUME AbandonUpdate PROVE FALSE
      BY <2>1, <2>2, <3>5 DEF AbandonUpdate
    <3>6. ASSUME NEW e \in Device, PutMappings(e) PROVE FALSE
      BY <1>1, <2>1, <2>2, <3>6, KindAndStage DEF PutMappings
    <3>7. ASSUME NEW ok \in BOOLEAN, AnswerPut(ok) PROVE FALSE
      BY <2>1, <2>2, <3>7, KindAndStage DEF AnswerPut
    <3>8. ASSUME CompleteUpdate PROVE d = work.dev
      BY <2>1, <2>2, <3>8 DEF CompleteUpdate
    <3>9. QED
      BY <1>1, <3>1, <3>2, <3>3, <3>4, <3>5, <3>6, <3>7, <3>8 DEF Next
  <2>4. work.kind = k
    BY <1>1, <2>3 DEF SweepInv, Marked, CompleteUpdate
  <2>5. QED
    BY <1>1, <2>3, <2>4, SweptAreMarked
<1>2. SweepInv /\ [Next]_vars =>
        [\A k \in Kind, d \in Device : stage[d] = k /\ stage'[d] = NextStage(k) => Known(k, d)' = Given(reply)]_vars
  BY <1>1
<1>3. QED
  BY <1>2, SweepInvariant, PTL DEF Spec, SweepExact

(* When its mappings are settled a device goes to the health poll just if  *)
(* a health source is on its record, but for the exceptions of the index.  *)
THEOREM PolledRightly == Spec => HealthPolledRight
<1>1. ASSUME SweepInv, [Next]_vars, NEW d \in Device \ unindexed["provided"],
             stage[d] \notin Mapped, stage'[d] \in Mapped
      PROVE  stage'[d] = "health" <=> SourceType \in Known("provided", d)
  <2>1. work.dev \in Device /\ stage \in [Device -> Kind \union Mapped \union {"none", "put"}]
    BY <1>1 DEF SweepInv, TypeOK, HandlerOK, StageOK
  <2>2. stage'[d] # stage[d] /\ stage'[d] \notin {"provided", "desired", "put", "none"}
    BY <1>1, KindAndStage
  <2>3. stage'[d] = AfterMapping(d) /\ (Working("idle") \/ Working("putting")) /\ d \in deviceMap
    <3>1. ASSUME NEW e \in Device, Discover(e) PROVE FALSE
      BY <2>1, <2>2, <3>1 DEF Discover
    <3>2. ASSUME NEW e \in Device, NoReply(e) \/ BeginUpdate(e) \/ Restart(e) PROVE FALSE
      BY <2>1, <2>2, <3>2 DEF NoReply, BeginUpdate, Restart
    <3>3. ~ \E e \in Device, t \in Type : DeviceChanges(e, t)
      BY <2>2 DEF DeviceChanges
    <3>4. ~(\E t \in Type : ListService(t)) /\ ~RebuildIndex /\ ~UNCHANGED vars
      BY <2>2 DEF ListService, RebuildIndex, vars
    <3>5. ASSUME AbandonUpdate PROVE FALSE
      BY <2>1, <2>2, <3>5 DEF AbandonUpdate
    <3>6. ASSUME CompleteUpdate PROVE FALSE
      <4>1. work.kind \in {"provided", "desired"}
        BY <1>1, KindAndStage DEF SweepInv, TypeOK, HandlerOK
      <4>2. QED
        BY <2>1, <2>2, <3>6, <4>1, KindAndStage DEF CompleteUpdate
    <3>7. ASSUME NEW e \in Device, PutMappings(e)
          PROVE  stage'[d] = AfterMapping(d) /\ Working("idle") /\ d \in deviceMap
      BY <1>1, <2>1, <2>2, <3>7 DEF PutMappings, SweepInv, RecordsFirst
    <3>8. ASSUME NEW ok \in BOOLEAN, AnswerPut(ok)
          PROVE  stage'[d] = AfterMapping(d) /\ Working("putting") /\ d \in deviceMap
      BY <1>1, <2>1, <2>2, <3>8 DEF AnswerPut, SweepInv, RecordsFirst, Working
    <3>9. QED
      BY <1>1, <3>1, <3>2, <3>3, <3>4, <3>5, <3>6, <3>7, <3>8 DEF Next
  <2>4. Reported("provided", d) = Known("provided", d)
    BY <1>1, <2>3, KindAndStage DEF SweepInv, IndexAgrees, Working
  <2>5. QED
    BY <2>3, <2>4, ServiceAssumption DEF AfterMapping, ProvidesService, Reported
<1>2. SweepInv /\ [Next]_vars =>
        [\A d \in Device \ unindexed["provided"] :
           stage[d] \notin Mapped /\ stage'[d] \in Mapped =>
             (stage'[d] = "health" <=> SourceType \in Known("provided", d))]_vars
  BY <1>1
<1>3. QED
  BY <1>2, SweepInvariant, PTL DEF Spec, HealthPolledRight

-----------------------------------------------------------------------------
(* The mappings. For a device whose desires are those last read: its reply *)
(* is what it has, the entries listed so far are those of the reply, the   *)
(* whole record is once the update has completed, and a PUT names every    *)
(* service that is not mapped where it should be, and where that is.       *)
ReadRight(d) ==
  Working("updating") /\ work.kind = "desired" /\ work.dev = d =>
    /\ reply = real[d]
    /\ \A t \in visited["desired"][d] : entry["desired"][d][t] = real[d][t]

RecordRight(d) == stage[d] = "put" => entry["desired"][d] = real[d]

PutRight(d) ==
  Working("putting") /\ work.dev = d =>
    \A t \in Type : real[d][t] # Absent => MapTo(t) = IF reply[t] = Absent THEN real[d][t] ELSE reply[t]

SettledRight(d) == stage[d] \in Mapped => \A t \in Type : real[d][t] # Absent => real[d][t] = MapTo(t)

DeviceRight(d) == ReadRight(d) /\ RecordRight(d) /\ PutRight(d) /\ SettledRight(d)

MapInv == \A d \in current : DeviceRight(d)

(* What is looked up changes only with the sink, and with the sink every   *)
(* device that was looked up leaves the history.                           *)
LEMMA LookupsHold ==
  ASSUME TrackSink \/ UNCHANGED <<deviceMap, entry>>, NEW d \in current', NEW t \in Type,
         \/ UNCHANGED <<deviceMap, entry>>
         \/ d \in Device /\ (stage[d] \in Mapped \/ (work.step = "putting" /\ work.dev = d))
  PROVE  MapTo(t)' = MapTo(t)
<1>1. CASE UNCHANGED <<deviceMap, entry>>
  BY <1>1 DEF MapTo, ProviderURI, Known
<1>2. CASE TrackSink /\ d \in Looked
  <2>1. MapTo(SinkType)' = MapTo(SinkType)
    BY <1>2 DEF TrackSink
  <2>2. t # SinkType => MapTo(t)' = EmptyURI /\ MapTo(t) = EmptyURI
    BY DEF MapTo
  <2>3. QED
    BY <2>1, <2>2
<1>3. QED
  BY <1>1, <1>2 DEF Looked

LEMMA MapStep == SweepInv /\ MapInv /\ [Next]_vars => MapInv'
<1> SUFFICES ASSUME SweepInv, MapInv, [Next]_vars, NEW d \in current' PROVE DeviceRight(d)'
  BY DEF MapInv
<1>k. /\ HandlerOK /\ EntryOK /\ VisitedOK /\ IndexOK /\ RealOK /\ StageOK
      /\ RecordsFirst /\ Marked
      /\ work.kind \in Kind /\ work.dev \in Device
  BY DEF SweepInv, TypeOK, HandlerOK
<1>0. TypeOK /\ TypeOK' /\ d \in Device
  BY TypeStep DEF SweepInv, TypeOK, StageOK
<1> USE <1>k, <1>0, KindAndStage
<1>r. d \in current => ReadRight(d) /\ RecordRight(d) /\ PutRight(d) /\ SettledRight(d)
  BY DEF MapInv, DeviceRight
<1>1. ASSUME NEW e \in Device, Discover(e)
      PROVE  DeviceRight(d)'
  <2>1. d \in current /\ TrackSink /\ UNCHANGED <<work, reply, real>>
    BY <1>1, TrackSinkForgets DEF Discover
  <2>2. /\ entry'["desired"] = entry["desired"] /\ visited'["desired"] = visited["desired"]
        /\ stage'[d] = stage[d] \/ stage'[d] = "provided"
    BY <1>1 DEF Discover, EntryOK, VisitedOK, StageOK
  <2>3. ReadRight(d)' /\ RecordRight(d)'
    BY <1>r, <2>1, <2>2 DEF ReadRight, RecordRight, Working
  <2>4. PutRight(d)'
    BY <1>r, <2>1, LookupsHold DEF PutRight, Working
  <2>5. SettledRight(d)'
    BY <1>r, <2>1, <2>2, LookupsHold DEF SettledRight
  <2>6. QED
    BY <2>3, <2>4, <2>5 DEF DeviceRight
<1>2. ASSUME NEW e \in Device, NEW t \in Type, DeviceChanges(e, t)
      PROVE  DeviceRight(d)'
  <2>1. /\ d \in current /\ UNCHANGED <<deviceMap, entry, visited, stage, work, reply>>
        /\ real'[d] = real[d]
    BY <1>2 DEF DeviceChanges, RealOK
  <2>2. \A u \in Type : MapTo(u)' = MapTo(u)
    BY <2>1, LookupsHold
  <2>3. QED
    BY <1>r, <2>1, <2>2 DEF DeviceRight, ReadRight, RecordRight, PutRight, SettledRight, Working
<1>3. ASSUME NEW e \in Device, NoReply(e) \/ Restart(e)
      PROVE  DeviceRight(d)'
  <2>1. /\ d \in current /\ UNCHANGED <<deviceMap, entry, visited, work, reply, real>>
        /\ stage'[d] = stage[d] \/ stage'[d] \in {"none", "provided"}
        /\ work.step = "idle"
    BY <1>3 DEF NoReply, Restart, Working, StageOK
  <2>2. \A u \in Type : MapTo(u)' = MapTo(u)
    BY <2>1, LookupsHold
  <2>3. QED
    BY <1>r, <2>1, <2>2 DEF DeviceRight, ReadRight, RecordRight, PutRight, SettledRight, Working
<1>4. ASSUME NEW e \in Device, BeginUpdate(e)
      PROVE  DeviceRight(d)'
  <2>1. /\ work' = [kind |-> stage[e], dev |-> e, step |-> "updating"]
        /\ UNCHANGED <<deviceMap, entry, stage, real>>
        /\ stage[e] \in Kind
        /\ d = e \/ d \in current
        /\ stage[e] = "desired" => reply' = real[e]
        /\ stage[e] # "desired" => d \in current
        /\ visited' = [visited EXCEPT ![stage[e]][e] = Marks(stage[e], e)]
    BY <1>4 DEF BeginUpdate
  <2>2. \A u \in Type : MapTo(u)' = MapTo(u)
    BY <2>1, LookupsHold
  <2>3. ReadRight(d)'
    BY <2>1 DEF ReadRight, Working, VisitedOK, Marks
  <2>4. d = e => stage[d] \notin Mapped /\ stage[d] # "put"
    BY <2>1
  <2>5. RecordRight(d)' /\ SettledRight(d)' /\ PutRight(d)'
    BY <1>r, <2>1, <2>2, <2>4 DEF RecordRight, SettledRight, PutRight, Working
  <2>6. QED
    BY <2>3, <2>5 DEF DeviceRight
<1>5. ASSUME NEW t \in Type, ListService(t)
      PROVE  DeviceRight(d)'
  <2> DEFINE new == Updated(entry[work.kind][work.dev][t], reply[t])
  <2>1. /\ d \in current /\ TrackSink /\ UNCHANGED <<deviceMap, stage, work, reply, real>>
        /\ t \in rest /\ work.step = "updating"
        /\ entry' = [entry EXCEPT ![work.kind][work.dev][t] = new]
        /\ visited' = [visited EXCEPT ![work.kind][work.dev] = @ \union {t}]
    BY <1>5, TrackSinkForgets DEF ListService, Working
  <2>2. reply[t] # Absent /\ stage[work.dev] = work.kind
    BY <2>1 DEF Marked, Working, Given
  <2>3. ReadRight(d)'
    <3>1. CASE work.kind = "desired" /\ work.dev = d
      <4>1. reply = real[d] /\ reply[t] # NoURI
        BY <1>r, <2>1, <3>1, URIsAreURIs DEF ReadRight, Working, RealOK
      <4>2. new = real[d][t]
        BY <4>1 DEF Updated
      <4> HIDE DEF new
      <4>3. \A u \in Type : entry'["desired"][d][u] = IF u = t THEN new ELSE entry["desired"][d][u]
        BY <2>1, <3>1 DEF EntryOK
      <4>4. visited'["desired"][d] = visited["desired"][d] \union {t} /\ visited["desired"][d] \subseteq Type
        BY <2>1, <3>1 DEF VisitedOK
      <4>5. QED
        BY <1>r, <2>1, <3>1, <4>1, <4>2, <4>3, <4>4 DEF ReadRight, Working
    <3>2. CASE ~(work.kind = "desired" /\ work.dev = d)
      BY <2>1, <3>2 DEF ReadRight
    <3>3. QED
      BY <3>1, <3>2
  <2>4. RecordRight(d)'
    <3>1. SUFFICES ASSUME stage[d] = "put" PROVE entry'["desired"][d] = entry["desired"][d]
      BY <1>r, <2>1 DEF RecordRight
    <3>2. d # work.dev
      BY <2>2, <3>1
    <3> HIDE DEF new
    <3>3. QED
      BY <2>1, <3>2 DEF EntryOK
  <2>5. PutRight(d)'
    BY <2>1 DEF PutRight, Working
  <2>6. SettledRight(d)'
    BY <1>r, <2>1, LookupsHold DEF SettledRight
  <2>7. QED
    BY <2>3, <2>4, <2>5, <2>6 DEF DeviceRight
<1>6. ASSUME CompleteUpdate
      PROVE  DeviceRight(d)'
  <2>1. /\ d \in current /\ TrackSink /\ UNCHANGED <<deviceMap, real>>
        /\ rest = {} /\ work.step = "updating"
        /\ stage' = [stage EXCEPT ![work.dev] = NextStage(work.kind)]
        /\ entry' = [entry EXCEPT ![work.kind][work.dev] =
                       [t \in Type |-> IF t \in Unvisited(work.kind, work.dev) THEN Absent ELSE @[t]]]
    BY <1>6, TrackSinkForgets DEF CompleteUpdate, Working
  <2>2. work'.step \notin {"updating", "putting"}
    BY <1>6 DEF CompleteUpdate, Idle
  <2>3. stage[work.dev] = work.kind /\ visited[work.kind][work.dev] = Given(reply)
    BY <2>1 DEF Marked, Working
  <2>4. RecordRight(d)'
    <3>1. CASE work.kind = "desired" /\ work.dev = d
      <4>1. reply = real[d] /\ \A t \in Given(reply) : entry["desired"][d][t] = real[d][t]
        BY <1>r, <2>1, <2>3, <3>1 DEF ReadRight, Working
      <4>2. entry'["desired"][d] = [t \in Type |-> IF t \in Unvisited("desired", d) THEN Absent ELSE entry["desired"][d][t]]
        BY <2>1, <3>1 DEF EntryOK
      <4>3. \A t \in Type : entry'["desired"][d][t] = real[d][t]
        BY <2>3, <3>1, <4>1, <4>2 DEF Unvisited, Known, Given
      <4>4. entry'["desired"][d] = real[d]
        BY <4>2, <4>3 DEF RealOK
      <4>5. QED
        BY <2>1, <4>4 DEF RecordRight
    <3>2. CASE ~(work.kind = "desired" /\ work.dev = d) /\ stage'[d] = "put"
      <4>1. d # work.dev /\ stage[d] = "put"
        BY <2>1, <3>2 DEF StageOK
      <4>2. entry'["desired"][d] = entry["desired"][d]
        BY <2>1, <4>1 DEF EntryOK
      <4>3. QED
        BY <1>r, <2>1, <4>1, <4>2 DEF RecordRight
    <3>3. QED
      BY <3>1, <3>2 DEF RecordRight
  <2>5. SettledRight(d)'
    <3>1. SUFFICES ASSUME stage'[d] \in Mapped PROVE SettledRight(d)'
      BY DEF SettledRight
    <3>2. stage[d] \in Mapped
      BY <2>1, <3>1 DEF StageOK
    <3>3. QED
      BY <1>r, <2>1, <3>2, LookupsHold DEF SettledRight
  <2>6. QED
    BY <2>2, <2>4, <2>5 DEF DeviceRight, ReadRight, PutRight, Working
<1>7. ASSUME RebuildIndex \/ AbandonUpdate
      PROVE  DeviceRight(d)'
  <2>1. /\ d \in current /\ UNCHANGED <<deviceMap, entry, visited, real>>
        /\ work' = Idle
        /\ stage'[d] = stage[d] \/ stage'[d] = "none"
    BY <1>7 DEF RebuildIndex, AbandonUpdate, StageOK
  <2>2. \A u \in Type : MapTo(u)' = MapTo(u)
    BY <2>1, LookupsHold
  <2>3. QED
    BY <1>r, <2>1, <2>2 DEF DeviceRight, ReadRight, RecordRight, PutRight, SettledRight, Working, Idle
<1>8. ASSUME NEW e \in Device, PutMappings(e)
      PROVE  DeviceRight(d)'
  <2>1. /\ d \in current /\ UNCHANGED <<deviceMap, entry, real>>
        /\ stage[e] = "put" /\ work.step = "idle"
        /\ \A f \in Device : f # e => stage'[f] = stage[f]
        /\ work'.step # "updating"
    BY <1>8 DEF PutMappings, Working, StageOK
  <2>2. \A u \in Type : MapTo(u)' = MapTo(u)
    BY <2>1, LookupsHold
  <2>3. ReadRight(d)'
    BY <2>1 DEF ReadRight, Working
  <2>4. d = e => \A t \in Type : real[d][t] # Absent =>
                   t \in Known("desired", d) /\ entry["desired"][d][t] = real[d][t]
    BY <1>r, <2>1 DEF RecordRight, Known
  <2>5. CASE Wrong(e) = {}
    <3>1. stage' = [stage EXCEPT ![e] = AfterMapping(e)] /\ work' = work
      BY <1>8, <2>5 DEF PutMappings
    <3>2. d = e => \A t \in Type : real[d][t] # Absent => real[d][t] = MapTo(t)
      BY <2>4, <2>5 DEF Wrong
    <3>3. SettledRight(d)'
      BY <1>r, <2>1, <2>2, <3>2 DEF SettledRight
    <3>4. RecordRight(d)' /\ PutRight(d)'
      BY <1>r, <2>1, <3>1 DEF RecordRight, PutRight, Working, StageOK
    <3>5. QED
      BY <2>3, <3>3, <3>4 DEF DeviceRight
  <2>6. CASE Wrong(e) # {}
    <3>1. /\ stage' = stage /\ work' = [kind |-> "desired", dev |-> e, step |-> "putting"]
          /\ reply' = [t \in Type |-> IF t \in Wrong(e) THEN MapTo(t) ELSE Absent]
      BY <1>8, <2>6 DEF PutMappings
    <3>2. \A t \in Type : MapTo(t) \in URI /\ MapTo(t) # Absent
      BY MapToIsURI, URIsAreURIs
    <3>3. PutRight(d)'
      <4>1. SUFFICES ASSUME d = e, NEW t \in Type, real[d][t] # Absent
                     PROVE  MapTo(t) = IF reply'[t] = Absent THEN real[d][t] ELSE reply'[t]
        BY <2>1, <2>2, <3>1 DEF PutRight
      <4>2. reply'[t] = IF t \in Wrong(e) THEN MapTo(t) ELSE Absent
        BY <3>1
      <4>3. t \notin Wrong(e) => MapTo(t) = real[d][t]
        BY <2>4, <4>1 DEF Wrong
      <4>4. QED
        BY <3>2, <4>2, <4>3
    <3>4. SettledRight(d)' /\ RecordRight(d)'
      BY <1>r, <2>1, <2>2, <3>1 DEF SettledRight, RecordRight
    <3>5. QED
      BY <2>3, <3>3, <3>4 DEF DeviceRight
  <2>7. QED
    BY <2>5, <2>6
<1>9. ASSUME NEW ok \in BOOLEAN, AnswerPut(ok)
      PROVE  DeviceRight(d)'
  <2>1. /\ d \in current /\ UNCHANGED <<deviceMap, entry>> /\ work' = Idle
        /\ work.step = "putting"
        /\ \A f \in Device : f # work.dev => stage'[f] = stage[f]
        /\ \A f \in Device : f # work.dev => real'[f] = real[f]
        /\ stage'[work.dev] # "put"
    BY <1>9 DEF AnswerPut, Working, StageOK, RealOK
  <2>2. \A u \in Type : MapTo(u)' = MapTo(u)
    BY <2>1, LookupsHold
  <2>3. RecordRight(d)'
    BY <1>r, <2>1 DEF RecordRight
  <2>4. SettledRight(d)'
    <3>1. CASE d # work.dev
      BY <1>r, <2>1, <2>2, <3>1 DEF SettledRight
    <3>2. CASE d = work.dev /\ ok
      <4>1. \A t \in Type : real'[d][t] = IF Absent \in {real[d][t], reply[t]} THEN real[d][t] ELSE reply[t]
        BY <1>9, <3>2 DEF AnswerPut, RealOK
      <4>2. \A t \in Type : real[d][t] # Absent => MapTo(t) = IF reply[t] = Absent THEN real[d][t] ELSE reply[t]
        BY <1>r, <2>1, <3>2 DEF PutRight, Working
      <4>3. \A t \in Type : real'[d][t] # Absent => real'[d][t] = MapTo(t)
        BY <4>1, <4>2
      <4>4. QED
        BY <2>2, <4>3 DEF SettledRight
    <3>3. CASE d = work.dev /\ ~ok
      BY <1>9, <3>3 DEF AnswerPut, SettledRight, StageOK
    <3>4. QED
      BY <3>1, <3>2, <3>3
  <2>5. QED
    BY <2>1, <2>3, <2>4 DEF DeviceRight, ReadRight, PutRight, Working, Idle
<1>10. CASE UNCHANGED vars
  <2>1. \A u \in Type : MapTo(u)' = MapTo(u)
    BY <1>10, LookupsHold DEF vars
  <2>2. QED
    BY <1>r, <1>10, <2>1 DEF vars, DeviceRight, ReadRight, RecordRight, PutRight, SettledRight, Working
<1>11. QED
  BY <1>1, <1>2, <1>3, <1>4, <1>5, <1>6, <1>7, <1>8, <1>9, <1>10 DEF Next

(* A mapped device has the sink where the management device provides it,   *)
(* and all else unmapped, while it desires what its mappings said.         *)
THEOREM MappingsRight == Spec => []MappedRight
<1>1. Init => MapInv
  BY DEF Init, MapInv
<1>2. MapInv => MappedRight
  BY DEF MapInv, DeviceRight, SettledRight, MappedRight
<1>3. QED
  BY <1>1, <1>2, SweepInvariant, MapStep, PTL DEF Spec

-----------------------------------------------------------------------------
(* The order of the stages. A PUT is answered at the stage it was sent at, *)
(* as Marked says of an update.                                            *)

stages == [d \in Device |-> IF stage[d] = "health" THEN "polled" ELSE IF stage[d] = "active" THEN "none" ELSE stage[d]]

PutPending == Working("putting") => stage[work.dev] = "put"

LEMMA PutPendingStep == SweepInv /\ PutPending /\ [Next]_vars => PutPending'
<1> SUFFICES ASSUME SweepInv, PutPending, [Next]_vars PROVE PutPending'
  OBVIOUS
<1> USE DEF PutPending, Working
<1>0. work.dev \in Device /\ stage \in [Device -> Kind \union Mapped \union {"none", "put"}]
  BY DEF SweepInv, TypeOK, HandlerOK, StageOK
<1>1. ASSUME work'.step # "putting" PROVE PutPending'
  BY <1>1
<1>2. ASSUME NEW d \in Device, Discover(d), work.step = "putting" PROVE PutPending'
  <2>1. work.dev # d
    BY <1>2 DEF Discover, SweepInv, RecordsFirst
  <2>2. work' = work /\ (stage' = stage \/ stage' = [stage EXCEPT ![d] = "provided"])
    BY <1>2 DEF Discover
  <2>3. QED
    BY <1>0, <1>2, <2>1, <2>2
<1>3. ASSUME NEW d \in Device, Discover(d), work.step # "putting" PROVE PutPending'
  BY <1>3 DEF Discover
<1>4. ASSUME NEW d \in Device, NoReply(d) \/ Restart(d) \/ BeginUpdate(d) PROVE work'.step # "putting"
  BY <1>4 DEF NoReply, Restart, BeginUpdate
<1>5. ASSUME NEW d \in Device, PutMappings(d) PROVE PutPending'
  BY <1>5 DEF PutMappings
<1>6. ASSUME CompleteUpdate \/ RebuildIndex \/ AbandonUpdate PROVE work'.step # "putting"
  BY <1>6 DEF CompleteUpdate, RebuildIndex, AbandonUpdate, Idle
<1>7. ASSUME NEW ok \in BOOLEAN, AnswerPut(ok) PROVE work'.step # "putting"
  BY <1>7 DEF AnswerPut, Idle
<1>8. ASSUME UNCHANGED <<work, stage>> PROVE PutPending'
  BY <1>8
<1>9. QED
  BY <1>1, <1>2, <1>3, <1>4, <1>5, <1>6, <1>7, <1>8 DEF Next, DeviceChanges, ListService, vars

LEMMA OneInOrder ==
  ASSUME TypeOK, NEW d \in Device, NEW s \in Kind \union Mapped \union {"none", "put"},
         stage' = [stage EXCEPT ![d] = s],
         \/ s \in {"provided", "none", "active"}
         \/ <<stage[d], s>> \in {<<"provided", "desired">>, <<"desired", "put">>, <<"put", "health">>}
  PROVE  Order!Next
<1>1. stages' = [stages EXCEPT ![d] = IF s = "health" THEN "polled" ELSE IF s = "active" THEN "none" ELSE s]
  BY DEF stages, TypeOK, StageOK
<1>2. CASE s \in {"provided", "none", "active"}
  BY <1>1, <1>2 DEF Order!Next, Order!Begin, Order!Leave, stages
<1>3. CASE <<stage[d], s>> \in {<<"provided", "desired">>, <<"desired", "put">>, <<"put", "health">>}
  <2>1. <<stages[d], stages'[d]>> \in Order!Following /\ stages' = [stages EXCEPT ![d] = stages'[d]]
    BY <1>1, <1>3 DEF stages, Order!Following
  <2>2. Order!Proceed(d)
    BY <2>1 DEF Order!Proceed, stages
  <2>3. QED
    BY <2>2 DEF Order!Next
<1>4. QED
  BY <1>2, <1>3

LEMMA OrderStep == SweepInv /\ PutPending /\ [Next]_vars => [Order!Next]_(Order!vars)
<1> SUFFICES ASSUME SweepInv, PutPending, [Next]_vars PROVE Order!Next \/ UNCHANGED Order!vars
  OBVIOUS
<1>0. TypeOK /\ work.dev \in Device /\ work.kind \in Kind
  BY DEF SweepInv, TypeOK, HandlerOK
<1>1. ASSUME UNCHANGED stage PROVE UNCHANGED Order!vars
  BY <1>1 DEF Order!vars
<1>2. ASSUME NEW d \in Device, NEW s \in {"provided", "none"}, stage' = [stage EXCEPT ![d] = s] PROVE Order!Next
  BY <1>0, <1>2, OneInOrder, KindAndStage DEF Kind
<1>3. ASSUME NEW d \in Device, Discover(d) PROVE Order!Next \/ UNCHANGED Order!vars
  BY <1>1, <1>2, <1>3 DEF Discover
<1>4. ASSUME NEW d \in Device, NoReply(d) \/ Restart(d) PROVE Order!Next
  BY <1>2, <1>4 DEF NoReply, Restart
<1>5. ASSUME NEW d \in Device, BeginUpdate(d) PROVE UNCHANGED Order!vars
  BY <1>1, <1>5 DEF BeginUpdate
<1>6. CASE CompleteUpdate
  <2>1. stage[work.dev] = work.kind /\ stage' = [stage EXCEPT ![work.dev] = NextStage(work.kind)]
    BY <1>6 DEF CompleteUpdate, SweepInv, Marked
  <2>2. <<work.kind, NextStage(work.kind)>> \in {<<"provided", "desired">>, <<"desired", "put">>}
    BY <1>0 DEF NextStage, Kind
  <2>3. NextStage(work.kind) \in Kind \union {"put"}
    BY <2>2 DEF Kind
  <2>4. QED
    BY <1>0, <2>1, <2>2, <2>3, OneInOrder
<1>7. CASE AbandonUpdate
  BY <1>0, <1>2, <1>7 DEF AbandonUpdate
<1>8. ASSUME NEW d \in Device, stage[d] = "put", stage' = [stage EXCEPT ![d] = AfterMapping(d)] PROVE Order!Next
  <2>1. AfterMapping(d) \in {"health", "active"}
    BY DEF AfterMapping
  <2>2. QED
    BY <1>0, <1>8, <2>1, OneInOrder DEF Mapped
<1>9. ASSUME NEW d \in Device, PutMappings(d) PROVE Order!Next \/ UNCHANGED Order!vars
  BY <1>1, <1>8, <1>9 DEF PutMappings
<1>10. ASSUME NEW ok \in BOOLEAN, AnswerPut(ok) PROVE Order!Next
  <2>1. stage[work.dev] = "put"
    BY <1>10 DEF AnswerPut, PutPending
  <2>2. QED
    BY <1>0, <1>2, <1>8, <1>10, <2>1 DEF AnswerPut
<1>11. QED
  BY <1>1, <1>3, <1>4, <1>5, <1>6, <1>7, <1>9, <1>10 DEF Next, DeviceChanges, ListService, RebuildIndex, vars

(* The stages the service maps go by are those of the order the arbiter is *)
(* shown to keep.                                                          *)
THEOREM MapsKeepOrder == Spec => ImplementsOrder
<1>1. Init => PutPending
  BY DEF Init, PutPending, Working, Idle
<1>2. Init => Order!Init
  BY DEF Init, Order!Init
<1>3. QED
  BY <1>1, <1>2, PutPendingStep, OrderStep, SweepInvariant, PTL DEF Spec, ImplementsOrder, Order!Spec

=============================================================================
