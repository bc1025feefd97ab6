----------------------------- MODULE ServiceMaps -----------------------------
(***************************************************************************)
(* The services the arbiter knows of: for every device a map of the        *)
(* services it provides and one of the services it desires, refreshed from *)
(* its replies by mark and sweep; two indexes by service type rebuilt from *)
(* the maps; and the mappings put to the device. Both maps have the same   *)
(* code, so they are two values of one parameter, the kind.                *)
(*                                                                         *)
(* The handlers run on the monitor thread, one at a time. The main thread  *)
(* inserts records, and reads both indexes for the REST API, between any   *)
(* two steps of theirs.                                                    *)
(***************************************************************************)
EXTENDS Integers

CONSTANTS
  Device,     (* CRC32 ids                                                   *)
  Self,       (* the management device, provider of the health sink          *)
  Type,       (* service types                                               *)
  OwnType,    (* the types the management device provides itself             *)
  SinkType,   (* "hnsrv-health-sink": the one type with a default mapping    *)
  SourceType, (* "hnsrv-health-source": the type that is polled              *)
  URI,        (* root URIs                                                   *)
  EmptyURI,   (* "", a URI nobody set                                        *)
  SelfURI,    (* where the management device's own services are              *)
  Absent,     (* no entry for the type                                       *)
  NoURI,      (* an element of a reply without a uri                         *)
  MaxRestarts (* bound: how many times a command takes a device back         *)

ASSUME RestartAssumption == MaxRestarts \in Nat
ASSUME ServiceAssumption ==
  /\ Self \in Device /\ SinkType \in OwnType /\ OwnType \subseteq Type /\ SourceType \in Type
  /\ EmptyURI \in URI /\ SelfURI \in URI /\ SelfURI # EmptyURI
  /\ Absent \notin URI /\ NoURI \notin URI /\ Absent # NoURI

Kind == {"provided", "desired"}

VARIABLES
  deviceMap,   (* ids with a record                                          *)
  entry,       (* m_srvMapProvided, m_srvMapDesired: type to root URI        *)
  visited,     (* the entries marked as visited                              *)
  index,       (* m_providerMap, m_servicesMap: pairs of type and id         *)
  stage,       (* the service phase each device is in                        *)
  work,        (* the handler that is running: its kind, device and step     *)
  reply,       (* what the handler is parsing: type to uri                   *)
  rest,        (* the types in the reply it has not come to                  *)
  changed,     (* the handler's local "changed"                              *)
  real,        (* external: the services each device desires, and the URIs   *)
               (* they really are mapped to                                  *)
  current,     (* history: devices whose desires, and whose sink, are those  *)
               (* the arbiter last read and looked up                        *)
  unindexed,   (* history: devices whose map changed with no rebuild since   *)
  restarts     (* how many times a command took a device back                *)

vars == <<deviceMap, entry, visited, index, stage, work, reply, rest, changed, real, current, unindexed, restarts>>

Idle == [kind |-> "provided", dev |-> Self, step |-> "idle"]

NoEntries == [t \in Type |-> Absent]

Known(k, d) == {t \in Type : entry[k][d][t] # Absent}

Given(r) == {t \in Type : r[t] # Absent}

Init ==
  /\ deviceMap = {}
  /\ entry = [k \in Kind |-> [d \in Device |-> NoEntries]]
  /\ visited = [k \in Kind |-> [d \in Device |-> {}]]
  /\ index = [k \in Kind |-> {}]
  /\ stage = [d \in Device |-> "none"]
  /\ work = Idle
  /\ reply = NoEntries
  /\ rest = {}
  /\ changed = FALSE
  /\ real = [d \in Device |-> NoEntries]
  /\ current = {}
  /\ unindexed = [k \in Kind |-> {}]
  /\ restarts = 0

-----------------------------------------------------------------------------
(* Looking a mapping up.                                                   *)

(* getServiceProviderURI: "" when the record or the service is missing.    *)
ProviderURI(d, t) ==
  IF d \in deviceMap /\ t \in Known("provided", d) THEN entry["provided"][d][t] ELSE EmptyURI

(* Only default mappings are looked up; anything else is to be unmapped.   *)
MapTo(t) == IF t = SinkType THEN ProviderURI(Self, t) ELSE EmptyURI

(* History: the sink being elsewhere overtakes the lookups already made.   *)
Mapped    == {"health", "active"}
Looked    == {d \in Device : stage[d] \in Mapped \/ (work.step = "putting" /\ work.dev = d)}
TrackSink == current' = IF MapTo(SinkType)' = MapTo(SinkType) THEN current ELSE current \ Looked

-----------------------------------------------------------------------------
(* The main thread. The management device's own services are put into its  *)
(* record before it is inserted; no index is rebuilt.                      *)

Discover(d) ==
  /\ d \notin deviceMap
  /\ deviceMap' = deviceMap \union {d}
  /\ IF d = Self
     THEN /\ entry' = [entry EXCEPT !["provided"][d] =
                         [t \in Type |-> IF t \in OwnType THEN SelfURI ELSE Absent]]
          /\ visited' = [visited EXCEPT !["provided"][d] = OwnType]
          /\ unindexed' = [unindexed EXCEPT !["provided"] = @ \union {d}]
          /\ UNCHANGED stage
     ELSE /\ stage' = [stage EXCEPT ![d] = "provided"]
          /\ UNCHANGED <<entry, visited, unindexed>>
  /\ TrackSink
  /\ UNCHANGED <<index, work, reply, rest, changed, real, restarts>>

(* External: a device comes to desire a service, or no longer to.          *)
DeviceChanges(d, t) ==
  /\ d # Self
  /\ real' = [real EXCEPT ![d][t] = IF @ = Absent THEN EmptyURI ELSE Absent]
  /\ current' = current \ {d}
  /\ UNCHANGED <<deviceMap, entry, visited, index, stage, work, reply, rest, changed, unindexed, restarts>>

-----------------------------------------------------------------------------
(* updateDeviceServicesProvideInfo and updateDeviceServicesMappingInfo.    *)

Working(step) == work.step = step

(* Fault: the update begins without startSrv...Updates.                    *)
MarksKept(k, d) == visited[k][d]

(* startSrv...Updates: no entry is visited yet.                            *)
Marks(k, d) == {}

(* No address, an error status, or a body that is not JSON.                *)
NoReply(d) ==
  /\ Working("idle")
  /\ stage[d] \in Kind
  /\ stage' = [stage EXCEPT ![d] = "none"]
  /\ UNCHANGED <<deviceMap, entry, visited, index, work, reply, rest, changed, real, current, unindexed, restarts>>

(* An OK reply that parses; what a device says of its mappings is what it  *)
(* has.                                                                    *)
BeginUpdate(d) ==
  /\ Working("idle")
  /\ stage[d] \in Kind
  /\ work' = [kind |-> stage[d], dev |-> d, step |-> "updating"]
  /\ IF stage[d] = "desired"
     THEN reply' = real[d] /\ current' = current \union {d}
     ELSE reply' \in [Type -> URI \union {Absent, NoURI}] /\ UNCHANGED current
  /\ rest' = Given(reply')
  /\ visited' = [visited EXCEPT ![stage[d]][d] = Marks(stage[d], d)]
  /\ changed' = FALSE
  /\ UNCHANGED <<deviceMap, entry, index, stage, real, unindexed, restarts>>

(* Fault: an element without a uri empties the entry as if it had none.    *)
UpdatedBlind(old, u) == u

(* An entry is found or added, and given the element's uri if it has one.  *)
Updated(old, u) ==
  IF u # NoURI THEN u ELSE IF old = Absent THEN EmptyURI ELSE old

(* One element of the reply: updateSrv... and what follows it.             *)
ListService(t) ==
  LET old == entry[work.kind][work.dev][t]
      new == Updated(old, reply[t])
  IN
  /\ Working("updating")
  /\ t \in rest
  /\ rest' = rest \ {t}
  /\ entry' = [entry EXCEPT ![work.kind][work.dev][t] = new]
  /\ visited' = [visited EXCEPT ![work.kind][work.dev] = @ \union {t}]
  /\ changed' = (changed \/ new # old)
  /\ UNCHANGED <<deviceMap, index, stage, work, reply, real, unindexed, restarts>>
  /\ TrackSink

(* Fault: completeSrv...Updates erases entries and says nothing changed.   *)
SweepsUnsaid(k, d) == FALSE

(* What completeSrv...Updates sweeps out, telling whether there was any.   *)
Unvisited(k, d) == Known(k, d) \ visited[k][d]
Sweeps(k, d) == Unvisited(k, d) # {}

(* Fault: either reply leads on to the mappings.                           *)
StraightToPut(k) == "put"

NextStage(k) == IF k = "provided" THEN "desired" ELSE "put"

(* When anything changed the index is rebuilt, beginning with its clear(). *)
CompleteUpdate ==
  LET k == work.kind
      d == work.dev
  IN
  /\ Working("updating")
  /\ rest = {}
  /\ entry' = [entry EXCEPT ![k][d] = [t \in Type |-> IF t \in Unvisited(k, d) THEN Absent ELSE @[t]]]
  /\ IF changed \/ Sweeps(k, d)
     THEN /\ work' = [kind |-> k, dev |-> d, step |-> "rebuilding"]
          /\ index' = [index EXCEPT ![k] = {}]
     ELSE work' = Idle /\ UNCHANGED index
  /\ changed' = FALSE
  /\ stage' = [stage EXCEPT ![d] = NextStage(k)]
  /\ reply' = NoEntries
  /\ UNCHANGED <<deviceMap, visited, rest, real, unindexed, restarts>>
  /\ TrackSink

(* rebuildSrv...: every record's types are listed under its id.            *)
RebuildIndex ==
  /\ Working("rebuilding")
  /\ index' = [index EXCEPT ![work.kind] =
                 UNION {Known(work.kind, d) \X {d} : d \in deviceMap}]
  /\ unindexed' = [unindexed EXCEPT ![work.kind] = {}]
  /\ work' = Idle
  /\ UNCHANGED <<deviceMap, entry, visited, stage, reply, rest, changed, real, current, restarts>>

(* An exception: the JSON is not an array, or an element, maybe one that   *)
(* lists no service, is malformed. abandonSrv...Updates does nothing, the  *)
(* entries stay as they are and no index is rebuilt.                       *)
AbandonUpdate ==
  /\ Working("updating")
  /\ unindexed' = IF changed THEN [unindexed EXCEPT ![work.kind] = @ \union {work.dev}]
                             ELSE unindexed
  /\ work' = Idle
  /\ reply' = NoEntries
  /\ rest' = {}
  /\ changed' = FALSE
  /\ stage' = [stage EXCEPT ![work.dev] = "none"]
  /\ current' = IF work.kind = "desired" THEN current \ {work.dev} ELSE current
  /\ UNCHANGED <<deviceMap, entry, visited, index, real, restarts>>

(* A command takes a device, even the management device itself, back to    *)
(* the beginning.                                                          *)
Restart(d) ==
  /\ Working("idle")
  /\ restarts < MaxRestarts
  /\ d \in deviceMap
  /\ stage[d] # "provided"
  /\ stage' = [stage EXCEPT ![d] = "provided"]
  /\ restarts' = restarts + 1
  /\ UNCHANGED <<deviceMap, entry, visited, index, work, reply, rest, changed, real, current, unindexed>>

-----------------------------------------------------------------------------
(* executeDeviceServicesUpdateMapping.                                     *)

(* Fault: a mapping that is already in place to something is left alone.   *)
WrongIfEmpty(d) == {t \in Known("desired", d) : entry["desired"][d][t] = EmptyURI /\ MapTo(t) # EmptyURI}

(* The desired services whose mapping is not the one looked up.            *)
Wrong(d) == {t \in Known("desired", d) : MapTo(t) # entry["desired"][d][t]}

(* Fault: the type is looked up in the index of the desired services.      *)
DesiresService(d, t) == <<t, d>> \in index["desired"]

(* doesDeviceProvideService, and the state it sends a mapped device to.    *)
ProvidesService(d, t) == <<t, d>> \in index["provided"]
AfterMapping(d) == IF ProvidesService(d, SourceType) THEN "health" ELSE "active"

(* Looking an entry up marks it. The PUT names the wrong entries only; if  *)
(* there are none nothing is sent.                                         *)
PutMappings(d) ==
  /\ Working("idle")
  /\ stage[d] = "put"
  /\ visited' = [visited EXCEPT !["desired"][d] = @ \union Known("desired", d)]
  /\ IF Wrong(d) = {}
     THEN stage' = [stage EXCEPT ![d] = AfterMapping(d)] /\ UNCHANGED <<work, reply>>
     ELSE /\ work' = [kind |-> "desired", dev |-> d, step |-> "putting"]
          /\ reply' = [t \in Type |-> IF t \in Wrong(d) THEN MapTo(t) ELSE Absent]
          /\ UNCHANGED stage
  /\ UNCHANGED <<deviceMap, entry, index, rest, changed, real, current, unindexed, restarts>>

(* The device maps what it still desires and answers OK, or it is OFFLINE. *)
AnswerPut(ok) ==
  /\ Working("putting")
  /\ IF ok
     THEN /\ real' = [real EXCEPT ![work.dev] =
                        [t \in Type |-> IF Absent \in {@[t], reply[t]} THEN @[t] ELSE reply[t]]]
          /\ stage' = [stage EXCEPT ![work.dev] = AfterMapping(work.dev)]
     ELSE stage' = [stage EXCEPT ![work.dev] = "none"] /\ UNCHANGED real
  /\ work' = Idle
  /\ reply' = NoEntries
  /\ UNCHANGED <<deviceMap, entry, visited, index, rest, changed, current, unindexed, restarts>>

-----------------------------------------------------------------------------
(* getDeviceServices on the main thread reports what the indexes list, and *)
(* looks every listed id up in the device map. It changes nothing, and may *)
(* come at any moment; the default and directed mappings are reported as   *)
(* none, whatever they are.                                                *)
Reported(k, d) == {t \in Type : <<t, d>> \in index[k]}

-----------------------------------------------------------------------------

Next ==
  \/ \E d \in Device : Discover(d) \/ NoReply(d) \/ BeginUpdate(d) \/ Restart(d)
  \/ \E d \in Device, t \in Type : DeviceChanges(d, t)
  \/ \E t \in Type : ListService(t)
  \/ CompleteUpdate \/ RebuildIndex \/ AbandonUpdate
  \/ \E d \in Device : PutMappings(d)
  \/ \E ok \in BOOLEAN : AnswerPut(ok)

Spec == Init /\ [][Next]_vars

-----------------------------------------------------------------------------

(* The handler that runs, and its local variables. Only a reply, never the *)
(* body of a PUT, may name a service without a uri.                        *)
HandlerOK ==
  /\ work \in [kind : Kind, dev : Device, step : {"idle", "updating", "rebuilding", "putting"}]
  /\ reply \in [Type -> URI \union {Absent, NoURI}] /\ rest \subseteq Type
  /\ changed \in BOOLEAN
  /\ Working("putting") => \A t \in Type : reply[t] # NoURI

EntryOK   == entry \in [Kind -> [Device -> [Type -> URI \union {Absent}]]]
VisitedOK == visited \in [Kind -> [Device -> SUBSET Type]]
IndexOK   == index \in [Kind -> SUBSET (Type \X Device)] /\ unindexed \in [Kind -> SUBSET Device]
RealOK    == real \in [Device -> [Type -> URI \union {Absent}]]

StageOK ==
  /\ deviceMap \subseteq Device /\ current \subseteq Device
  /\ stage \in [Device -> Kind \union Mapped \union {"none", "put"}]
  /\ restarts \in 0..MaxRestarts

TypeOK == HandlerOK /\ EntryOK /\ VisitedOK /\ IndexOK /\ RealOK /\ StageOK

(* A completed update leaves exactly the services of the reply, whatever   *)
(* an abandoned update, or the lookups of a mapping PUT, left marked.      *)
SweepExact ==
  [][\A k \in Kind, d \in Device :
       stage[d] = k /\ stage'[d] = NextStage(k) => Known(k, d)' = Given(reply)]_vars

(* Whatever the monitor is at, a report tells of each device just what is  *)
(* on its record, and never of one without a record. It may be wrong about *)
(* the kind being rebuilt, the device being updated, and a record whose    *)
(* map changed without a rebuild: the management device's own at its       *)
(* discovery, and one whose update was abandoned.                          *)
IndexAgrees ==
  \A k \in Kind :
    /\ index[k] \subseteq Type \X deviceMap
    /\ ~(Working("rebuilding") /\ work.kind = k) =>
         \A d \in deviceMap \ unindexed[k] :
           \/ Working("updating") /\ work.kind = k /\ work.dev = d
           \/ Reported(k, d) = Known(k, d)

(* A device is polled for its health when its mappings are settled if, and *)
(* only if, the health source is among its services, unless its record is  *)
(* one of the exceptions of IndexAgrees.                                   *)
HealthPolledRight ==
  [][\A d \in Device \ unindexed["provided"] :
       stage[d] \notin Mapped /\ stage'[d] \in Mapped =>
         (stage'[d] = "health" <=> SourceType \in Known("provided", d))]_vars

(* A mapped device has the sink mapped to where the management device      *)
(* provides it, and everything else unmapped, as long as it desires what   *)
(* it did when its mappings were read. Discovery may insert the provider   *)
(* between that reading and the lookup; a device looked up before its      *)
(* provider was discovered keeps "" and is the exception.                  *)
MappedRight ==
  \A d \in current :
    stage[d] \in Mapped =>
      \A t \in Type : real[d][t] # Absent => real[d][t] = MapTo(t)

(* The stages a device goes through here are those the arbiter takes it    *)
(* through, in its order, however often a command takes it back: settled   *)
(* without being polled is out of the order, as is failed.                 *)
Order ==
  INSTANCE ServiceOrder WITH
    stage <- [d \in Device |-> IF stage[d] = "health" THEN "polled"
                              ELSE IF stage[d] = "active" THEN "none" ELSE stage[d]]

ImplementsOrder == Order!Spec

=============================================================================
