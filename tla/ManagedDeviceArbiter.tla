------------------------ MODULE ManagedDeviceArbiter ------------------------
(***************************************************************************)
(* The managed device arbiter: the device map, the management state of    *)
(* every device, the monitor thread that walks the map and moves devices  *)
(* from state to state with REST exchanges, and the main thread's two     *)
(* entry points, discovery and management commands.                       *)
(*                                                                         *)
(* The two threads meet in three places the code guards differently: the  *)
(* management state (written under the device's mutex, read without it),  *)
(* the command (written under the map's mutex, read without any) and the  *)
(* monitor's wait time (written under whichever device's mutex is held).  *)
(* Steps are cut where another thread can get in between.                 *)
(***************************************************************************)
EXTENDS Integers

CONSTANTS
  Device,    (* CRC32 ids that discovery may report; the map is ordered by them *)
  Self,      (* the CRC32 id of the management device itself                    *)
  Name,      (* values of the one settable field, "name"                        *)
  NoName,    (* the command carries no name                                     *)
  MaxPosts   (* bound: how many commands are posted                             *)

ASSUME DeviceAssumption == Device \subseteq Nat \ {0}
ASSUME SelfAssumption == Self \in Nat
ASSUME NameAssumption == NoName \notin Name
ASSUME BoundAssumption == MaxPosts \in Nat

VARIABLES
  deviceMap,     (* the ids that have a record                                  *)
  mgmtState,     (* m_mgmtState of each record                                  *)
  ownerState,    (* m_ownerState of each record                                 *)
  cmd,           (* m_mgmtCmd of each record: type, and name if its mask bit is set *)
  ipv4,          (* the devices with a private IPv4 address on record           *)
  ownerFresh,    (* history: owner read since the last command was dispatched   *)
  armed,         (* history: commands started during the current walk           *)
  overtaken,     (* history: a post for the device being commanded came meanwhile *)
  waitTime,      (* m_monitorWaitTime                                           *)
  sleepFor,      (* the argument of the monitor's last sleep()                  *)
  monPC,         (* where the monitor thread is                                 *)
  cursor,        (* the record the walk is at, 0 before the first               *)
  seen,          (* the management state the switch was entered with            *)
  running,       (* the command executeDeviceMgmtCmd dispatched on              *)
  next,          (* the arguments of the pending setNextMonitorState            *)
  monLowers,     (* the monitor found its minValue below the wait time          *)
  mainPC,        (* where the main thread is                                    *)
  target,        (* the device a command is being posted to                     *)
  mainLowers,    (* the main thread found 0 below the wait time                 *)
  posts          (* how many commands were posted                               *)

recordVars == <<deviceMap, mgmtState, ownerState, cmd, ipv4, ownerFresh>>
monVars    == <<monPC, cursor, seen, running, next, monLowers, sleepFor>>
mainVars   == <<mainPC, target, mainLowers, posts, armed>>
vars       == <<recordVars, monVars, mainVars, waitTime, overtaken>>

-----------------------------------------------------------------------------
(* Identify and own the device, then learn and set its services.           *)
ServiceQuery  == {"SRV_PROVIDE_INFO", "SRV_MAPPING_INFO", "SRV_MAP_UPDATE"}
HealthPhases  == {"UPDATE_HEALTH", "UPDATE_STRREF"}
ServicePhases == ServiceQuery \union HealthPhases \union {"ACTIVE"}
RestPhases    == {"OPT_INFO", "OWNER_INFO"} \union ServiceQuery \union HealthPhases
(* The states the monitor's switch leaves alone.                           *)
Parked        == {"UNCLAIMED", "NOT_AVAILABLE", "OTHER_MGR", "OFFLINE", "NOTSET"}
(* RECOVERED and DISAPPEARING are declared but nothing ever enters them.   *)
MgmtState     == ServicePhases \union RestPhases \union Parked
                   \union {"SELF", "DISCOVERED", "EXEC_CMD"}

OwnerState == {"NOTSET", "UNKNOWN", "MINE", "OTHER", "AVAILABLE", "UNAVAILABLE"}
CmdType    == {"NOTSET", "CLAIMDEV", "RELEASEDEV", "SETDEVPARAMS"}
(* Fault: clear() leaves the type "IDLE", which no dispatch knows.         *)
ClearedIdle == [type |-> "IDLE", name |-> NoName]
Cleared    == [type |-> "NOTSET", name |-> NoName]
(* A name is taken from the body of any command; SETDEVPARAMS sends it.    *)
Command    == [type : CmdType, name : Name \union {NoName}]

Waits      == {0, 2, 10}
Transition == [state : MgmtState, min : Waits]
NoMove     == [state |-> "NOTSET", min |-> 10]

MonPC  == {"sleeping", "walking", "visiting", "executing", "commit", "lowering", "dead"}
MainPC == {"idle", "parsing", "fields", "accepted", "starting"}

(* Who is inside setNextMonitorState, holding the device's mutex.          *)
MonitorHolds(d) == monPC = "lowering" /\ cursor = d
MainHolds(d)    == mainPC = "starting" /\ target = d

(* Faults: the new wait time always wins; 0 is taken for none given.       *)
LowersAlways(min)  == TRUE
LowersNonZero(min) == min # 0 /\ min < waitTime

(* Its comparison: is the new deadline sooner than the one on record?      *)
Lowers(min) == min < waitTime

Init ==
  /\ deviceMap  = {}
  /\ mgmtState  = [d \in Device |-> "NOTSET"]
  /\ ownerState = [d \in Device |-> "NOTSET"]
  /\ cmd        = [d \in Device |-> Cleared]
  /\ ipv4       = {}
  /\ ownerFresh = {}
  /\ waitTime   = 10
  /\ sleepFor   = 10
  /\ monPC      = "sleeping"
  /\ cursor     = 0
  /\ seen       = "NOTSET"
  /\ running    = Cleared
  /\ next       = NoMove
  /\ monLowers  = FALSE
  /\ mainPC     = "idle"
  /\ target     = 0
  /\ mainLowers = FALSE
  /\ posts      = 0
  /\ armed      = {}
  /\ overtaken  = FALSE

-----------------------------------------------------------------------------
(* The walk over the device map.                                           *)

Wake ==
  /\ monPC = "sleeping"
  /\ monPC' = "walking"
  /\ waitTime' = 10
  /\ cursor' = 0
  /\ armed' = {}
  /\ UNCHANGED <<recordVars, mainPC, target, mainLowers, posts, seen, running, next, monLowers, sleepFor,
                 overtaken>>

(* The iterator moves to the next id and the switch reads its state.       *)
Visit(d) ==
  /\ monPC = "walking"
  /\ d \in deviceMap
  /\ d > cursor
  /\ \A e \in deviceMap : e > cursor => d <= e
  /\ cursor' = d
  /\ seen' = mgmtState[d]
  /\ monPC' = "visiting"
  /\ UNCHANGED <<recordVars, mainVars, waitTime, running, next, monLowers, sleepFor, overtaken>>

Sleep ==
  /\ monPC = "walking"
  /\ \A e \in deviceMap : e <= cursor
  /\ monPC' = "sleeping"
  /\ sleepFor' = waitTime
  /\ cursor' = 0
  /\ UNCHANGED <<recordVars, mainVars, waitTime, seen, running, next, monLowers, overtaken>>

-----------------------------------------------------------------------------
(* The cases of the switch. Each ends in a call of setNextMonitorState.    *)

Handling(s) == monPC = "visiting" /\ seen = s

GoTo(s, min) ==
  /\ monPC' = "commit"
  /\ next' = [state |-> s, min |-> min]
  /\ UNCHANGED <<deviceMap, mgmtState, cmd, ipv4, mainVars, waitTime,
                 cursor, seen, running, monLowers, sleepFor, overtaken>>

(* Fault: a device that fails is identified anew instead of given up.      *)
GoRoundAgain == GoTo("OPT_INFO", 2)

GoOffline == GoTo("OFFLINE", 10)

SetOwner(o) == ownerState' = [ownerState EXCEPT ![cursor] = o]

KeepOwner == UNCHANGED <<ownerState, ownerFresh>>

(* What a REST exchange that does not throw can come to.                   *)
Answers ==
  IF cursor \in ipv4 THEN {"ok", "refused", "garbled"} ELSE {"noaddress"}

(* Every REST handler takes the device's mutex before it talks.            *)
Exchanging(s) == Handling(s) /\ ~MainHolds(cursor)

HaltSelf ==
  /\ Handling("SELF")
  /\ SetOwner("MINE")
  /\ GoTo("SELF", 10)
  /\ UNCHANGED ownerFresh

Adopt ==
  /\ Handling("DISCOVERED")
  /\ SetOwner("UNKNOWN")
  /\ GoTo("OPT_INFO", 0)
  /\ UNCHANGED ownerFresh

StayActive ==
  /\ Handling("ACTIVE")
  /\ GoTo("ACTIVE", 10)
  /\ KeepOwner

Skip ==
  /\ monPC = "visiting"
  /\ seen \in Parked
  /\ monPC' = "walking"
  /\ seen' = "NOTSET"
  /\ UNCHANGED <<recordVars, mainVars, waitTime, cursor, running, next, monLowers, sleepFor, overtaken>>

ReadOperationalInfo ==
  /\ Exchanging("OPT_INFO")
  /\ UNCHANGED ownerFresh
  /\ \E a \in Answers :
       \/ a = "ok" /\ GoTo("OWNER_INFO", 0) /\ UNCHANGED ownerState
       \/ a = "garbled" /\ GoOffline /\ SetOwner("UNKNOWN")
       \/ a \in {"refused", "noaddress"} /\ GoOffline /\ UNCHANGED ownerState

(* Faults: another manager's device is asked for its services; one that is *)
(* available is asked for its owner again.                                 *)
OwnerIgnored ==
  {<<"MINE", "SRV_PROVIDE_INFO">>, <<"OTHER", "SRV_PROVIDE_INFO">>,
   <<"AVAILABLE", "UNCLAIMED">>, <<"UNAVAILABLE", "NOT_AVAILABLE">>}
OwnerAskedAgain ==
  {<<"MINE", "SRV_PROVIDE_INFO">>, <<"OTHER", "OTHER_MGR">>,
   <<"AVAILABLE", "OWNER_INFO">>, <<"UNAVAILABLE", "NOT_AVAILABLE">>}

(* Fault: a device of ours is not asked for the services it provides.      *)
OwnerSkipsProvided ==
  {<<"MINE", "SRV_MAPPING_INFO">>, <<"OTHER", "OTHER_MGR">>,
   <<"AVAILABLE", "UNCLAIMED">>, <<"UNAVAILABLE", "NOT_AVAILABLE">>}

(* The ownership a device can report, and where it sends the device.       *)
OwnerLeadsTo ==
  {<<"MINE", "SRV_PROVIDE_INFO">>, <<"OTHER", "OTHER_MGR">>,
   <<"AVAILABLE", "UNCLAIMED">>, <<"UNAVAILABLE", "NOT_AVAILABLE">>}

ReadOwnerInfo ==
  /\ Exchanging("OWNER_INFO")
  /\ \E a \in Answers :
       \/ /\ a = "ok"
          /\ \E lead \in OwnerLeadsTo : SetOwner(lead[1]) /\ GoTo(lead[2], 0)
          /\ ownerFresh' = ownerFresh \union {cursor}
       \/ a = "garbled" /\ GoOffline /\ SetOwner("UNKNOWN") /\ UNCHANGED ownerFresh
       \/ a \in {"refused", "noaddress"} /\ GoOffline /\ KeepOwner

ReadServicesProvided ==
  /\ Exchanging("SRV_PROVIDE_INFO")
  /\ KeepOwner
  /\ \E a \in Answers :
       IF a = "ok" THEN GoTo("SRV_MAPPING_INFO", 0) ELSE GoOffline

(* A device that does not answer for its mappings is taken as active.      *)
ReadServiceMappings ==
  /\ Exchanging("SRV_MAPPING_INFO")
  /\ KeepOwner
  /\ \E a \in Answers :
       IF a = "ok" THEN GoTo("SRV_MAP_UPDATE", 0) ELSE GoTo("ACTIVE", 10)

(* No request is sent when every mapping is right already ("settled");     *)
(* the reply's body is not read. What follows depends on whether the       *)
(* provider index lists the device as a health source (ServiceMaps).       *)
UpdateServiceMappings ==
  /\ Exchanging("SRV_MAP_UPDATE")
  /\ KeepOwner
  /\ \E a \in (Answers \ {"garbled"}) \union {"settled"} :
       \/ a \in {"ok", "settled"} /\ (GoTo("UPDATE_HEALTH", 0) \/ GoTo("ACTIVE", 10))
       \/ a \notin {"ok", "settled"} /\ GoOffline

(* The results of both updates are ignored.                                *)
UpdateHealth ==
  /\ Exchanging("UPDATE_HEALTH")
  /\ GoTo("UPDATE_STRREF", 10)
  /\ KeepOwner

UpdateStringReferences ==
  /\ Exchanging("UPDATE_STRREF")
  /\ GoTo("UPDATE_HEALTH", 10)
  /\ KeepOwner

-----------------------------------------------------------------------------
(* A command: the type is read for the dispatch, the fields later, when    *)
(* the connection is up.                                                   *)

DispatchCommand ==
  /\ Handling("EXEC_CMD")
  /\ cmd[cursor].type # "NOTSET"
  /\ monPC' = "executing"
  /\ running' = cmd[cursor]
  /\ ownerFresh' = ownerFresh \ {cursor}
  /\ overtaken' = (mainPC \in {"parsing", "fields"} /\ target = cursor)
  /\ UNCHANGED <<deviceMap, mgmtState, ownerState, cmd, ipv4, mainVars, waitTime,
                 cursor, seen, next, monLowers, sleepFor>>

(* Fault: the dispatch of no command is no failure, the state stays.       *)
NoCommandForgiven ==
  /\ Handling("EXEC_CMD")
  /\ cmd[cursor].type = "NOTSET"
  /\ GoTo("EXEC_CMD", 0)
  /\ KeepOwner

NoCommand ==
  /\ Handling("EXEC_CMD")
  /\ cmd[cursor].type = "NOTSET"
  /\ GoOffline
  /\ KeepOwner

SendCommand ==
  /\ monPC = "executing"
  /\ ~MainHolds(cursor)
  /\ KeepOwner
  /\ \E a \in Answers \ {"garbled"} :
       IF a = "ok" THEN GoTo("OPT_INFO", 2) ELSE GoOffline

(* A host that cannot be reached: sendRequest or receiveResponse throws,   *)
(* no handler catches it and the thread's run() unwinds.                   *)
ContactThrows ==
  /\ \/ monPC = "visiting" /\ seen \in RestPhases
     \/ monPC = "executing"
  /\ ~MainHolds(cursor)
  /\ cursor \in ipv4 \/ seen \in HealthPhases
  /\ monPC' = "dead"
  /\ UNCHANGED <<recordVars, mainVars, waitTime, cursor, seen, running, next, monLowers, sleepFor, overtaken>>

-----------------------------------------------------------------------------
(* setNextMonitorState on the monitor thread: under the device's mutex,    *)
(* the state and the comparison, then the assignment.                      *)

CommitState ==
  /\ monPC = "commit"
  /\ ~MainHolds(cursor)
  /\ mgmtState' = [mgmtState EXCEPT ![cursor] = next.state]
  /\ monLowers' = Lowers(next.min)
  /\ monPC' = "lowering"
  /\ UNCHANGED <<deviceMap, ownerState, cmd, ipv4, ownerFresh, mainVars, waitTime,
                 cursor, seen, running, next, sleepFor, overtaken>>

CommitWait ==
  /\ monPC = "lowering"
  /\ waitTime' = IF monLowers THEN next.min ELSE waitTime
  /\ monPC' = "walking"
  /\ seen' = "NOTSET"
  /\ running' = Cleared
  /\ next' = NoMove
  /\ monLowers' = FALSE
  /\ overtaken' = FALSE
  /\ UNCHANGED <<recordVars, mainVars, cursor, sleepFor>>

-----------------------------------------------------------------------------
(* The main thread.                                                        *)

(* Fault: an existing record is discovered anew.                           *)
RediscoverAdd(d) ==
  /\ mainPC = "idle"
  /\ ipv4' = ipv4 \union {d}
  /\ deviceMap' = deviceMap \union {d}
  /\ mgmtState' = [mgmtState EXCEPT ![d] = IF d = Self THEN "SELF" ELSE "DISCOVERED"]
  /\ cmd' = [cmd EXCEPT ![d] = Cleared]
  /\ UNCHANGED <<ownerState, ownerFresh, monVars, mainVars, waitTime, overtaken>>

(* An Avahi event: a new record, or new information for an existing one,   *)
(* which keeps its management state. The address is usable or it is not.   *)
NotifyDiscoverAdd(d) ==
  /\ mainPC = "idle"
  /\ \E usable \in BOOLEAN : ipv4' = IF usable THEN ipv4 \union {d} ELSE ipv4
  /\ \/ /\ d \notin deviceMap
        /\ deviceMap' = deviceMap \union {d}
        /\ mgmtState' = [mgmtState EXCEPT ![d] = IF d = Self THEN "SELF" ELSE "DISCOVERED"]
     \/ d \in deviceMap /\ UNCHANGED <<deviceMap, mgmtState>>
  /\ UNCHANGED <<ownerState, cmd, ownerFresh, monVars, mainVars, waitTime, overtaken>>

(* postDeviceMgmtCommand: the old command is cleared before the body is    *)
(* parsed. An unknown id is answered with an error and changes nothing.    *)
PostCommand(d) ==
  /\ mainPC = "idle"
  /\ posts < MaxPosts
  /\ d \in deviceMap
  /\ posts' = posts + 1
  /\ target' = d
  /\ cmd' = [cmd EXCEPT ![d] = Cleared]
  /\ mainPC' = "parsing"
  /\ overtaken' = (overtaken \/ (monPC = "executing" /\ cursor = d))
  /\ UNCHANGED <<deviceMap, mgmtState, ownerState, ipv4, ownerFresh, monVars, waitTime, mainLowers, armed>>

(* setFromJSON writes the record field by field, the type first, and the   *)
(* monitor may read it in between.                                         *)
ReadType(type) ==
  /\ mainPC = "parsing"
  /\ type # "NOTSET"
  /\ cmd' = [cmd EXCEPT ![target] = [type |-> type, name |-> cmd[target].name]]
  /\ mainPC' = "fields"
  /\ UNCHANGED <<deviceMap, mgmtState, ownerState, ipv4, ownerFresh, monVars, waitTime,
                 target, mainLowers, posts, armed, overtaken>>

ReadName(name) ==
  /\ mainPC = "fields"
  /\ cmd' = [cmd EXCEPT ![target] = [type |-> cmd[target].type, name |-> name]]
  /\ mainPC' = "accepted"
  /\ UNCHANGED <<deviceMap, mgmtState, ownerState, ipv4, ownerFresh, monVars, waitTime,
                 target, mainLowers, posts, armed, overtaken>>

ReadCommand ==
  \/ \E type \in CmdType : ReadType(type)
  \/ \E name \in Name \union {NoName} : ReadName(name)

(* Not JSON, no command, an unknown one: the type stays NOTSET. A name     *)
(* that does not convert is found out after the type is set.               *)
RejectCommand ==
  /\ mainPC \in {"parsing", "fields"}
  /\ mainPC' = "idle"
  /\ target' = 0
  /\ UNCHANGED <<recordVars, monVars, waitTime, mainLowers, posts, armed, overtaken>>

(* startDeviceMgmtCmd: setNextMonitorState( EXEC_CMD, 0 ) on this thread.  *)
StartCommand ==
  /\ mainPC = "accepted"
  /\ ~MonitorHolds(target)
  /\ mgmtState' = [mgmtState EXCEPT ![target] = "EXEC_CMD"]
  /\ mainLowers' = Lowers(0)
  /\ armed' = armed \ {target}
  /\ mainPC' = "starting"
  /\ UNCHANGED <<deviceMap, ownerState, cmd, ipv4, ownerFresh, monVars, waitTime, target, posts,
                 overtaken>>

StartWait ==
  /\ mainPC = "starting"
  /\ waitTime' = IF mainLowers THEN 0 ELSE waitTime
  /\ armed' = IF monPC = "sleeping" THEN armed ELSE armed \union {target}
  /\ mainPC' = "idle"
  /\ target' = 0
  /\ mainLowers' = FALSE
  /\ UNCHANGED <<recordVars, monVars, posts, overtaken>>

-----------------------------------------------------------------------------

SwitchCase ==
  \/ HaltSelf \/ Adopt \/ StayActive \/ Skip
  \/ ReadOperationalInfo \/ ReadOwnerInfo
  \/ ReadServicesProvided \/ ReadServiceMappings \/ UpdateServiceMappings
  \/ UpdateHealth \/ UpdateStringReferences
  \/ DispatchCommand \/ NoCommand

Monitor ==
  \/ Wake \/ Sleep
  \/ \E d \in Device : Visit(d)
  \/ SwitchCase \/ SendCommand \/ ContactThrows
  \/ CommitState \/ CommitWait

FinishPost ==
  ReadCommand \/ RejectCommand \/ StartCommand \/ StartWait

Main ==
  \/ \E d \in Device : NotifyDiscoverAdd(d) \/ PostCommand(d)
  \/ FinishPost

Next == Monitor \/ Main

Spec == Init /\ [][Next]_vars

(* sleep() returns, an HTTP exchange ends or throws (Poco times it out),   *)
(* and a handler of the event loop that has begun runs to its end. When    *)
(* Avahi reports a device or a user posts a command is up to them.         *)
FairSpec == Spec /\ WF_vars(Monitor) /\ WF_vars(FinishPost)

-----------------------------------------------------------------------------

TypeOK ==
  /\ deviceMap \subseteq Device
  /\ mgmtState \in [Device -> MgmtState]
  /\ ownerState \in [Device -> OwnerState]
  /\ cmd \in [Device -> Command]
  /\ ipv4 \subseteq Device /\ ownerFresh \subseteq Device /\ armed \subseteq Device
  /\ waitTime \in Waits /\ sleepFor \in Waits
  /\ monPC \in MonPC /\ mainPC \in MainPC
  /\ cursor \in Device \union {0} /\ target \in Device \union {0}
  /\ monPC \notin {"sleeping", "walking"} => cursor \in Device
  /\ mainPC # "idle" => target \in Device
  /\ seen \in MgmtState /\ running \in Command /\ next \in Transition
  /\ monLowers \in BOOLEAN /\ mainLowers \in BOOLEAN /\ overtaken \in BOOLEAN
  /\ posts \in 0..MaxPosts

(* A device is asked for its services, given mappings, or polled for its   *)
(* health only while the last reading of its owner said it is ours, and    *)
(* that reading is newer than the last command sent to it: a release is    *)
(* never followed by service work on the strength of an old reading.       *)
ServicePhasesOwned ==
  \A d \in Device :
    mgmtState[d] \in ServicePhases => ownerState[d] = "MINE" /\ d \in ownerFresh

(* While the monitor works on a device, which it does without the device's *)
(* mutex for as long as an HTTP exchange takes, nothing but a command      *)
(* changes the state it is working from: rediscovery does not.             *)
StateInHand ==
  monPC \in {"visiting", "executing", "commit"} => mgmtState[cursor] \in {seen, "EXEC_CMD"}

(* The command is written without the device's mutex and read without any: *)
(* its type for the dispatch, its fields once the connection is up. They   *)
(* belong together unless the user posted another command in between.      *)
CommandInHand ==
  monPC = "executing" /\ ~overtaken => cmd[cursor] = running

(* The states the monitor leaves with a deadline of 0.                     *)
Due == {"OWNER_INFO"} \union ServiceQuery

(* When the monitor goes to sleep, every device it left with work to do is *)
(* honoured: no other device's later, longer deadline, and no command      *)
(* posted meanwhile, makes it wait longer than was asked for.              *)
PromptNextStep ==
  monPC = "sleeping" =>
    \A d \in Device : /\ mgmtState[d] \in Due => sleepFor = 0
                      /\ mgmtState[d] = "OPT_INFO" => sleepFor <= 2

(* A command whose start was complete when the monitor went to sleep is    *)
(* not slept over for a whole period, although the two threads assign the  *)
(* wait time under different mutexes and one's assignment may be lost.     *)
CommandNotSleptOver ==
  monPC = "sleeping" =>
    \A d \in armed : mgmtState[d] = "EXEC_CMD" => sleepFor <= 2

(* A device's way from discovery, or a command, to a state it stays in.    *)
StepsLeft(s) ==
  IF s = "EXEC_CMD" THEN 7
  ELSE IF s = "DISCOVERED" THEN 6
  ELSE IF s = "OPT_INFO" THEN 5
  ELSE IF s = "OWNER_INFO" THEN 4
  ELSE IF s = "SRV_PROVIDE_INFO" THEN 3
  ELSE IF s = "SRV_MAPPING_INFO" THEN 2
  ELSE IF s = "SRV_MAP_UPDATE" THEN 1 ELSE 0

(* The states of a device that only a command moves.                       *)
Staying == Parked \union {"SELF", "ACTIVE"}

(* A device only ever goes onwards, till a command: whatever an exchange   *)
(* comes to, the monitor's commit of it brings the device nearer to a      *)
(* state it stays in, so no two states lead to each other for ever. One    *)
(* that is parked or active, and the management device itself, stays as it *)
(* is, however often the walk comes to it and it is discovered anew.       *)
OnwardsUntilCommand ==
  [][\A d \in deviceMap :
       /\ mgmtState'[d] # "EXEC_CMD" =>
            /\ StepsLeft(mgmtState'[d]) <= StepsLeft(mgmtState[d])
            /\ mgmtState[d] \in Staying => mgmtState'[d] = mgmtState[d]
       /\ CommitState /\ cursor = d /\ StepsLeft(mgmtState[d]) > 0
            => StepsLeft(mgmtState'[d]) < StepsLeft(mgmtState[d])]_vars

(* A command that is taken off the record without the monitor having seen  *)
(* it there was started during the walk that is under way: one that was    *)
(* pending before the walk began is never lost, whatever was in hand then. *)
OnlyRacedCommandsLost ==
  [][\A d \in deviceMap :
       mgmtState[d] = "EXEC_CMD" /\ mgmtState'[d] # "EXEC_CMD"
         => seen = "EXEC_CMD" \/ d \in armed]_vars

Settled(d) == mgmtState[d] \in Parked \union HealthPhases \union {"ACTIVE"}

(* A discovered device is identified, and its services set up, or it is    *)
(* found unusable, as long as the monitor thread lives.                    *)
DiscoveredSettles ==
  \A d \in Device : mgmtState[d] = "DISCOVERED" ~> (Settled(d) \/ monPC = "dead")

(* A started command does not stay pending for ever.                       *)
CommandLeaves ==
  \A d \in Device : mgmtState[d] = "EXEC_CMD" ~> (mgmtState[d] # "EXEC_CMD" \/ monPC = "dead")

(* "Should the monitor still be running": nothing but killMonitoringLoop   *)
(* clears runMonitor, and nothing calls that, so the thread should live;   *)
(* a device that cannot be contacted is to be OFFLINE.                     *)
MonitorRunsWhileAsked == monPC # "dead"

(* "Kick off execution of the new command request": a device leaves        *)
(* EXEC_CMD because the monitor took its command up.                       *)
StartedCommandIsTakenUp ==
  [][\A d \in Device :
       mgmtState[d] = "EXEC_CMD" /\ mgmtState'[d] # "EXEC_CMD" => seen = "EXEC_CMD"]_vars

(* The phase of its life a management state puts a device in.              *)
PhaseOf(s) ==
  IF s = "NOTSET" THEN "absent"
  ELSE IF s = "SELF" THEN "self"
  ELSE IF s = "EXEC_CMD" THEN "commanded"
  ELSE IF s \in ServicePhases THEN "serving"
  ELSE IF s \in Parked THEN "parked"
  ELSE "identifying"

Lifecycle ==
  INSTANCE DeviceLifecycle WITH
    phase <- [d \in Device |-> PhaseOf(mgmtState[d])],
    mine  <- {d \in ownerFresh : ownerState[d] = "MINE"}

(* The two threads implement the life cycle of every device: it is served  *)
(* only when an answer newer than its last command said it is ours, it is  *)
(* identified again after every command that was carried out, and one that *)
(* was given up stays so until the next.                                   *)
ImplementsLifecycle == Lifecycle!Spec

(* How far the work on a device's services is. Of the device in hand that  *)
(* is what the switch was entered with: a command that comes meanwhile is  *)
(* seen by nobody until the monitor has committed, and may be lost by it.  *)
StageOf(s) ==
  IF s = "SRV_PROVIDE_INFO" THEN "provided"
  ELSE IF s = "SRV_MAPPING_INFO" THEN "desired"
  ELSE IF s = "SRV_MAP_UPDATE" THEN "put"
  ELSE IF s \in HealthPhases THEN "polled" ELSE "none"

InHand(d) == cursor = d /\ monPC \in {"visiting", "executing", "commit", "dead"}

Order ==
  INSTANCE ServiceOrder WITH
    stage <- [d \in Device |-> StageOf(IF InHand(d) THEN seen ELSE mgmtState[d])]

(* Whatever commands come and are lost in between, services are worked on  *)
(* in the order ServiceMaps, too, goes by: no device has mappings put or   *)
(* is polled that was not asked, since it was last found ours, for both    *)
(* what it provides and what it desires.                                   *)
ImplementsOrder == Order!Spec

=============================================================================
