--------------------- MODULE ManagedDeviceArbiter_proofs ---------------------
(* Theorems about the managed device arbiter, for every set of devices.    *)
EXTENDS ManagedDeviceArbiter, TLAPS

-----------------------------------------------------------------------------
(* The states the sets of the module name.                                 *)
LEMMA StatesAreStates ==
  /\ {"SELF", "DISCOVERED", "OPT_INFO", "OWNER_INFO", "EXEC_CMD", "ACTIVE"} \subseteq MgmtState
  /\ ServiceQuery \subseteq MgmtState
  /\ HealthPhases \subseteq MgmtState
  /\ Parked \subseteq MgmtState
BY DEF MgmtState, ServicePhases, RestPhases, ServiceQuery, HealthPhases, Parked

(* Every ownership that updateDeviceOwnerInfo can report leads somewhere.  *)
LEMMA OwnerLeadsToState ==
  ASSUME NEW lead \in OwnerLeadsTo
  PROVE  /\ lead[1] \in OwnerState /\ lead[2] \in MgmtState
         /\ lead[2] \in ServicePhases => lead[1] = "MINE"
BY DEF OwnerLeadsTo, OwnerState, MgmtState, ServicePhases, RestPhases, ServiceQuery, HealthPhases, Parked

(* A cleared command is one, and so is one with a field rewritten.         *)
LEMMA CommandTypes ==
  /\ Cleared \in Command
  /\ \A c \in Command :
       /\ \A type \in CmdType : [type |-> type, name |-> c.name] \in Command
       /\ \A name \in Name \union {NoName} : [type |-> c.type, name |-> name] \in Command
BY DEF Cleared, Command, CmdType

(* setNextMonitorState's arguments are well typed wherever a case of the   *)
(* switch sets them.                                                       *)
LEMMA GoToType ==
  ASSUME NEW s \in MgmtState, NEW min \in Waits, TypeOK, GoTo(s, min),
         monPC \in {"visiting", "executing"},
         ownerState' \in [Device -> OwnerState], ownerFresh' \subseteq Device
  PROVE  TypeOK'
<1>1. next' \in Transition /\ monPC' \in MonPC
  BY DEF GoTo, Transition, MonPC
<1>2. cursor \in Device
  BY DEF TypeOK
<1>3. QED
  BY <1>1, <1>2 DEF TypeOK, GoTo, mainVars

(* Every step of either thread keeps the types.                            *)
LEMMA TypeStep == TypeOK /\ [Next]_vars => TypeOK'
<1> SUFFICES ASSUME TypeOK, [Next]_vars PROVE TypeOK'
  OBVIOUS
<1> USE StatesAreStates, CommandTypes
<1>1. ASSUME Wake PROVE TypeOK'
  BY <1>1 DEF TypeOK, Wake, recordVars, Waits, MonPC
<1>2. ASSUME Sleep PROVE TypeOK'
  BY <1>2 DEF TypeOK, Sleep, recordVars, mainVars, MonPC
<1>3. ASSUME NEW d \in Device, Visit(d) PROVE TypeOK'
  BY <1>3 DEF TypeOK, Visit, recordVars, mainVars, MonPC
<1>4. ASSUME SwitchCase PROVE TypeOK'
  <2> monPC = "visiting" /\ cursor \in Device
    BY <1>4 DEF SwitchCase, HaltSelf, Adopt, StayActive, Skip, ReadOperationalInfo, ReadOwnerInfo,
         ReadServicesProvided, ReadServiceMappings, UpdateServiceMappings, UpdateHealth,
         UpdateStringReferences, DispatchCommand, NoCommand, Exchanging, Handling, TypeOK
  <2> /\ ownerState \in [Device -> OwnerState] /\ ownerFresh \subseteq Device
      /\ ownerFresh \union {cursor} \subseteq Device
      /\ \A o \in OwnerState : SetOwner(o) => ownerState' \in [Device -> OwnerState]
      /\ KeepOwner => ownerState' \in [Device -> OwnerState] /\ ownerFresh' \subseteq Device
    BY DEF TypeOK, SetOwner, KeepOwner
  <2> /\ {"MINE", "UNKNOWN", "OTHER", "AVAILABLE", "UNAVAILABLE"} \subseteq OwnerState
      /\ {0, 2, 10} \subseteq Waits
      /\ "OFFLINE" \in MgmtState
      /\ {"SRV_PROVIDE_INFO", "SRV_MAPPING_INFO", "SRV_MAP_UPDATE"} \subseteq MgmtState
      /\ {"UPDATE_HEALTH", "UPDATE_STRREF"} \subseteq MgmtState
    BY DEF OwnerState, Waits, Parked, ServiceQuery, HealthPhases
  <2> USE GoToType
  <2>1. CASE HaltSelf
    BY <2>1 DEF HaltSelf
  <2>2. CASE Adopt
    BY <2>2 DEF Adopt
  <2>3. CASE StayActive
    BY <2>3 DEF StayActive
  <2>4. CASE Skip
    BY <2>4 DEF Skip, TypeOK, recordVars, mainVars, MonPC, Parked
  <2>5. CASE ReadOperationalInfo
    BY <2>5 DEF ReadOperationalInfo, GoOffline
  <2>6. CASE ReadOwnerInfo
    BY <2>6, OwnerLeadsToState DEF ReadOwnerInfo, GoOffline
  <2>7. CASE ReadServicesProvided
    BY <2>7 DEF ReadServicesProvided, GoOffline
  <2>8. CASE ReadServiceMappings
    BY <2>8 DEF ReadServiceMappings
  <2>9. CASE UpdateServiceMappings
    BY <2>9 DEF UpdateServiceMappings, GoOffline
  <2>10. CASE UpdateHealth
    BY <2>10 DEF UpdateHealth
  <2>11. CASE UpdateStringReferences
    BY <2>11 DEF UpdateStringReferences
  <2>12. CASE DispatchCommand
    BY <2>12 DEF DispatchCommand, TypeOK, mainVars, MonPC
  <2>13. CASE NoCommand
    BY <2>13 DEF NoCommand, GoOffline
  <2>14. QED
    BY <1>4, <2>1, <2>2, <2>3, <2>4, <2>5, <2>6, <2>7, <2>8, <2>9, <2>10, <2>11, <2>12, <2>13
       DEF SwitchCase
<1>5. ASSUME SendCommand PROVE TypeOK'
  <2>1. /\ ownerState' \in [Device -> OwnerState] /\ ownerFresh' \subseteq Device
        /\ {2, 10} \subseteq Waits /\ "OFFLINE" \in MgmtState
    BY <1>5 DEF SendCommand, KeepOwner, TypeOK, Waits, Parked
  <2>2. QED
    BY <1>5, <2>1, GoToType DEF SendCommand, GoOffline
<1>6. ASSUME ContactThrows PROVE TypeOK'
  BY <1>6 DEF TypeOK, ContactThrows, recordVars, mainVars, MonPC
<1>7. ASSUME CommitState PROVE TypeOK'
  BY <1>7 DEF TypeOK, CommitState, Lowers, mainVars, MonPC, Transition, Waits
<1>8. ASSUME CommitWait PROVE TypeOK'
  BY <1>8 DEF TypeOK, CommitWait, recordVars, mainVars, MonPC, Transition, NoMove, Waits, Parked
<1>9. ASSUME NEW d \in Device, NotifyDiscoverAdd(d) PROVE TypeOK'
  BY <1>9 DEF TypeOK, NotifyDiscoverAdd, monVars, mainVars
<1>10. ASSUME NEW d \in Device, PostCommand(d) PROVE TypeOK'
  BY <1>10, BoundAssumption DEF TypeOK, PostCommand, monVars, MainPC
<1>11. ASSUME ReadCommand PROVE TypeOK'
  BY <1>11 DEF TypeOK, ReadCommand, ReadType, ReadName, monVars, MainPC
<1>12. ASSUME RejectCommand PROVE TypeOK'
  BY <1>12 DEF TypeOK, RejectCommand, recordVars, monVars, MainPC
<1>13. ASSUME StartCommand PROVE TypeOK'
  BY <1>13 DEF TypeOK, StartCommand, Lowers, monVars, MainPC, Waits
<1>14. ASSUME StartWait PROVE TypeOK'
  BY <1>14 DEF TypeOK, StartWait, recordVars, monVars, MainPC, Waits
<1>15. CASE UNCHANGED vars
  BY <1>15 DEF TypeOK, vars, recordVars, monVars, mainVars
<1>16. QED
  BY <1>1, <1>2, <1>3, <1>4, <1>5, <1>6, <1>7, <1>8, <1>9, <1>10, <1>11, <1>12, <1>13, <1>14, <1>15
     DEF Next, Monitor, Main, FinishPost

(* They hold when the threads start.                                       *)
LEMMA TypeAtInit == Init => TypeOK
<1>1. "NOTSET" \in MgmtState /\ "NOTSET" \in OwnerState /\ NoMove \in Transition /\ 10 \in Waits
  BY DEF MgmtState, Parked, OwnerState, NoMove, Transition, Waits
<1>2. 0 \in 0..MaxPosts /\ "sleeping" \in MonPC /\ "idle" \in MainPC
  BY BoundAssumption DEF MonPC, MainPC
<1>3. QED
  BY <1>1, <1>2, CommandTypes DEF Init, TypeOK

(* Every variable keeps its type, whatever the threads interleave to.      *)
THEOREM TypeCorrect == Spec => []TypeOK
BY TypeAtInit, TypeStep, PTL DEF Spec

-----------------------------------------------------------------------------
(* Both threads only ever work on records that are in the map.             *)

MapInv ==
  /\ \A d \in Device : d \notin deviceMap => mgmtState[d] = "NOTSET"
  /\ monPC \notin {"sleeping", "walking"} => cursor \in deviceMap
  /\ mainPC # "idle" => target \in deviceMap

(* The ownership invariant. The monitor acts on the state it read when it  *)
(* entered the switch and on the state it is about to commit, so both must *)
(* be covered: neither is a service phase unless the device is owned.      *)

Owned(d) == ownerState[d] = "MINE" /\ d \in ownerFresh

InHandOwned ==
  \/ monPC = "visiting" /\ seen \in ServicePhases
  \/ monPC = "commit" /\ next.state \in ServicePhases
  => Owned(cursor)

OwnedInv ==
  /\ TypeOK
  /\ MapInv
  /\ ServicePhasesOwned
  /\ InHandOwned
  /\ StateInHand
  /\ monPC = "executing" => seen = "EXEC_CMD"

(* The wait time. A record at or before the walk's cursor has had its say  *)
(* about the coming sleep; the one being committed has its say when its    *)
(* setNextMonitorState returns.                                            *)

Honours(d, wait) ==
  /\ mgmtState[d] \in Due => wait = 0
  /\ mgmtState[d] = "OPT_INFO" => wait <= 2

DueMin(t) ==
  /\ t.state \in Due => t.min = 0
  /\ t.state = "OPT_INFO" => t.min <= 2

WalkInv ==
  /\ monPC \notin {"sleeping", "dead"} =>
       \A d \in Device : d < cursor => Honours(d, waitTime)
  /\ monPC = "walking" => \A d \in Device : d = cursor => Honours(d, waitTime)
  /\ monPC \in {"commit", "lowering"} => DueMin(next)
  /\ monPC = "lowering" =>
       /\ mgmtState[cursor] = next.state
       /\ IF monLowers THEN \A d \in Device : d < cursor => Honours(d, next.min)
                       ELSE waitTime <= next.min

PromptInv == OwnedInv /\ WalkInv /\ PromptNextStep

-----------------------------------------------------------------------------

(* What discovery, a command or a failure leads to is no service phase.    *)
LEMMA NotServicePhases ==
  /\ "EXEC_CMD" \notin ServicePhases /\ "OFFLINE" \notin ServicePhases
  /\ "NOTSET" \notin ServicePhases /\ "SELF" \notin ServicePhases
  /\ "DISCOVERED" \notin ServicePhases
  /\ "OPT_INFO" \notin ServicePhases /\ "OWNER_INFO" \notin ServicePhases
BY DEF ServicePhases, ServiceQuery, HealthPhases

(* No case of the switch touches the map, the states or the main thread.   *)
LEMMA SwitchCaseOn ==
  ASSUME SwitchCase
  PROVE  /\ monPC = "visiting" /\ monPC' # "sleeping"
         /\ UNCHANGED <<deviceMap, mgmtState, mainPC, target, cursor>>
BY DEF SwitchCase, HaltSelf, Adopt, StayActive, Skip, ReadOperationalInfo, ReadOwnerInfo,
     ReadServicesProvided, ReadServiceMappings, UpdateServiceMappings, UpdateHealth,
     UpdateStringReferences, DispatchCommand, NoCommand, Exchanging, Handling,
     GoOffline, GoTo, recordVars, mainVars

(* No record is ever removed, so none a thread works on disappears.        *)
LEMMA MapStep == TypeOK /\ MapInv /\ [Next]_vars => MapInv'
<1> SUFFICES ASSUME TypeOK, MapInv, [Next]_vars PROVE MapInv'
  OBVIOUS
<1> USE DEF MapInv
<1>1. ASSUME Wake \/ Sleep PROVE MapInv'
  BY <1>1 DEF Wake, Sleep, recordVars, mainVars
<1>2. ASSUME NEW d \in Device, Visit(d) PROVE MapInv'
  BY <1>2 DEF Visit, recordVars, mainVars
<1>3. ASSUME SwitchCase PROVE MapInv'
  BY <1>3, SwitchCaseOn
<1>4. ASSUME SendCommand \/ ContactThrows PROVE MapInv'
  BY <1>4 DEF SendCommand, ContactThrows, GoOffline, GoTo, recordVars, mainVars
<1>5. ASSUME CommitState \/ CommitWait PROVE MapInv'
  BY <1>5 DEF CommitState, CommitWait, TypeOK, recordVars, mainVars
<1>6. ASSUME NEW d \in Device, NotifyDiscoverAdd(d) PROVE MapInv'
  BY <1>6 DEF NotifyDiscoverAdd, TypeOK, monVars, mainVars
<1>7. ASSUME NEW d \in Device, PostCommand(d) PROVE MapInv'
  BY <1>7 DEF PostCommand, monVars
<1>8. ASSUME FinishPost PROVE MapInv'
  BY <1>8 DEF FinishPost, ReadCommand, ReadType, ReadName, RejectCommand, StartCommand, StartWait, TypeOK,
       recordVars, monVars
<1>9. CASE UNCHANGED vars
  BY <1>9 DEF vars, recordVars, monVars, mainVars
<1>10. QED
  BY <1>1, <1>2, <1>3, <1>4, <1>5, <1>6, <1>7, <1>8, <1>9 DEF Next, Monitor, Main

(* Every step keeps the ownership invariant.                               *)
LEMMA OwnedStep == OwnedInv /\ [Next]_vars => OwnedInv'
<1> SUFFICES ASSUME OwnedInv, [Next]_vars PROVE OwnedInv'
  OBVIOUS
<1> TypeOK /\ TypeOK' /\ MapInv /\ MapInv'
  BY TypeStep, MapStep DEF OwnedInv
<1> USE NotServicePhases DEF OwnedInv, ServicePhasesOwned, InHandOwned, StateInHand, Owned
<1>1. ASSUME Wake \/ Sleep PROVE OwnedInv'
  BY <1>1 DEF Wake, Sleep, recordVars
<1>2. ASSUME NEW d \in Device, Visit(d) PROVE OwnedInv'
  BY <1>2 DEF Visit, recordVars
<1>3. ASSUME SwitchCase PROVE OwnedInv'
  <2> monPC = "visiting" /\ cursor \in Device
    BY <1>3 DEF SwitchCase, HaltSelf, Adopt, StayActive, Skip, ReadOperationalInfo, ReadOwnerInfo,
         ReadServicesProvided, ReadServiceMappings, UpdateServiceMappings, UpdateHealth,
         UpdateStringReferences, DispatchCommand, NoCommand, Exchanging, Handling, TypeOK
  <2> ownerState \in [Device -> OwnerState]
    BY DEF TypeOK
  \* A case that writes no owner may go on to a service phase only from one.
  <2>1. ASSUME KeepOwner, NEW s, NEW min, GoTo(s, min), s \in ServicePhases => Owned(cursor)
        PROVE  OwnedInv'
    BY <2>1 DEF KeepOwner, GoTo
  \* A case that does write it works from a state outside the service phases.
  <2>2. ASSUME NEW o, SetOwner(o), seen \notin ServicePhases, NEW s, NEW min, GoTo(s, min),
               ownerFresh' \in {ownerFresh, ownerFresh \union {cursor}},
               s \in ServicePhases => o = "MINE" /\ cursor \in ownerFresh'
        PROVE  OwnedInv'
    BY <2>2 DEF SetOwner, GoTo
  <2>3. CASE HaltSelf
    BY <2>3, <2>2 DEF HaltSelf, Handling
  <2>4. CASE Adopt
    BY <2>4, <2>2 DEF Adopt, Handling
  <2>5. CASE StayActive
    BY <2>5, <2>1 DEF StayActive, Handling, ServicePhases
  <2>6. CASE Skip
    BY <2>6 DEF Skip, recordVars
  <2>7. CASE ReadOperationalInfo
    <3>1. ASSUME UNCHANGED ownerState PROVE KeepOwner
      BY <2>7, <3>1 DEF ReadOperationalInfo, KeepOwner
    <3>2. QED
      BY <2>7, <3>1, <2>1, <2>2 DEF ReadOperationalInfo, Exchanging, Handling, GoOffline
  <2>8. CASE ReadOwnerInfo
    BY <2>8, <2>1, <2>2, OwnerLeadsToState DEF ReadOwnerInfo, Exchanging, Handling, GoOffline
  <2>9. CASE ReadServicesProvided
    <3> seen \in ServicePhases
      BY <2>9 DEF ReadServicesProvided, Exchanging, Handling, ServicePhases, ServiceQuery
    <3> QED
      BY <2>9, <2>1 DEF ReadServicesProvided, GoOffline
  <2>10. CASE ReadServiceMappings
    <3> seen \in ServicePhases
      BY <2>10 DEF ReadServiceMappings, Exchanging, Handling, ServicePhases, ServiceQuery
    <3> QED
      BY <2>10, <2>1 DEF ReadServiceMappings
  <2>11. CASE UpdateServiceMappings
    <3> seen \in ServicePhases
      BY <2>11 DEF UpdateServiceMappings, Exchanging, Handling, ServicePhases, ServiceQuery
    <3> QED
      BY <2>11, <2>1 DEF UpdateServiceMappings, GoOffline
  <2>12. CASE UpdateHealth \/ UpdateStringReferences
    <3> seen \in ServicePhases
      BY <2>12 DEF UpdateHealth, UpdateStringReferences, Exchanging, Handling, ServicePhases, HealthPhases
    <3> QED
      BY <2>12, <2>1 DEF UpdateHealth, UpdateStringReferences
  \* The reading ages when a command is dispatched, from EXEC_CMD.
  <2>13. CASE DispatchCommand
    BY <2>13 DEF DispatchCommand, Handling
  <2>14. CASE NoCommand
    BY <2>14, <2>1 DEF NoCommand, GoOffline
  <2>15. QED
    BY <1>3, <2>3, <2>4, <2>5, <2>6, <2>7, <2>8, <2>9, <2>10, <2>11, <2>12, <2>13, <2>14
       DEF SwitchCase
<1>4. ASSUME SendCommand PROVE OwnedInv'
  BY <1>4 DEF SendCommand, GoOffline, GoTo, KeepOwner
<1>5. ASSUME ContactThrows PROVE OwnedInv'
  BY <1>5 DEF ContactThrows, recordVars
<1>6. ASSUME CommitState PROVE OwnedInv'
  BY <1>6 DEF CommitState, TypeOK
<1>7. ASSUME CommitWait PROVE OwnedInv'
  BY <1>7 DEF CommitWait, recordVars
<1>8. ASSUME NEW d \in Device, NotifyDiscoverAdd(d) PROVE OwnedInv'
  BY <1>8 DEF NotifyDiscoverAdd, TypeOK, MapInv, monVars
<1>9. ASSUME NEW d \in Device, PostCommand(d) PROVE OwnedInv'
  BY <1>9 DEF PostCommand, monVars
<1>10. ASSUME ReadCommand PROVE OwnedInv'
  BY <1>10 DEF ReadCommand, ReadType, ReadName, monVars
<1>11. ASSUME RejectCommand PROVE OwnedInv'
  BY <1>11 DEF RejectCommand, recordVars, monVars
<1>12. ASSUME StartCommand PROVE OwnedInv'
  BY <1>12 DEF StartCommand, monVars, TypeOK
<1>13. ASSUME StartWait PROVE OwnedInv'
  BY <1>13 DEF StartWait, recordVars, monVars
<1>14. CASE UNCHANGED vars
  BY <1>14 DEF vars, recordVars, monVars
<1>15. QED
  BY <1>1, <1>2, <1>3, <1>4, <1>5, <1>6, <1>7, <1>8, <1>9, <1>10, <1>11, <1>12, <1>13, <1>14
     DEF Next, Monitor, Main, FinishPost

(* What the monitor has in hand, like what is on record, is service work   *)
(* only for devices that are owned, whatever the main thread does between. *)
THEOREM OwnedInvariant == Spec => []OwnedInv
<1>1. Init => OwnedInv
  BY TypeAtInit, NotServicePhases
     DEF Init, OwnedInv, MapInv, ServicePhasesOwned, InHandOwned, StateInHand, Owned
<1>2. QED
  BY <1>1, OwnedStep, PTL DEF Spec

(* Service work only on devices whose latest reading says they are ours.   *)
THEOREM ServicesOnlyWhenOwned == Spec => []ServicePhasesOwned
BY OwnedInvariant, PTL DEF OwnedInv

(* The monitor's working state goes stale by a command and nothing else.   *)
THEOREM StateInHandHolds == Spec => []StateInHand
BY OwnedInvariant, PTL DEF OwnedInv

-----------------------------------------------------------------------------
(* Devices that stay. The monitor is about to commit a state only where    *)
(* the switch was entered with one it acts on, and the one it was entered  *)
(* with where it does no more than wait.                                   *)

ActedOn ==
  monPC = "commit" => seen \notin Parked /\ (seen \in Staying => next.state = seen)

(* Every step keeps that.                                                  *)
LEMMA ActedOnStep == OwnedInv /\ ActedOn /\ [Next]_vars => ActedOn'
<1> SUFFICES ASSUME OwnedInv, ActedOn, [Next]_vars PROVE ActedOn'
  OBVIOUS
<1> USE DEF ActedOn, Parked, Staying
<1>1. ASSUME SwitchCase PROVE ActedOn'
  BY <1>1 DEF SwitchCase, HaltSelf, Adopt, StayActive, Skip, ReadOperationalInfo, ReadOwnerInfo,
       ReadServicesProvided, ReadServiceMappings, UpdateServiceMappings, UpdateHealth,
       UpdateStringReferences, DispatchCommand, NoCommand, Exchanging, Handling, GoOffline, GoTo
<1>2. ASSUME SendCommand PROVE ActedOn'
  BY <1>2 DEF SendCommand, GoOffline, GoTo, OwnedInv
<1>3. ASSUME Monitor PROVE ActedOn'
  BY <1>1, <1>2, <1>3 DEF Monitor, Wake, Sleep, Visit, ContactThrows, CommitState, CommitWait
<1>4. ASSUME Main PROVE ActedOn'
  BY <1>4 DEF Main, FinishPost, NotifyDiscoverAdd, PostCommand, ReadCommand, ReadType, ReadName, RejectCommand,
       StartCommand, StartWait, monVars
<1>5. CASE UNCHANGED vars
  BY <1>5 DEF vars, monVars
<1>6. QED
  BY <1>3, <1>4, <1>5 DEF Next

(* What each step may do to the state of a record that is in the map.      *)
LEMMA WhoMovesRecords ==
  ASSUME TypeOK, [Next]_vars, NEW d \in deviceMap
  PROVE  /\ CommitState => mgmtState'[d] = IF cursor = d THEN next.state ELSE mgmtState[d]
         /\ ~CommitState => mgmtState'[d] \in {mgmtState[d], "EXEC_CMD"}
<1> d \in Device /\ mgmtState \in [Device -> MgmtState]
  BY DEF TypeOK
<1>1. ASSUME CommitState PROVE mgmtState'[d] = IF cursor = d THEN next.state ELSE mgmtState[d]
  BY <1>1 DEF CommitState
<1>2. ASSUME StartCommand PROVE mgmtState'[d] \in {mgmtState[d], "EXEC_CMD"}
  BY <1>2 DEF StartCommand
<1>3. ASSUME NEW e \in Device, NotifyDiscoverAdd(e) PROVE mgmtState'[d] = mgmtState[d]
  BY <1>3 DEF NotifyDiscoverAdd
<1>4. ASSUME SwitchCase PROVE mgmtState' = mgmtState
  BY <1>4, SwitchCaseOn
<1>5. ASSUME Monitor, ~CommitState, ~SwitchCase PROVE mgmtState' = mgmtState
  BY <1>5 DEF Monitor, Wake, Sleep, Visit, SendCommand, ContactThrows, CommitWait,
       GoOffline, GoTo, recordVars
<1>6. ASSUME FinishPost, ~StartCommand PROVE mgmtState' = mgmtState
  BY <1>6 DEF FinishPost, ReadCommand, ReadType, ReadName, RejectCommand, StartWait, recordVars
<1>7. ASSUME NEW e \in Device, PostCommand(e) PROVE mgmtState' = mgmtState
  BY <1>7 DEF PostCommand
<1>8. ASSUME UNCHANGED vars PROVE mgmtState' = mgmtState
  BY <1>8 DEF vars, recordVars
<1>9. ASSUME ~CommitState PROVE mgmtState'[d] \in {mgmtState[d], "EXEC_CMD"}
  BY <1>2, <1>3, <1>4, <1>5, <1>6, <1>7, <1>8, <1>9 DEF Next, Main
<1>10. QED
  BY <1>1, <1>9

(* The only step that moves a device that stays starts a command for it.   *)
LEMMA StayingStep ==
  ASSUME OwnedInv, ActedOn, [Next]_vars, NEW d \in deviceMap, mgmtState[d] \in Staying
  PROVE  mgmtState'[d] \in {mgmtState[d], "EXEC_CMD"}
<1>1. ASSUME CommitState, cursor = d PROVE next.state = mgmtState[d]
  BY <1>1 DEF CommitState, OwnedInv, StateInHand, ActedOn, Parked, Staying
<1>2. QED
  BY <1>1, WhoMovesRecords DEF OwnedInv

-----------------------------------------------------------------------------

(* The states the monitor leaves with the longest deadline.                *)
LEMMA NotDue ==
  /\ \A s \in Parked \union {"SELF", "DISCOVERED", "EXEC_CMD", "ACTIVE"} \union HealthPhases :
       s \notin Due /\ s # "OPT_INFO"
  /\ "OPT_INFO" \notin Due
BY DEF Due, ServiceQuery, HealthPhases, Parked

(* Where the switch asks to be called back sooner, it says so.             *)
LEMMA CasesAreDueMin ==
  ASSUME SwitchCase, monPC' = "commit"
  PROVE  DueMin(next')
<1> USE NotDue DEF DueMin, GoTo, GoOffline, HealthPhases, Parked
<1>1. CASE HaltSelf \/ Adopt \/ StayActive \/ NoCommand
  BY <1>1 DEF HaltSelf, Adopt, StayActive, NoCommand
<1>2. CASE ReadOperationalInfo \/ ReadOwnerInfo
  BY <1>2 DEF ReadOperationalInfo, ReadOwnerInfo
<1>3. CASE ReadServicesProvided \/ ReadServiceMappings \/ UpdateServiceMappings
  BY <1>3 DEF ReadServicesProvided, ReadServiceMappings, UpdateServiceMappings
<1>4. CASE UpdateHealth \/ UpdateStringReferences
  BY <1>4 DEF UpdateHealth, UpdateStringReferences
<1>5. CASE Skip \/ DispatchCommand
  BY <1>5 DEF Skip, DispatchCommand
<1>6. QED
  BY <1>1, <1>2, <1>3, <1>4, <1>5 DEF SwitchCase

(* Every step keeps what the walk owes the devices behind its cursor.      *)
LEMMA PromptStep == PromptInv /\ [Next]_vars => WalkInv' /\ PromptNextStep'
<1> SUFFICES ASSUME PromptInv, [Next]_vars PROVE WalkInv' /\ PromptNextStep'
  OBVIOUS
<1> OwnedInv /\ OwnedInv' /\ TypeOK /\ TypeOK' /\ MapInv /\ MapInv'
  BY OwnedStep DEF PromptInv, OwnedInv
<1> /\ cursor \in Nat /\ waitTime \in Nat /\ next.min \in Nat
    /\ \A d \in Device : d \in Nat /\ d # 0
  BY DeviceAssumption DEF TypeOK, Transition, Waits
<1> USE NotDue DEF PromptInv, WalkInv, PromptNextStep, Honours
<1>1. ASSUME Wake PROVE WalkInv' /\ PromptNextStep'
  BY <1>1 DEF Wake, recordVars
<1>2. ASSUME Sleep PROVE WalkInv' /\ PromptNextStep'
  BY <1>2 DEF Sleep, recordVars, MapInv, Parked
<1>3. ASSUME NEW d \in Device, Visit(d) PROVE WalkInv' /\ PromptNextStep'
  BY <1>3 DEF Visit, recordVars, MapInv, Parked
<1>4. ASSUME SwitchCase PROVE WalkInv' /\ PromptNextStep'
  <2>1. /\ monPC = "visiting" /\ monPC' # "sleeping"
        /\ UNCHANGED <<mgmtState, cursor>>
    BY <1>4, SwitchCaseOn
  <2>2. waitTime' = waitTime /\ monPC' \in {"commit", "walking", "executing"}
    BY <1>4 DEF SwitchCase, HaltSelf, Adopt, StayActive, Skip, ReadOperationalInfo, ReadOwnerInfo,
         ReadServicesProvided, ReadServiceMappings, UpdateServiceMappings, UpdateHealth,
         UpdateStringReferences, DispatchCommand, NoCommand, GoOffline, GoTo
  \* A device that is left alone is left in a state that is not due.
  <2>3. ASSUME monPC' = "walking" PROVE mgmtState[cursor] \in Parked \union {"EXEC_CMD"}
    <3>1. Skip
      BY <1>4, <2>3 DEF SwitchCase, HaltSelf, Adopt, StayActive, ReadOperationalInfo, ReadOwnerInfo,
         ReadServicesProvided, ReadServiceMappings, UpdateServiceMappings, UpdateHealth,
         UpdateStringReferences, DispatchCommand, NoCommand, GoOffline, GoTo
    <3>2. QED
      BY <3>1 DEF Skip, OwnedInv, StateInHand
  <2>4. QED
    BY <1>4, <2>1, <2>2, <2>3, CasesAreDueMin
<1>5. ASSUME SendCommand PROVE WalkInv' /\ PromptNextStep'
  BY <1>5 DEF SendCommand, GoOffline, GoTo, DueMin, Parked
<1>6. ASSUME ContactThrows PROVE WalkInv' /\ PromptNextStep'
  BY <1>6 DEF ContactThrows, recordVars
<1>7. ASSUME CommitState PROVE WalkInv' /\ PromptNextStep'
  <2>1. /\ monPC = "commit" /\ monPC' = "lowering"
        /\ UNCHANGED <<cursor, next, waitTime>>
        /\ cursor \in Device /\ mgmtState'[cursor] = next.state
        /\ \A d \in Device : d # cursor => mgmtState'[d] = mgmtState[d]
    BY <1>7 DEF CommitState, Lowers, TypeOK
  <2> monLowers' <=> next.min < waitTime
    BY <1>7, Zenon DEF CommitState, Lowers
  \* Had a device before the cursor been due, the wait would be 0 already.
  <2>2. ASSUME NEW d \in Device, d < cursor
        PROVE  Honours(d, waitTime)' /\ (monLowers' => Honours(d, next.min)')
    BY <2>1, <2>2
  <2>3. ~monLowers' => waitTime <= next.min
    BY <2>1
  <2>4. QED
    BY <2>1, <2>2, <2>3
<1>8. ASSUME CommitWait PROVE WalkInv' /\ PromptNextStep'
  BY <1>8 DEF CommitWait, recordVars, DueMin
<1>9. ASSUME NEW d \in Device, NotifyDiscoverAdd(d) PROVE WalkInv' /\ PromptNextStep'
  BY <1>9 DEF NotifyDiscoverAdd, monVars, TypeOK, MapInv
<1>10. ASSUME NEW d \in Device, PostCommand(d) PROVE WalkInv' /\ PromptNextStep'
  BY <1>10 DEF PostCommand, monVars
<1>11. ASSUME ReadCommand PROVE WalkInv' /\ PromptNextStep'
  BY <1>11 DEF ReadCommand, ReadType, ReadName, monVars
<1>12. ASSUME RejectCommand PROVE WalkInv' /\ PromptNextStep'
  BY <1>12 DEF RejectCommand, recordVars, monVars
<1>13. ASSUME StartCommand PROVE WalkInv' /\ PromptNextStep'
  BY <1>13 DEF StartCommand, MonitorHolds, monVars, TypeOK
<1>14. ASSUME StartWait PROVE WalkInv' /\ PromptNextStep'
  BY <1>14 DEF StartWait, recordVars, monVars
<1>15. CASE UNCHANGED vars
  BY <1>15 DEF vars, recordVars, monVars
<1>16. QED
  BY <1>1, <1>2, <1>3, <1>4, <1>5, <1>6, <1>7, <1>8, <1>9, <1>10, <1>11, <1>12, <1>13, <1>14, <1>15
     DEF Next, Monitor, Main, FinishPost

(* The monitor never sleeps longer than a device it left due can wait.     *)
THEOREM MonitorIsPrompt == Spec => []PromptNextStep
<1>1. Init => WalkInv /\ PromptNextStep
  BY NotDue DEF Init, WalkInv, PromptNextStep, Parked
<1>2. OwnedInv /\ WalkInv /\ PromptNextStep /\ [Next]_vars => WalkInv' /\ PromptNextStep'
  BY PromptStep DEF PromptInv
<1>3. QED
  BY <1>1, <1>2, OwnedInvariant, PTL DEF Spec

-----------------------------------------------------------------------------
(* The command being sent. Only a post rewrites it, so as long as none is  *)
(* under way for the device at dispatch, or begins later, it is stable.    *)

CommandInv ==
  /\ CommandInHand
  /\ monPC = "executing" /\ mainPC \in {"parsing", "fields"} /\ target = cursor => overtaken

(* Every step keeps that.                                                  *)
LEMMA CommandStep == TypeOK /\ CommandInv /\ [Next]_vars => CommandInv'
<1> SUFFICES ASSUME TypeOK, CommandInv, [Next]_vars PROVE CommandInv'
  OBVIOUS
<1> USE DEF CommandInv, CommandInHand
<1>1. CASE DispatchCommand
  <2>1. overtaken' <=> mainPC \in {"parsing", "fields"} /\ target = cursor
    BY <1>1, Zenon DEF DispatchCommand
  <2>2. QED
    BY <1>1, <2>1 DEF DispatchCommand, mainVars
<1>2. ASSUME SwitchCase, ~DispatchCommand PROVE CommandInv'
  BY <1>2 DEF SwitchCase, HaltSelf, Adopt, StayActive, Skip, ReadOperationalInfo, ReadOwnerInfo,
       ReadServicesProvided, ReadServiceMappings, UpdateServiceMappings, UpdateHealth,
       UpdateStringReferences, NoCommand, GoOffline, GoTo
<1>3. ASSUME Monitor, ~SwitchCase PROVE CommandInv'
  BY <1>3 DEF Monitor, Wake, Sleep, Visit, SendCommand, ContactThrows, CommitState, CommitWait,
       GoOffline, GoTo
<1>4. ASSUME NEW d \in Device, NotifyDiscoverAdd(d) PROVE CommandInv'
  BY <1>4 DEF NotifyDiscoverAdd, monVars, mainVars
<1>5. ASSUME NEW d \in Device, PostCommand(d) PROVE CommandInv'
  <2>1. overtaken' <=> overtaken \/ (monPC = "executing" /\ cursor = d)
    BY <1>5, Zenon DEF PostCommand
  <2>2. QED
    BY <1>5, <2>1 DEF PostCommand, monVars, TypeOK
<1>6. ASSUME ReadCommand PROVE CommandInv'
  BY <1>6 DEF ReadCommand, ReadType, ReadName, monVars, TypeOK
<1>7. ASSUME RejectCommand \/ StartCommand \/ StartWait PROVE CommandInv'
  BY <1>7 DEF RejectCommand, StartCommand, StartWait, recordVars, monVars
<1>8. CASE UNCHANGED vars
  BY <1>8 DEF vars, recordVars, monVars, mainVars
<1>9. QED
  BY <1>1, <1>2, <1>3, <1>4, <1>5, <1>6, <1>7, <1>8 DEF Next, Main, FinishPost

(* A command is sent with the fields it was dispatched with, unless the    *)
(* user posted another one for the device.                                 *)
THEOREM CommandSentWhole == Spec => []CommandInHand
<1>1. Init => CommandInv
  BY DEF Init, CommandInv, CommandInHand
<1>2. CommandInv => CommandInHand
  BY DEF CommandInv
<1>3. QED
  BY <1>1, <1>2, CommandStep, TypeCorrect, PTL DEF Spec

-----------------------------------------------------------------------------
(* The start of a command. It is not slept over because it has shortened   *)
(* the wait, or the walk has yet to come to its device, or is there with   *)
(* the command in hand.                                                    *)

Unmissed(d) ==
  \/ waitTime <= 2
  \/ d > cursor
  \/ d = cursor /\ monPC \in {"visiting", "executing", "commit"} /\ seen = "EXEC_CMD"

Walking == monPC \notin {"sleeping", "dead"}

StartInv ==
  /\ Walking => \A d \in armed : mgmtState[d] = "EXEC_CMD" => Unmissed(d)
  /\ mainPC = "starting" =>
       mgmtState[target] = "EXEC_CMD" /\ (Walking => mainLowers \/ Unmissed(target))
  /\ monPC \in {"commit", "lowering"} => next.state # "EXEC_CMD"
  /\ monPC = "lowering" /\ monLowers => next.min <= 2
  /\ monPC = "lowering" => mgmtState[cursor] = next.state
  /\ CommandNotSleptOver

(* A case of the switch leaves the command in hand or moves on from it.    *)
LEMMA SwitchCaseHand ==
  ASSUME SwitchCase
  PROVE  /\ UNCHANGED <<waitTime, armed, mainLowers, sleepFor>>
         /\ \/ seen \in Parked /\ monPC' = "walking"
            \/ seen' = seen /\ monPC' \in {"executing", "commit"}
         /\ monPC' = "commit" => next'.state # "EXEC_CMD"
<1> USE DEF Handling, Exchanging, GoOffline, GoTo, recordVars, mainVars
<1>1. CASE HaltSelf \/ Adopt \/ StayActive \/ NoCommand
  BY <1>1 DEF HaltSelf, Adopt, StayActive, NoCommand
<1>2. CASE ReadOperationalInfo \/ ReadOwnerInfo
  BY <1>2 DEF ReadOperationalInfo, ReadOwnerInfo, OwnerLeadsTo
<1>3. CASE ReadServicesProvided \/ ReadServiceMappings \/ UpdateServiceMappings
  BY <1>3 DEF ReadServicesProvided, ReadServiceMappings, UpdateServiceMappings
<1>4. CASE UpdateHealth \/ UpdateStringReferences
  BY <1>4 DEF UpdateHealth, UpdateStringReferences
<1>5. CASE Skip \/ DispatchCommand
  BY <1>5 DEF Skip, DispatchCommand
<1>6. QED
  BY <1>1, <1>2, <1>3, <1>4, <1>5 DEF SwitchCase

(* Every step keeps what is owed to a started command.                     *)
LEMMA StartStep == OwnedInv /\ StartInv /\ [Next]_vars => StartInv'
<1> SUFFICES ASSUME OwnedInv, StartInv, [Next]_vars PROVE StartInv'
  OBVIOUS
<1> TypeOK /\ TypeOK' /\ MapInv /\ MapInv' /\ StateInHand
  BY OwnedStep DEF OwnedInv
<1> /\ cursor \in Nat /\ waitTime \in Nat /\ next.min \in Nat /\ cursor' \in Nat /\ waitTime' \in Nat
    /\ \A d \in Device : d \in Nat /\ d > 0
  BY DeviceAssumption DEF TypeOK, Transition, Waits
<1> armed \subseteq Device
  BY DEF TypeOK
<1> USE DEF StartInv, Walking, Unmissed, CommandNotSleptOver
<1>1. ASSUME Wake PROVE StartInv'
  BY <1>1 DEF Wake, recordVars, TypeOK
<1>2. ASSUME Sleep PROVE StartInv'
  <2>1. \A d \in armed : mgmtState[d] = "EXEC_CMD" => d \in deviceMap
    BY DEF MapInv
  <2>2. QED
    BY <1>2, <2>1 DEF Sleep, recordVars, mainVars
<1>3. ASSUME NEW d \in Device, Visit(d) PROVE StartInv'
  <2>1. \A e \in Device : mgmtState[e] = "EXEC_CMD" /\ e > cursor => e >= d
    BY <1>3 DEF Visit, MapInv
  <2>2. mainPC = "starting" => target \in Device
    BY DEF TypeOK
  <2>3. /\ monPC = "walking" /\ monPC' = "visiting" /\ cursor' = d /\ seen' = mgmtState[d] /\ d > cursor
        /\ UNCHANGED <<mgmtState, armed, mainPC, target, mainLowers, waitTime, sleepFor>>
    BY <1>3 DEF Visit, recordVars, mainVars
  <2>4. ASSUME NEW e \in Device, mgmtState[e] = "EXEC_CMD", Unmissed(e) PROVE Unmissed(e)'
    BY <2>1, <2>3, <2>4
  <2>5. QED
    BY <2>2, <2>3, <2>4
<1>4. ASSUME SwitchCase PROVE StartInv'
  <2>1. "EXEC_CMD" \notin Parked
    BY DEF Parked
  <2>2. QED
    BY <1>4, <2>1, SwitchCaseOn, SwitchCaseHand
<1>5. ASSUME SendCommand PROVE StartInv'
  BY <1>5 DEF SendCommand, GoOffline, GoTo, mainVars
<1>6. ASSUME ContactThrows PROVE StartInv'
  BY <1>6 DEF ContactThrows, recordVars, mainVars
<1>7. ASSUME CommitState PROVE StartInv'
  <2>1. /\ monPC = "commit" /\ monPC' = "lowering"
        /\ UNCHANGED <<cursor, next, waitTime, armed, mainPC, target, mainLowers>>
        /\ mgmtState'[cursor] = next.state
        /\ \A d \in Device : d # cursor => mgmtState'[d] = mgmtState[d]
        /\ ~(mainPC = "starting" /\ target = cursor)
    BY <1>7 DEF CommitState, MainHolds, TypeOK, mainVars
  <2>2. monLowers' <=> next.min < waitTime
    BY <1>7, Zenon DEF CommitState, Lowers
  <2>3. monLowers' => next.min <= 2
    BY <2>2 DEF TypeOK, Transition, Waits
  <2>4. mainPC = "starting" => target \in Device
    BY DEF TypeOK
  <2>5. QED
    BY <2>1, <2>3, <2>4
<1>8. ASSUME CommitWait PROVE StartInv'
  BY <1>8 DEF CommitWait, recordVars, mainVars
<1>9. ASSUME NEW d \in Device, NotifyDiscoverAdd(d) PROVE StartInv'
  BY <1>9 DEF NotifyDiscoverAdd, monVars, mainVars, TypeOK, MapInv
<1>10. ASSUME NEW d \in Device, PostCommand(d) PROVE StartInv'
  BY <1>10 DEF PostCommand, monVars
<1>11. ASSUME ReadCommand \/ RejectCommand PROVE StartInv'
  BY <1>11 DEF ReadCommand, ReadType, ReadName, RejectCommand, recordVars, monVars
<1>12. ASSUME StartCommand PROVE StartInv'
  <2>1. mainLowers' <=> 0 < waitTime
    BY <1>12, Zenon DEF StartCommand, Lowers
  <2>2. /\ mgmtState'[target] = "EXEC_CMD" /\ armed' = armed \ {target}
        /\ \A d \in Device : d # target => mgmtState'[d] = mgmtState[d]
        /\ UNCHANGED <<monVars, waitTime, target>>
        /\ ~(monPC = "lowering" /\ cursor = target)
        /\ mainPC' = "starting" /\ target \in Device
    BY <1>12 DEF StartCommand, MonitorHolds, TypeOK
  <2>3. QED
    BY <2>1, <2>2 DEF monVars, TypeOK
<1>13. ASSUME StartWait PROVE StartInv'
  BY <1>13 DEF StartWait, recordVars, monVars
<1>14. CASE UNCHANGED vars
  BY <1>14 DEF vars, recordVars, monVars, mainVars
<1>15. QED
  BY <1>1, <1>2, <1>3, <1>4, <1>5, <1>6, <1>7, <1>8, <1>9, <1>10, <1>11, <1>12, <1>13, <1>14
     DEF Next, Monitor, Main, FinishPost

(* A command that was started in time is not slept over.                   *)
THEOREM CommandsAreNotSleptOver == Spec => []CommandNotSleptOver
<1>1. Init => StartInv
  BY DEF Init, StartInv, Walking, CommandNotSleptOver
<1>2. StartInv => CommandNotSleptOver
  BY DEF StartInv
<1>3. QED
  BY <1>1, <1>2, StartStep, OwnedInvariant, PTL DEF Spec

-----------------------------------------------------------------------------
(* The way to a settled state. What the monitor is about to commit is      *)
(* nearer than what the switch was entered with.                           *)

NearerInv ==
  monPC = "commit" =>
    IF StepsLeft(seen) = 0 THEN StepsLeft(next.state) = 0
                           ELSE StepsLeft(next.state) < StepsLeft(seen)

(* Every case of the switch leads on, and so does a command's answer.      *)
LEMMA SwitchLeadsOn ==
  ASSUME SwitchCase \/ SendCommand, monPC = "executing" => seen = "EXEC_CMD"
  PROVE  NearerInv'
<1> USE DEF NearerInv, StepsLeft, Handling, Exchanging, GoOffline, GoTo
<1>1. CASE HaltSelf \/ Adopt \/ StayActive \/ NoCommand
  BY <1>1 DEF HaltSelf, Adopt, StayActive, NoCommand
<1>2. CASE ReadOperationalInfo \/ ReadOwnerInfo
  BY <1>2 DEF ReadOperationalInfo, ReadOwnerInfo, OwnerLeadsTo
<1>3. CASE ReadServicesProvided \/ ReadServiceMappings \/ UpdateServiceMappings
  BY <1>3 DEF ReadServicesProvided, ReadServiceMappings, UpdateServiceMappings
<1>4. CASE UpdateHealth \/ UpdateStringReferences
  BY <1>4 DEF UpdateHealth, UpdateStringReferences
<1>5. CASE Skip \/ DispatchCommand
  BY <1>5 DEF Skip, DispatchCommand
<1>6. CASE SendCommand
  BY <1>6 DEF SendCommand
<1>7. QED
  BY <1>1, <1>2, <1>3, <1>4, <1>5, <1>6 DEF SwitchCase

(* Every step keeps it: the main thread does not touch what is in hand.    *)
LEMMA NearerInvStep == OwnedInv /\ NearerInv /\ [Next]_vars => NearerInv'
<1> SUFFICES ASSUME OwnedInv, NearerInv, [Next]_vars PROVE NearerInv'
  OBVIOUS
<1>1. CASE SwitchCase \/ SendCommand
  BY <1>1, SwitchLeadsOn DEF OwnedInv
<1>2. CASE monPC' # "commit"
  BY <1>2 DEF NearerInv
<1>3. ASSUME Monitor, ~(SwitchCase \/ SendCommand) PROVE monPC' # "commit"
  BY <1>3 DEF Monitor, Wake, Sleep, Visit, ContactThrows, CommitState, CommitWait
<1>4. CASE UNCHANGED monVars
  BY <1>4 DEF NearerInv, StepsLeft, monVars
<1>5. ASSUME Main \/ UNCHANGED vars PROVE UNCHANGED monVars
  BY <1>5 DEF Main, FinishPost, NotifyDiscoverAdd, PostCommand, ReadCommand, ReadType, ReadName, RejectCommand,
       StartCommand, StartWait, vars
<1>6. QED
  BY <1>1, <1>2, <1>3, <1>4, <1>5 DEF Next

(* A device has seven commits to go at most.                               *)
LEMMA StepsBounded == \A s \in MgmtState : StepsLeft(s) \in 0..7
BY DEF StepsLeft

(* A commit replaces the state the switch saw, or a command that came      *)
(* after, which has the longest way; no other step goes back.              *)
LEMMA NearerStep ==
  ASSUME OwnedInv, NearerInv, [Next]_vars, NEW d \in deviceMap
  PROVE  /\ mgmtState'[d] # "EXEC_CMD" => StepsLeft(mgmtState'[d]) <= StepsLeft(mgmtState[d])
         /\ CommitState /\ cursor = d /\ StepsLeft(mgmtState[d]) > 0
              => StepsLeft(mgmtState'[d]) < StepsLeft(mgmtState[d])
<1>1. d \in Device /\ mgmtState[d] \in MgmtState /\ seen \in MgmtState /\ next.state \in MgmtState
  BY DEF OwnedInv, TypeOK, Transition
<1>2. StepsLeft(mgmtState[d]) \in 0..7 /\ StepsLeft(seen) \in 0..7 /\ StepsLeft(next.state) \in 0..7
  BY <1>1, StepsBounded
<1>3. CASE CommitState /\ cursor = d
  <2>0. mgmtState'[d] = next.state
    BY <1>3, WhoMovesRecords DEF OwnedInv
  <2>1. mgmtState[d] \in {seen, "EXEC_CMD"}
    BY <1>3 DEF OwnedInv, StateInHand, CommitState
  <2>2. IF StepsLeft(seen) = 0 THEN StepsLeft(next.state) = 0
                               ELSE StepsLeft(next.state) < StepsLeft(seen)
    BY <1>3 DEF NearerInv, CommitState
  <2>3. StepsLeft("EXEC_CMD") = 7
    BY DEF StepsLeft
  <2>4. QED
    BY <1>2, <2>0, <2>1, <2>2, <2>3
<1>4. CASE ~(CommitState /\ cursor = d)
  <2>1. mgmtState'[d] \in {mgmtState[d], "EXEC_CMD"}
    BY <1>4, WhoMovesRecords DEF OwnedInv
  <2>2. QED
    BY <1>2, <1>4, <2>1
<1>5. QED
  BY <1>3, <1>4

(* Every commit brings its device nearer to a settled state, where it      *)
(* stays, and nothing but a command sends one back.                        *)
THEOREM OnlyCommandsSendBack == Spec => OnwardsUntilCommand
<1>1. Init => ActedOn /\ NearerInv
  BY DEF Init, ActedOn, NearerInv
<1>2. OwnedInv /\ ActedOn /\ NearerInv /\ [Next]_vars =>
        [\A d \in deviceMap :
           /\ mgmtState'[d] # "EXEC_CMD" =>
                /\ StepsLeft(mgmtState'[d]) <= StepsLeft(mgmtState[d])
                /\ mgmtState[d] \in Staying => mgmtState'[d] = mgmtState[d]
           /\ CommitState /\ cursor = d /\ StepsLeft(mgmtState[d]) > 0
                => StepsLeft(mgmtState'[d]) < StepsLeft(mgmtState[d])]_vars
  BY NearerStep, StayingStep
<1>3. QED
  BY <1>1, <1>2, ActedOnStep, NearerInvStep, OwnedInvariant, PTL DEF Spec, OnwardsUntilCommand

-----------------------------------------------------------------------------
(* Lost commands. A command that came for the device in hand after the     *)
(* switch read its state was started in this walk, or is being started and *)
(* has the device's mutex.                                                 *)

RaceInv ==
  /\ monPC \in {"visiting", "executing", "commit"}
  /\ mgmtState[cursor] = "EXEC_CMD" /\ seen # "EXEC_CMD"
  => cursor \in armed \/ MainHolds(cursor)

(* Every step keeps it: an armed device stays armed while the walk lasts,  *)
(* but for the time its next command holds the mutex.                      *)
LEMMA RaceInvStep == OwnedInv /\ RaceInv /\ [Next]_vars => RaceInv'
<1> SUFFICES ASSUME OwnedInv, RaceInv, [Next]_vars PROVE RaceInv'
  OBVIOUS
<1> USE DEF RaceInv, MainHolds
<1>1. ASSUME Wake \/ Sleep \/ ContactThrows \/ CommitState \/ CommitWait PROVE RaceInv'
  BY <1>1 DEF Wake, Sleep, ContactThrows, CommitState, CommitWait
<1>2. ASSUME NEW d \in Device, Visit(d) PROVE RaceInv'
  BY <1>2 DEF Visit, recordVars
<1>3. ASSUME SwitchCase PROVE RaceInv'
  <2>1. seen' = seen \/ monPC' = "walking"
    BY <1>3, SwitchCaseHand
  <2>2. QED
    BY <1>3, <2>1, SwitchCaseOn, SwitchCaseHand
<1>4. ASSUME SendCommand PROVE RaceInv'
  BY <1>4 DEF SendCommand, GoOffline, GoTo, OwnedInv
<1>5. ASSUME NEW d \in Device, NotifyDiscoverAdd(d) PROVE RaceInv'
  <2>1. monPC \in {"visiting", "executing", "commit"} => mgmtState'[cursor] = mgmtState[cursor]
    BY <1>5 DEF NotifyDiscoverAdd, OwnedInv, MapInv, TypeOK
  <2>2. QED
    BY <1>5, <2>1 DEF NotifyDiscoverAdd, monVars, mainVars
<1>6. ASSUME NEW d \in Device, PostCommand(d) PROVE RaceInv'
  BY <1>6 DEF PostCommand, monVars
<1>7. ASSUME ReadCommand \/ RejectCommand PROVE RaceInv'
  BY <1>7 DEF ReadCommand, ReadType, ReadName, RejectCommand, recordVars, monVars
<1>8. ASSUME StartCommand PROVE RaceInv'
  BY <1>8 DEF StartCommand, monVars, OwnedInv, TypeOK
<1>9. ASSUME StartWait PROVE RaceInv'
  BY <1>9 DEF StartWait, recordVars, monVars
<1>10. CASE UNCHANGED vars
  BY <1>10 DEF vars, recordVars, monVars, mainVars
<1>11. QED
  BY <1>1, <1>2, <1>3, <1>4, <1>5, <1>6, <1>7, <1>8, <1>9, <1>10 DEF Next, Monitor, Main, FinishPost

(* A command pending since before the walk is never lost by a commit.      *)
THEOREM CommandsLostByRaceOnly == Spec => OnlyRacedCommandsLost
<1>1. Init => RaceInv
  BY DEF Init, RaceInv
<1>2. ASSUME OwnedInv, RaceInv, [Next]_vars, NEW d \in deviceMap,
             mgmtState[d] = "EXEC_CMD", mgmtState'[d] # "EXEC_CMD"
      PROVE  seen = "EXEC_CMD" \/ d \in armed
  <2>1. CommitState /\ cursor = d
    BY <1>2, WhoMovesRecords DEF OwnedInv
  <2>2. QED
    BY <1>2, <2>1 DEF RaceInv, CommitState
<1>3. OwnedInv /\ RaceInv /\ [Next]_vars =>
        [\A d \in deviceMap :
           mgmtState[d] = "EXEC_CMD" /\ mgmtState'[d] # "EXEC_CMD"
             => seen = "EXEC_CMD" \/ d \in armed]_vars
  BY <1>2
<1>4. QED
  BY <1>1, <1>3, RaceInvStep, OwnedInvariant, PTL DEF Spec, OnlyRacedCommandsLost

=============================================================================
