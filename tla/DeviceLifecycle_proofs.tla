----------------------- MODULE DeviceLifecycle_proofs -----------------------
(* The arbiter's two threads implement the life cycle of every device, for *)
(* every set of devices: each step of theirs is a step of one device's     *)
(* life, or none.                                                          *)
EXTENDS ManagedDeviceArbiter_proofs

phases == [d \in Device |-> PhaseOf(mgmtState[d])]
ours   == {d \in ownerFresh : ownerState[d] = "MINE"}

-----------------------------------------------------------------------------
(* The strengthening. Where the owner has not been asked since the last    *)
(* command, no reading is on record; and what the monitor is about to      *)
(* commit is a move of the life cycle from what it had in hand.            *)

Unread == {"NOTSET", "SELF", "DISCOVERED", "OPT_INFO"}

HandMoves ==
  {<<"self", "self">>, <<"identifying", "identifying">>, <<"identifying", "serving">>,
   <<"identifying", "parked">>, <<"serving", "serving">>, <<"serving", "parked">>,
   <<"commanded", "identifying">>, <<"commanded", "parked">>}

ReadingInv ==
  /\ \A d \in Device : mgmtState[d] \in Unread => d \notin ownerFresh
  /\ monPC = "visiting" /\ seen \in Unread => cursor \notin ownerFresh
  /\ monPC = "executing" => cursor \notin ownerFresh
  /\ monPC = "commit" /\ next.state \in Unread \union {"OWNER_INFO"} => cursor \notin ownerFresh

MoveInv ==
  /\ \A d \in deviceMap : mgmtState[d] # "NOTSET"
  /\ \A d \in Device : mgmtState[d] = "SELF" => d = Self
  /\ monPC \in {"visiting", "commit"} /\ seen = "SELF" => cursor = Self
  /\ monPC \in {"visiting", "commit"} => seen # "NOTSET"
  /\ monPC = "commit" =>
       <<PhaseOf(seen), PhaseOf(next.state)>> \in HandMoves /\ next.state # "DISCOVERED"

LifeInv == OwnedInv /\ ReadingInv /\ MoveInv

-----------------------------------------------------------------------------
(* The phases of the states the switch moves between.                      *)
LEMMA PhasesOfStates ==
  /\ PhaseOf("NOTSET") = "absent" /\ PhaseOf("SELF") = "self" /\ PhaseOf("EXEC_CMD") = "commanded"
  /\ \A s \in {"DISCOVERED", "OPT_INFO", "OWNER_INFO"} : PhaseOf(s) = "identifying"
  /\ \A s \in ServicePhases : PhaseOf(s) = "serving"
  /\ \A s \in Parked \ {"NOTSET"} : PhaseOf(s) = "parked"
BY DEF PhaseOf, ServicePhases, ServiceQuery, HealthPhases, Parked

(* And back: only these states are in these phases.                        *)
LEMMA StatesOfPhases ==
  ASSUME NEW s \in MgmtState
  PROVE  /\ PhaseOf(s) = "absent" => s = "NOTSET"
         /\ PhaseOf(s) = "self" => s = "SELF"
         /\ PhaseOf(s) = "commanded" => s = "EXEC_CMD"
         /\ PhaseOf(s) = "serving" => s \in ServicePhases
         /\ PhaseOf(s) = "identifying" => s \in {"DISCOVERED", "OPT_INFO", "OWNER_INFO"}
BY DEF PhaseOf, MgmtState, ServicePhases, RestPhases, ServiceQuery, HealthPhases, Parked

(* Every case of the switch leads on within the life cycle.                *)
LEMMA CasesMove ==
  ASSUME SwitchCase, monPC' = "commit"
  PROVE  /\ seen' = seen
         /\ <<PhaseOf(seen), PhaseOf(next'.state)>> \in HandMoves /\ next'.state # "DISCOVERED"
         /\ next'.state \in Unread \union {"OWNER_INFO"} =>
              seen \in {"SELF", "DISCOVERED", "OPT_INFO"} /\ UNCHANGED ownerFresh
<1> USE PhasesOfStates DEF Handling, Exchanging, GoOffline, GoTo, KeepOwner, HandMoves, Unread,
      ServicePhases, ServiceQuery, HealthPhases, Parked
<1>1. CASE HaltSelf \/ Adopt \/ StayActive \/ NoCommand
  BY <1>1 DEF HaltSelf, Adopt, StayActive, NoCommand
<1>2. CASE ReadOperationalInfo
  BY <1>2 DEF ReadOperationalInfo
<1>3. CASE ReadOwnerInfo
  BY <1>3 DEF ReadOwnerInfo, OwnerLeadsTo
<1>4. CASE ReadServicesProvided \/ ReadServiceMappings \/ UpdateServiceMappings
  BY <1>4 DEF ReadServicesProvided, ReadServiceMappings, UpdateServiceMappings
<1>5. CASE UpdateHealth \/ UpdateStringReferences
  BY <1>5 DEF UpdateHealth, UpdateStringReferences
<1>6. CASE Skip \/ DispatchCommand
  BY <1>6 DEF Skip, DispatchCommand
<1>7. QED
  BY <1>1, <1>2, <1>3, <1>4, <1>5, <1>6 DEF SwitchCase

(* What a case of the switch does to the readings.                         *)
LEMMA CasesRead ==
  ASSUME SwitchCase, TypeOK
  PROVE  \/ ReadOwnerInfo
         \/ DispatchCommand
         \/ UNCHANGED ownerFresh /\ UNCHANGED ownerState
         \/ /\ UNCHANGED ownerFresh
            /\ seen \in Unread
            /\ \A d \in Device : d # cursor => ownerState'[d] = ownerState[d]
<1> USE DEF Handling, Exchanging, GoOffline, GoTo, KeepOwner, SetOwner, Unread, TypeOK
<1>1. CASE HaltSelf \/ Adopt \/ StayActive \/ NoCommand
  BY <1>1 DEF HaltSelf, Adopt, StayActive, NoCommand
<1>2. CASE ReadOperationalInfo
  BY <1>2 DEF ReadOperationalInfo
<1>3. CASE ReadServicesProvided \/ ReadServiceMappings \/ UpdateServiceMappings
  BY <1>3 DEF ReadServicesProvided, ReadServiceMappings, UpdateServiceMappings
<1>4. CASE UpdateHealth \/ UpdateStringReferences
  BY <1>4 DEF UpdateHealth, UpdateStringReferences
<1>5. CASE Skip
  BY <1>5 DEF Skip, recordVars
<1>6. QED
  BY <1>1, <1>2, <1>3, <1>4, <1>5 DEF SwitchCase

-----------------------------------------------------------------------------
(* Every step keeps what is known of the readings.                         *)
LEMMA ReadingStep == LifeInv /\ [Next]_vars => ReadingInv'
<1> SUFFICES ASSUME LifeInv, [Next]_vars PROVE ReadingInv'
  OBVIOUS
<1> OwnedInv /\ TypeOK /\ MapInv /\ StateInHand /\ MoveInv
  BY DEF LifeInv, OwnedInv
<1> USE DEF LifeInv, ReadingInv, Unread
<1>1. ASSUME Wake \/ Sleep PROVE ReadingInv'
  BY <1>1 DEF Wake, Sleep, recordVars
<1>2. ASSUME NEW d \in Device, Visit(d) PROVE ReadingInv'
  BY <1>2 DEF Visit, recordVars
<1>3. CASE DispatchCommand
  BY <1>3 DEF DispatchCommand
<1>4. CASE ReadOwnerInfo
  <2>1. /\ seen = "OWNER_INFO" /\ monPC' = "commit" /\ next'.state \notin Unread \union {"OWNER_INFO"}
        /\ ownerFresh' \in {ownerFresh, ownerFresh \union {cursor}}
        /\ UNCHANGED <<mgmtState, cursor>>
    BY <1>4 DEF ReadOwnerInfo, Exchanging, Handling, GoOffline, GoTo, KeepOwner, OwnerLeadsTo
  <2>2. mgmtState[cursor] \notin Unread
    BY <1>4, <2>1 DEF StateInHand, ReadOwnerInfo, Exchanging, Handling
  <2>3. QED
    BY <2>1, <2>2
<1>5. ASSUME SwitchCase, ~DispatchCommand, ~ReadOwnerInfo PROVE ReadingInv'
  <2>1. UNCHANGED <<ownerFresh, mgmtState, cursor>> /\ monPC = "visiting"
    BY <1>5, CasesRead, SwitchCaseOn
  <2>2. monPC' \in {"walking", "commit"}
    BY <1>5 DEF SwitchCase, HaltSelf, Adopt, StayActive, Skip, ReadOperationalInfo,
         ReadServicesProvided, ReadServiceMappings, UpdateServiceMappings, UpdateHealth,
         UpdateStringReferences, NoCommand, GoOffline, GoTo
  <2>3. QED
    BY <1>5, <2>1, <2>2, CasesMove
<1>6. ASSUME SendCommand PROVE ReadingInv'
  BY <1>6 DEF SendCommand, GoOffline, GoTo, KeepOwner
<1>7. ASSUME ContactThrows PROVE ReadingInv'
  BY <1>7 DEF ContactThrows, recordVars
<1>8. ASSUME CommitState PROVE ReadingInv'
  BY <1>8 DEF CommitState, TypeOK
<1>9. ASSUME CommitWait PROVE ReadingInv'
  BY <1>9 DEF CommitWait, recordVars
<1>10. ASSUME NEW d \in Device, NotifyDiscoverAdd(d) PROVE ReadingInv'
  BY <1>10 DEF NotifyDiscoverAdd, TypeOK, MapInv, monVars
<1>11. ASSUME NEW d \in Device, PostCommand(d) PROVE ReadingInv'
  BY <1>11 DEF PostCommand, monVars
<1>12. ASSUME ReadCommand \/ RejectCommand PROVE ReadingInv'
  BY <1>12 DEF ReadCommand, ReadType, ReadName, RejectCommand, recordVars, monVars
<1>13. ASSUME StartCommand PROVE ReadingInv'
  BY <1>13 DEF StartCommand, monVars, TypeOK
<1>14. ASSUME StartWait PROVE ReadingInv'
  BY <1>14 DEF StartWait, recordVars, monVars
<1>15. CASE UNCHANGED vars
  BY <1>15 DEF vars, recordVars, monVars
<1>16. QED
  BY <1>1, <1>2, <1>3, <1>4, <1>5, <1>6, <1>7, <1>8, <1>9, <1>10, <1>11, <1>12, <1>13, <1>14, <1>15
     DEF Next, Monitor, Main, FinishPost

(* Every step keeps the moves within the life cycle.                       *)
LEMMA MoveStep == LifeInv /\ [Next]_vars => MoveInv'
<1> SUFFICES ASSUME LifeInv, [Next]_vars PROVE MoveInv'
  OBVIOUS
<1> OwnedInv /\ TypeOK /\ MapInv /\ StateInHand
  BY DEF LifeInv, OwnedInv
<1> USE DEF LifeInv, MoveInv
<1>1. ASSUME Wake \/ Sleep PROVE MoveInv'
  BY <1>1 DEF Wake, Sleep, recordVars
<1>2. ASSUME NEW d \in Device, Visit(d) PROVE MoveInv'
  BY <1>2 DEF Visit, recordVars
<1>3. ASSUME SwitchCase PROVE MoveInv'
  <2>1. monPC' \in {"walking", "commit", "executing"}
    BY <1>3 DEF SwitchCase, HaltSelf, Adopt, StayActive, Skip, ReadOperationalInfo, ReadOwnerInfo,
         ReadServicesProvided, ReadServiceMappings, UpdateServiceMappings, UpdateHealth,
         UpdateStringReferences, DispatchCommand, NoCommand, GoOffline, GoTo
  <2>2. QED
    BY <1>3, <2>1, SwitchCaseOn, CasesMove
<1>4. ASSUME SendCommand PROVE MoveInv'
  <2>1. seen = "EXEC_CMD"
    BY <1>4 DEF SendCommand, OwnedInv
  <2>2. PhaseOf("OFFLINE") = "parked"
    BY PhasesOfStates DEF Parked
  <2>3. QED
    BY <1>4, <2>1, <2>2, PhasesOfStates DEF SendCommand, GoOffline, GoTo, HandMoves
<1>5. ASSUME ContactThrows PROVE MoveInv'
  BY <1>5 DEF ContactThrows, recordVars
<1>6. ASSUME CommitState PROVE MoveInv'
  <2>1. next.state \in MgmtState /\ <<PhaseOf(seen), PhaseOf(next.state)>> \in HandMoves
    BY <1>6 DEF CommitState, TypeOK, Transition
  <2>2. next.state # "NOTSET" /\ (next.state = "SELF" => PhaseOf(seen) = "self")
    BY <2>1, PhasesOfStates DEF HandMoves
  <2>3. next.state = "SELF" => cursor = Self
    BY <1>6, <2>2, StatesOfPhases DEF CommitState, TypeOK
  <2>4. QED
    BY <1>6, <2>2, <2>3 DEF CommitState, TypeOK
<1>7. ASSUME CommitWait PROVE MoveInv'
  BY <1>7 DEF CommitWait, recordVars
<1>8. ASSUME NEW d \in Device, NotifyDiscoverAdd(d) PROVE MoveInv'
  BY <1>8 DEF NotifyDiscoverAdd, TypeOK, monVars
<1>9. ASSUME NEW d \in Device, PostCommand(d) PROVE MoveInv'
  BY <1>9 DEF PostCommand, monVars
<1>10. ASSUME ReadCommand \/ RejectCommand PROVE MoveInv'
  BY <1>10 DEF ReadCommand, ReadType, ReadName, RejectCommand, recordVars, monVars
<1>11. ASSUME StartCommand PROVE MoveInv'
  BY <1>11 DEF StartCommand, monVars, TypeOK
<1>12. ASSUME StartWait PROVE MoveInv'
  BY <1>12 DEF StartWait, recordVars, monVars
<1>13. CASE UNCHANGED vars
  BY <1>13 DEF vars, recordVars, monVars
<1>14. QED
  BY <1>1, <1>2, <1>3, <1>4, <1>5, <1>6, <1>7, <1>8, <1>9, <1>10, <1>11, <1>12, <1>13
     DEF Next, Monitor, Main, FinishPost

(* The strengthened invariant holds in every reachable state.              *)
LEMMA LifeInvariant == Spec => []LifeInv
<1>1. Init => LifeInv
  BY TypeAtInit, NotServicePhases
     DEF Init, LifeInv, OwnedInv, MapInv, ServicePhasesOwned, InHandOwned, StateInHand,
         ReadingInv, Unread, MoveInv
<1>2. LifeInv /\ [Next]_vars => LifeInv'
  BY OwnedStep, ReadingStep, MoveStep DEF LifeInv
<1>3. QED
  BY <1>1, <1>2, PTL DEF Spec

-----------------------------------------------------------------------------
(* The mapping. A step that writes one record's state moves one device.    *)
LEMMA OneMoves ==
  ASSUME TypeOK, NEW d \in Device, NEW s, mgmtState' = [mgmtState EXCEPT ![d] = s],
         UNCHANGED <<ownerFresh, ownerState>>
  PROVE  Lifecycle!Moves(d, PhaseOf(mgmtState[d]), PhaseOf(s))
<1>1. phases' = [phases EXCEPT ![d] = PhaseOf(s)]
  BY DEF TypeOK, phases
<1>2. phases[d] = PhaseOf(mgmtState[d]) /\ ours' = ours
  BY DEF phases, ours
<1>3. QED
  BY <1>1, <1>2 DEF Lifecycle!Moves, phases, ours

(* A step that writes none, and leaves the readings alone, is a stutter.   *)
LEMMA NoneMoves ==
  ASSUME UNCHANGED mgmtState, ours' = ours
  PROVE  UNCHANGED Lifecycle!vars
BY DEF Lifecycle!vars, ours

(* What a device is known to be is a matter of the device in hand.         *)
LEMMA CasesKnow ==
  ASSUME LifeInv, SwitchCase
  PROVE  Lifecycle!Next \/ UNCHANGED Lifecycle!vars
<1> TypeOK /\ StateInHand /\ ReadingInv /\ UNCHANGED mgmtState /\ monPC = "visiting"
  BY SwitchCaseOn DEF LifeInv, OwnedInv
<1> cursor \in Device
  BY DEF TypeOK
<1>0. PICK d \in Device : d = cursor
  OBVIOUS
<1> phases' = phases
  BY DEF phases
<1>1. CASE ReadOwnerInfo
  <2>1. mgmtState[cursor] \in {"OWNER_INFO", "EXEC_CMD"}
    BY <1>1 DEF ReadOwnerInfo, Exchanging, Handling, StateInHand
  <2>2. phases[cursor] \in {"identifying", "commanded"}
    BY <2>1, PhasesOfStates DEF phases
  <2>3. ours' \in {ours \union {cursor}, ours \ {cursor}} \/ ours' = ours
    BY <1>1 DEF ReadOwnerInfo, SetOwner, KeepOwner, ours, TypeOK
  <2>4. CASE ours' = ours
    BY <2>4, NoneMoves
  <2>5. CASE ours' \in {ours \union {cursor}, ours \ {cursor}}
    <3>1. Lifecycle!ReadOwner(d)
      BY <1>0, <2>2, <2>5 DEF Lifecycle!ReadOwner, phases, ours
    <3>2. QED
      BY <3>1 DEF Lifecycle!Next
  <2>6. QED
    BY <2>3, <2>4, <2>5
<1>2. CASE DispatchCommand
  <2>1. mgmtState[cursor] = "EXEC_CMD" /\ ours' = ours \ {cursor}
    BY <1>2 DEF DispatchCommand, Handling, StateInHand, ours
  <2>2. phases[cursor] = "commanded"
    BY <2>1, PhasesOfStates DEF phases
  <2>3. Lifecycle!Execute(d)
    BY <1>0, <2>1, <2>2 DEF Lifecycle!Execute, phases, ours
  <2>4. QED
    BY <2>3 DEF Lifecycle!Next
<1>3. CASE UNCHANGED ownerFresh /\ UNCHANGED ownerState
  BY <1>3, NoneMoves DEF ours
<1>4. ASSUME UNCHANGED ownerFresh, seen \in Unread,
             \A e \in Device : e # cursor => ownerState'[e] = ownerState[e]
      PROVE  UNCHANGED Lifecycle!vars
  <2>1. cursor \notin ownerFresh /\ ownerFresh \subseteq Device
    BY <1>4 DEF ReadingInv, TypeOK
  <2>2. QED
    BY <1>4, <2>1, NoneMoves DEF ours
<1>5. QED
  BY <1>1, <1>2, <1>3, <1>4, CasesRead

(* The commit is the move the monitor had in hand, or loses a command.     *)
LEMMA CommitMoves ==
  ASSUME LifeInv, CommitState
  PROVE  Lifecycle!Next \/ UNCHANGED Lifecycle!vars
<1> DEFINE d == cursor
           to == PhaseOf(next.state)
<1>1. /\ TypeOK /\ d \in Device /\ monPC = "commit" /\ seen \in MgmtState /\ next.state \in MgmtState
      /\ mgmtState[d] \in {seen, "EXEC_CMD"}
      /\ <<PhaseOf(seen), to>> \in HandMoves /\ next.state # "DISCOVERED"
      /\ seen = "SELF" => d = Self
      /\ next.state \in ServicePhases => Owned(d)
      /\ next.state \in Unread \union {"OWNER_INFO"} => d \notin ownerFresh
  BY DEF LifeInv, OwnedInv, TypeOK, Transition, StateInHand, InHandOwned, MoveInv, ReadingInv, CommitState
<1>2. Lifecycle!Moves(d, PhaseOf(mgmtState[d]), to)
  BY <1>1, OneMoves DEF CommitState
<1>3. to = "serving" => d \in ours
  BY <1>1, StatesOfPhases DEF Owned, ours
<1>4. to = "identifying" => d \notin ours
  BY <1>1, StatesOfPhases DEF Unread, ours
<1>5. to = "self" => d = Self
  BY <1>1, StatesOfPhases DEF HandMoves
<1> HIDE DEF to
<1>6. CASE PhaseOf(mgmtState[d]) = "commanded"
  <2>1. to \in {"self", "identifying", "serving", "parked"}
    BY <1>1 DEF HandMoves
  <2>2. Lifecycle!Lose(d) \/ Lifecycle!Reidentify(d) \/ Lifecycle!Park(d)
    BY <1>2, <1>3, <1>4, <1>5, <1>6, <2>1
       DEF Lifecycle!Lose, Lifecycle!Reidentify, Lifecycle!Park, ours
  <2>3. QED
    BY <1>1, <2>2 DEF Lifecycle!Next
<1>7. CASE PhaseOf(mgmtState[d]) # "commanded"
  <2>1. <<PhaseOf(mgmtState[d]), to>> \in HandMoves
    BY <1>1, <1>7, PhasesOfStates
  <2>2. CASE PhaseOf(mgmtState[d]) = to
    <3>1. phases' = phases /\ ours' = ours
      BY <2>2, <1>1 DEF phases, ours, CommitState, to, TypeOK
    <3>2. QED
      BY <3>1 DEF Lifecycle!vars, phases, ours
  <2>3. CASE PhaseOf(mgmtState[d]) # to
    <3>1. Lifecycle!Serve(d) \/ Lifecycle!Park(d)
      BY <1>2, <1>3, <1>7, <2>1, <2>3 DEF HandMoves, Lifecycle!Serve, Lifecycle!Park, ours
    <3>2. QED
      BY <1>1, <3>1 DEF Lifecycle!Next
  <2>4. QED
    BY <2>2, <2>3
<1>8. QED
  BY <1>6, <1>7

(* Every step of the threads is one of a device's life, or none.           *)
LEMMA LifeStep == LifeInv /\ LifeInv' /\ [Next]_vars => [Lifecycle!Next]_(Lifecycle!vars)
<1> SUFFICES ASSUME LifeInv, LifeInv', [Next]_vars
             PROVE  Lifecycle!Next \/ UNCHANGED Lifecycle!vars
  OBVIOUS
<1> TypeOK /\ MapInv
  BY DEF LifeInv, OwnedInv
<1>1. ASSUME UNCHANGED <<mgmtState, ownerFresh, ownerState>> PROVE UNCHANGED Lifecycle!vars
  BY <1>1, NoneMoves DEF ours
<1>2. CASE SwitchCase
  BY <1>2, CasesKnow
<1>3. CASE CommitState
  BY <1>3, CommitMoves
<1>4. ASSUME Monitor, ~SwitchCase, ~CommitState
      PROVE  UNCHANGED <<mgmtState, ownerFresh, ownerState>>
  BY <1>4 DEF Monitor, Wake, Sleep, Visit, SendCommand, ContactThrows, CommitWait,
       GoOffline, GoTo, KeepOwner, recordVars
<1>5. ASSUME NEW d \in Device, NotifyDiscoverAdd(d), mgmtState' # mgmtState
      PROVE  Lifecycle!Discover(d)
  <2>1. /\ mgmtState[d] = "NOTSET"
        /\ mgmtState' = [mgmtState EXCEPT ![d] = IF d = Self THEN "SELF" ELSE "DISCOVERED"]
        /\ UNCHANGED <<ownerFresh, ownerState>>
    BY <1>5 DEF NotifyDiscoverAdd, MapInv
  <2>2. Lifecycle!Moves(d, "absent", PhaseOf(IF d = Self THEN "SELF" ELSE "DISCOVERED"))
    BY <2>1, OneMoves, PhasesOfStates
  <2>3. QED
    BY <2>2, PhasesOfStates DEF Lifecycle!Discover
<1>6. ASSUME NEW d \in Device, NotifyDiscoverAdd(d) \/ PostCommand(d)
      PROVE  UNCHANGED <<ownerFresh, ownerState>> /\ (PostCommand(d) => UNCHANGED mgmtState)
  BY <1>6 DEF NotifyDiscoverAdd, PostCommand
<1>7. CASE StartCommand
  <2>1. target \in deviceMap /\ target \in Device /\ mgmtState[target] # "NOTSET"
    BY <1>7 DEF StartCommand, MapInv, LifeInv, MoveInv, TypeOK
  <2>2. mgmtState[target] \in MgmtState
    BY <2>1 DEF TypeOK
  <2>3. PhaseOf(mgmtState[target]) \in Lifecycle!Phase \ {"absent"}
    BY <2>1, <2>2, StatesOfPhases DEF PhaseOf, Lifecycle!Phase
  <2>4. Lifecycle!Moves(target, PhaseOf(mgmtState[target]), "commanded")
    BY <1>7, <2>1, OneMoves, PhasesOfStates DEF StartCommand
  <2>5. Lifecycle!Post(target)
    BY <2>3, <2>4 DEF Lifecycle!Post
  <2>6. QED
    BY <2>1, <2>5 DEF Lifecycle!Next
<1>8. ASSUME FinishPost, ~StartCommand PROVE UNCHANGED <<mgmtState, ownerFresh, ownerState>>
  BY <1>8 DEF FinishPost, ReadCommand, ReadType, ReadName, RejectCommand, StartWait, recordVars
<1>9. CASE UNCHANGED vars
  BY <1>1, <1>9 DEF vars, recordVars
<1>10. CASE Main
  <2>1. ASSUME NEW d \in Device, NotifyDiscoverAdd(d) \/ PostCommand(d)
        PROVE  Lifecycle!Next \/ UNCHANGED Lifecycle!vars
    BY <1>1, <1>5, <1>6, <2>1 DEF Lifecycle!Next
  <2>2. QED
    BY <1>10, <1>1, <1>7, <1>8, <2>1 DEF Main
<1>11. QED
  BY <1>1, <1>2, <1>3, <1>4, <1>9, <1>10 DEF Next

(* The arbiter implements the life cycle of its devices.                   *)
THEOREM ArbiterImplementsLifecycle == Spec => ImplementsLifecycle
<1>1. Init => Lifecycle!Init
  BY PhasesOfStates DEF Init, Lifecycle!Init
<1>2. QED
  BY <1>1, LifeStep, LifeInvariant, PTL DEF Spec, ImplementsLifecycle, Lifecycle!Spec

-----------------------------------------------------------------------------
(* The order of service work. The device in hand stays at the stage it was *)
(* read at, so of the whole visit only the commit moves it.                *)

stages == [d \in Device |-> StageOf(IF InHand(d) THEN seen ELSE mgmtState[d])]

(* The moves of the order: the beginning, the end, what follows, or none.  *)
InOrder(from, to) == to = from \/ to \in {"none", "provided"} \/ <<from, to>> \in Order!Following

CommitInv == monPC = "commit" => InOrder(StageOf(seen), StageOf(next.state))

LEMMA StagesOfStates ==
  /\ StageOf("SRV_PROVIDE_INFO") = "provided" /\ StageOf("SRV_MAPPING_INFO") = "desired"
  /\ StageOf("SRV_MAP_UPDATE") = "put"
  /\ \A s \in HealthPhases : StageOf(s) = "polled"
  /\ \A s \in Parked \union {"SELF", "DISCOVERED", "OPT_INFO", "OWNER_INFO", "ACTIVE", "EXEC_CMD"} : StageOf(s) = "none"
BY DEF StageOf, HealthPhases, Parked

(* Every case of the switch leads on in the order.                         *)
LEMMA CasesInOrder ==
  ASSUME SwitchCase, monPC' = "commit"
  PROVE  seen' = seen /\ InOrder(StageOf(seen), StageOf(next'.state))
<1> USE StagesOfStates DEF Handling, Exchanging, GoOffline, GoTo, KeepOwner, InOrder, Order!Following, HealthPhases, Parked
<1>1. CASE HaltSelf \/ Adopt \/ StayActive \/ NoCommand
  BY <1>1 DEF HaltSelf, Adopt, StayActive, NoCommand
<1>2. CASE ReadOperationalInfo
  BY <1>2 DEF ReadOperationalInfo
<1>3. CASE ReadOwnerInfo
  BY <1>3 DEF ReadOwnerInfo, OwnerLeadsTo
<1>4. CASE ReadServicesProvided \/ ReadServiceMappings \/ UpdateServiceMappings
  BY <1>4 DEF ReadServicesProvided, ReadServiceMappings, UpdateServiceMappings
<1>5. CASE UpdateHealth \/ UpdateStringReferences
  BY <1>5 DEF UpdateHealth, UpdateStringReferences
<1>6. CASE Skip \/ DispatchCommand
  BY <1>6 DEF Skip, DispatchCommand
<1>7. QED
  BY <1>1, <1>2, <1>3, <1>4, <1>5, <1>6 DEF SwitchCase

(* The only other exchange that is committed is a command's.               *)
LEMMA CommitStep == CommitInv /\ [Next]_vars => CommitInv'
<1> SUFFICES ASSUME CommitInv, [Next]_vars, monPC' = "commit" PROVE InOrder(StageOf(seen'), StageOf(next'.state))
  BY DEF CommitInv
<1>1. CASE UNCHANGED <<monPC, seen, next>>
  BY <1>1 DEF CommitInv
<1>2. CASE SwitchCase
  BY <1>2, CasesInOrder
<1>3. CASE SendCommand
  BY <1>3, StagesOfStates DEF SendCommand, GoOffline, GoTo, InOrder, Parked
<1>4. ASSUME Monitor, ~SwitchCase, ~SendCommand PROVE FALSE
  BY <1>4 DEF Monitor, Wake, Sleep, Visit, ContactThrows, CommitState, CommitWait
<1>5. CASE Main
  BY <1>1, <1>5 DEF Main, NotifyDiscoverAdd, PostCommand, FinishPost, ReadCommand, ReadType, ReadName, RejectCommand,
                    StartCommand, StartWait, monVars
<1>6. CASE UNCHANGED vars
  BY <1>1, <1>6 DEF vars, monVars
<1>7. QED
  BY <1>2, <1>3, <1>4, <1>5, <1>6 DEF Next

(* A device that changes its stage by itself does so in the order.         *)
LEMMA OneInOrder ==
  ASSUME NEW d \in Device, InOrder(stages[d], stages'[d]),
         \A e \in Device : e # d => stages'[e] = stages[e]
  PROVE  Order!Next \/ UNCHANGED Order!vars
<1>1. stages' = [stages EXCEPT ![d] = stages'[d]]
  BY DEF stages
<1>2. CASE stages'[d] = stages[d]
  <2>1. stages' = stages
    BY <1>1, <1>2 DEF stages
  <2>2. QED
    BY <2>1 DEF Order!vars, stages
<1>3. CASE stages'[d] \in {"none", "provided"}
  BY <1>1, <1>3 DEF Order!Next, Order!Begin, Order!Leave, stages
<1>4. CASE <<stages[d], stages'[d]>> \in Order!Following
  <2>1. Order!Proceed(d)
    BY <1>1, <1>4 DEF Order!Proceed, stages
  <2>2. QED
    BY <2>1 DEF Order!Next
<1>5. QED
  BY <1>2, <1>3, <1>4 DEF InOrder

LEMMA NoneInOrder ==
  ASSUME \A d \in Device : (IF InHand(d) THEN seen ELSE mgmtState[d])' = IF InHand(d) THEN seen ELSE mgmtState[d]
  PROVE  UNCHANGED Order!vars
<1>1. stages' = stages
  BY DEF stages
<1>2. QED
  BY <1>1 DEF Order!vars, stages

LEMMA OrderStep == LifeInv /\ CommitInv /\ [Next]_vars => [Order!Next]_(Order!vars)
<1> SUFFICES ASSUME LifeInv, CommitInv, [Next]_vars PROVE Order!Next \/ UNCHANGED Order!vars
  OBVIOUS
<1> TypeOK /\ MapInv /\ StateInHand /\ 0 \notin Device
  BY DeviceAssumption DEF LifeInv, OwnedInv
<1> USE DEF InHand
<1>1. CASE UNCHANGED <<cursor, monPC, seen, mgmtState>>
  BY <1>1, NoneInOrder
<1>2. CASE Wake \/ Sleep \/ CommitWait
  BY <1>2, NoneInOrder DEF Wake, Sleep, CommitWait, recordVars
<1>3. ASSUME NEW d \in Device, Visit(d) PROVE UNCHANGED Order!vars
  BY <1>3, NoneInOrder DEF Visit, recordVars
<1>4. CASE SwitchCase
  <2>1. monPC = "visiting" /\ UNCHANGED <<mgmtState, cursor>> /\ cursor \in Device
    BY <1>4, SwitchCaseOn DEF TypeOK
  <2>2. CASE Skip
    <3>1. /\ seen \in Parked /\ mgmtState[cursor] \in {seen, "EXEC_CMD"}
          /\ monPC' = "walking"
      BY <2>2 DEF Skip, StateInHand
    <3>2. stages[cursor] = "none" /\ stages'[cursor] = "none"
      BY <2>1, <3>1, StagesOfStates DEF stages
    <3>3. \A e \in Device : e # cursor => stages'[e] = stages[e]
      BY <2>1, <3>1 DEF stages
    <3>4. QED
      BY <2>1, <3>2, <3>3, OneInOrder DEF InOrder
  <2>3. CASE ~Skip
    <3>1. monPC' \in {"commit", "executing"} /\ seen' = seen
      BY <1>4, <2>3 DEF SwitchCase, HaltSelf, Adopt, StayActive, ReadOperationalInfo, ReadOwnerInfo,
           ReadServicesProvided, ReadServiceMappings, UpdateServiceMappings, UpdateHealth,
           UpdateStringReferences, DispatchCommand, NoCommand, GoOffline, GoTo
    <3>2. QED
      BY <2>1, <3>1, NoneInOrder
  <2>4. QED
    BY <2>2, <2>3
<1>5. CASE SendCommand \/ ContactThrows
  BY <1>5, NoneInOrder DEF SendCommand, ContactThrows, GoOffline, GoTo, recordVars
<1>6. CASE CommitState
  <2>1. /\ monPC = "commit" /\ monPC' = "lowering" /\ cursor \in Device /\ cursor' = cursor
        /\ mgmtState' = [mgmtState EXCEPT ![cursor] = next.state]
    BY <1>6 DEF CommitState, TypeOK
  <2>2. stages[cursor] = StageOf(seen) /\ stages'[cursor] = StageOf(next.state)
    BY <2>1 DEF stages, TypeOK
  <2>3. \A e \in Device : e # cursor => stages'[e] = stages[e]
    BY <2>1 DEF stages, TypeOK
  <2>4. QED
    BY <2>1, <2>2, <2>3, OneInOrder DEF CommitInv
<1>7. ASSUME NEW d \in Device, NotifyDiscoverAdd(d) PROVE UNCHANGED Order!vars
  <2>1. UNCHANGED <<cursor, monPC, seen>>
    BY <1>7 DEF NotifyDiscoverAdd, monVars
  <2>2. CASE mgmtState' = mgmtState
    BY <1>1, <2>1, <2>2, NoneInOrder
  <2>3. CASE mgmtState' # mgmtState
    <3>1. /\ mgmtState[d] = "NOTSET"
          /\ mgmtState' = [mgmtState EXCEPT ![d] = IF d = Self THEN "SELF" ELSE "DISCOVERED"]
      BY <1>7, <2>3 DEF NotifyDiscoverAdd, MapInv
    <3>2. StageOf(mgmtState[d]) = "none" /\ StageOf(mgmtState'[d]) = "none"
      BY <3>1, StagesOfStates DEF TypeOK, Parked
    <3>3. \A e \in Device : StageOf((IF InHand(e) THEN seen ELSE mgmtState[e])') = StageOf(IF InHand(e) THEN seen ELSE mgmtState[e])
      BY <2>1, <3>1, <3>2 DEF TypeOK
    <3>4. stages' = stages
      BY <3>3 DEF stages
    <3>5. QED
      BY <3>4 DEF Order!vars, stages
  <2>4. QED
    BY <2>2, <2>3
<1>8. CASE StartCommand
  <2>1. /\ target \in Device /\ mgmtState' = [mgmtState EXCEPT ![target] = "EXEC_CMD"]
        /\ UNCHANGED <<cursor, monPC, seen>>
    BY <1>8 DEF StartCommand, TypeOK, monVars
  <2>2. stages'[target] \in {stages[target], "none"}
    BY <2>1, StagesOfStates DEF stages, TypeOK
  <2>3. \A e \in Device : e # target => stages'[e] = stages[e]
    BY <2>1 DEF stages, TypeOK
  <2>4. QED
    BY <2>1, <2>2, <2>3, OneInOrder DEF InOrder
<1>9. CASE Monitor
  BY <1>2, <1>3, <1>4, <1>5, <1>6, <1>9 DEF Monitor
<1>10. CASE Main
  BY <1>1, <1>7, <1>8, <1>10 DEF Main, PostCommand, FinishPost, ReadCommand, ReadType, ReadName, RejectCommand,
                              StartWait, recordVars, monVars
<1>11. CASE UNCHANGED vars
  BY <1>1, <1>11 DEF vars, recordVars, monVars
<1>12. QED
  BY <1>9, <1>10, <1>11 DEF Next

(* The arbiter works on every device's services in the order ServiceMaps   *)
(* goes by, whichever commands overtake it.                                *)
THEOREM ArbiterKeepsOrder == Spec => ImplementsOrder
<1>1. Init => CommitInv
  BY DEF Init, CommitInv
<1>2. Init => Order!Init
  BY StagesOfStates DEF Init, Order!Init, InHand, Parked
<1>3. QED
  BY <1>1, <1>2, CommitStep, OrderStep, LifeInvariant, PTL DEF Spec, ImplementsOrder, Order!Spec

=============================================================================
