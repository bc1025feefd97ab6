-------------------------- MODULE DeviceRecord_proofs -------------------------
(* Theorems about a device record, for any number of mutexes, addresses    *)
(* and announcements: the mutex's first, then the address list's.          *)
EXTENDS DeviceRecord, TLAPS

-----------------------------------------------------------------------------
(* The mutex. As long as nothing disturbed it: a thread that makes the     *)
(* mutex is alone with the record, and what it made is there and not       *)
(* locked; the record's mutex is there; and no copy points to one.         *)
MakerAlone ==
  \A t, u \in Thread :
    pc[t] \in {"creating", "storing"} => deviceMutex = Null /\ (u # t => pc[u] = "outside")

MadeReady == \A t \in Thread : pc[t] = "storing" => fresh[t] \in alive /\ holder[fresh[t]] = Nobody

MutexThere == (deviceMutex # Null => deviceMutex \in alive) /\ copyMutex = Null

HeldInside == \A t \in Thread : pc[t] = "inside" => holder[deviceMutex] = t

MutexInv == TypeOK /\ (~disturbed => MakerAlone /\ MadeReady /\ MutexThere /\ HeldInside)

(* Every step of the mutex keeps the types.                                *)
LEMMA MutexTypeStep == TypeOK /\ [Next]_vars => TypeOK'
<1> SUFFICES ASSUME TypeOK, [Next]_vars PROVE TypeOK'
  OBVIOUS
<1> USE MutexAssumption, NobodyAssumption DEF TypeOK, Place, At, Go
<1>1. ASSUME NEW t \in Thread, CheckMutex(t) PROVE TypeOK'
  BY <1>1 DEF CheckMutex, NeedsMutex
<1>2. ASSUME NEW t \in Thread, NEW m \in Mutex, NewMutex(t, m) PROVE TypeOK'
  BY <1>2 DEF NewMutex
<1>3. ASSUME NEW t \in Thread, StoreMutex(t) \/ Lock(t) PROVE TypeOK'
  BY <1>3 DEF StoreMutex, Lock
<1>4. ASSUME NEW t \in Thread, Unlock(t) PROVE TypeOK'
  BY <1>4 DEF Unlock
<1>5. ASSUME UnlockAgain \/ GetDeviceCopy \/ DestroyCopy PROVE TypeOK'
  BY <1>5 DEF UnlockAgain, GetDeviceCopy, DestroyCopy
<1>6. CASE UNCHANGED vars
  BY <1>6 DEF vars
<1>7. QED
  BY <1>1, <1>2, <1>3, <1>4, <1>5, <1>6 DEF Next, LockForUpdate

(* Every step of the mutex keeps what excludes.                            *)
LEMMA MutexStep == MutexInv /\ [Next]_vars => MutexInv'
<1> SUFFICES ASSUME MutexInv, [Next]_vars PROVE MutexInv'
  OBVIOUS
<1>0. TypeOK /\ TypeOK'
  BY MutexTypeStep DEF MutexInv
<1> SUFFICES ASSUME ~disturbed' PROVE MakerAlone' /\ MadeReady' /\ MutexThere' /\ HeldInside'
  BY <1>0 DEF MutexInv
<1>u. ~disturbed
  BY DEF Next, LockForUpdate, CheckMutex, NewMutex, StoreMutex, Lock, Unlock, UnlockAgain, GetDeviceCopy, DestroyCopy, vars
<1>k. MakerAlone /\ MadeReady /\ MutexThere /\ HeldInside
  BY <1>u DEF MutexInv
<1> USE <1>0, <1>k, MutexAssumption, NobodyAssumption DEF At, Go, TypeOK, Place
<1>1. ASSUME NEW t \in Thread, CheckMutex(t)
      PROVE  MakerAlone' /\ MadeReady' /\ MutexThere' /\ HeldInside'
  <2>1. \A u \in Thread : pc[u] \notin {"creating", "storing"}
    BY <1>1 DEF CheckMutex, Creating
  <2>2. /\ UNCHANGED <<deviceMutex, copyMutex, alive, holder, fresh>>
        /\ pc' = [pc EXCEPT ![t] = IF deviceMutex = Null THEN "creating" ELSE "locking"]
    BY <1>1 DEF CheckMutex, NeedsMutex
  <2>3. MakerAlone'
    BY <2>1, <2>2 DEF MakerAlone
  <2>4. MadeReady' /\ MutexThere' /\ HeldInside'
    BY <2>1, <2>2 DEF MadeReady, MutexThere, HeldInside
  <2>5. QED
    BY <2>3, <2>4
<1>2. ASSUME NEW t \in Thread, NEW m \in Mutex, NewMutex(t, m)
      PROVE  MakerAlone' /\ MadeReady' /\ MutexThere' /\ HeldInside'
  <2>1. /\ m \notin alive /\ alive' = alive \union {m} /\ pc[t] = "creating"
        /\ holder' = [holder EXCEPT ![m] = Nobody] /\ fresh' = [fresh EXCEPT ![t] = m]
        /\ pc' = [pc EXCEPT ![t] = "storing"]
        /\ UNCHANGED <<deviceMutex, copyMutex>>
    BY <1>2 DEF NewMutex
  <2>2. deviceMutex = Null /\ \A u \in Thread : u # t => pc[u] = "outside"
    BY <2>1 DEF MakerAlone
  <2>3. QED
    BY <2>1, <2>2 DEF MakerAlone, MadeReady, MutexThere, HeldInside
<1>3. ASSUME NEW t \in Thread, StoreMutex(t)
      PROVE  MakerAlone' /\ MadeReady' /\ MutexThere' /\ HeldInside'
  <2>1. /\ pc[t] = "storing" /\ deviceMutex' = fresh[t] /\ fresh' = [fresh EXCEPT ![t] = Null]
        /\ pc' = [pc EXCEPT ![t] = "locking"]
        /\ UNCHANGED <<copyMutex, alive, holder>>
    BY <1>3 DEF StoreMutex
  <2>2. \A u \in Thread : u # t => pc[u] = "outside"
    BY <2>1 DEF MakerAlone
  <2>3. QED
    BY <2>1, <2>2 DEF MakerAlone, MadeReady, MutexThere, HeldInside
<1>4. ASSUME NEW t \in Thread, Lock(t)
      PROVE  MakerAlone' /\ MadeReady' /\ MutexThere' /\ HeldInside'
  <2>1. /\ pc[t] = "locking" /\ holder[deviceMutex] = Nobody
        /\ holder' = [holder EXCEPT ![deviceMutex] = t] /\ pc' = [pc EXCEPT ![t] = "inside"]
        /\ UNCHANGED <<deviceMutex, copyMutex, alive, fresh>>
    BY <1>4 DEF Lock
  <2>2. \A u \in Thread : pc[u] \notin {"creating", "storing", "inside"}
    BY <2>1 DEF MakerAlone, HeldInside
  <2>3. QED
    BY <2>1, <2>2 DEF MakerAlone, MadeReady, MutexThere, HeldInside
<1>5. ASSUME NEW t \in Thread, Unlock(t)
      PROVE  MakerAlone' /\ MadeReady' /\ MutexThere' /\ HeldInside'
  <2>1. /\ pc[t] = "inside" /\ holder[deviceMutex] = t
        /\ holder' = [holder EXCEPT ![deviceMutex] = Nobody] /\ pc' = [pc EXCEPT ![t] = "outside"]
        /\ UNCHANGED <<deviceMutex, copyMutex, alive, fresh>>
    BY <1>5 DEF Unlock
  <2>2. \A u \in Thread : u # t => pc[u] \notin {"creating", "storing", "inside"}
    BY <2>1 DEF MakerAlone, HeldInside
  <2>3. QED
    BY <2>1, <2>2 DEF MakerAlone, MadeReady, MutexThere, HeldInside
<1>6. ASSUME UnlockAgain
      PROVE  MakerAlone' /\ MadeReady' /\ MutexThere' /\ HeldInside'
  <2>1. /\ holder[deviceMutex] = Nobody /\ holder' = [holder EXCEPT ![deviceMutex] = Nobody]
        /\ UNCHANGED <<deviceMutex, copyMutex, alive, fresh, pc>>
    BY <1>6 DEF UnlockAgain
  <2>2. holder' = holder
    BY <2>1
  <2>3. QED
    BY <2>1, <2>2 DEF MakerAlone, MadeReady, MutexThere, HeldInside
<1>7. ASSUME GetDeviceCopy \/ DestroyCopy
      PROVE  MakerAlone' /\ MadeReady' /\ MutexThere' /\ HeldInside'
  <2>1. UNCHANGED <<deviceMutex, holder, pc, fresh>>
    BY <1>7 DEF GetDeviceCopy, DestroyCopy
  <2>2. copyMutex' = Null
    BY <1>7 DEF GetDeviceCopy, DestroyCopy, MutexThere
  <2>3. CASE GetDeviceCopy
    BY <2>1, <2>2, <2>3 DEF GetDeviceCopy, MakerAlone, MadeReady, MutexThere, HeldInside
  <2>4. CASE DestroyCopy
    <3>1. alive' = alive \ {Null}
      BY <2>4 DEF DestroyCopy, MutexThere
    <3>2. alive' = alive
      BY <3>1
    <3>3. QED
      BY <2>1, <2>2, <3>2 DEF MakerAlone, MadeReady, MutexThere, HeldInside
  <2>5. QED
    BY <1>7, <2>3, <2>4
<1>8. CASE UNCHANGED vars
  BY <1>8 DEF vars, MakerAlone, MadeReady, MutexThere, HeldInside
<1>9. QED
  BY <1>1, <1>2, <1>3, <1>4, <1>5, <1>6, <1>7, <1>8 DEF Next, LockForUpdate

LEMMA MutexInit == Init => MutexInv
<1> SUFFICES ASSUME Init PROVE MutexInv
  OBVIOUS
<1>1. \A t \in Thread : pc[t] = "outside" /\ fresh[t] = Null
  BY DEF Init
<1>2. TypeOK
  BY <1>1 DEF Init, TypeOK, Place
<1>3. QED
  BY <1>1, <1>2 DEF Init, MutexInv, MakerAlone, MadeReady, MutexThere, HeldInside

LEMMA MutexExcludes == MutexInv => UndisturbedExcludes
<1> SUFFICES ASSUME MutexInv, ~disturbed PROVE UndisturbedExcludes
  BY DEF UndisturbedExcludes
<1>1. \A t \in Thread : pc[t] = "inside" => deviceMutex \in Mutex /\ holder[deviceMutex] = t
  BY DEF MutexInv, TypeOK, HeldInside
<1>2. \A t \in Thread : pc[t] = "inside" => deviceMutex \in alive
  BY <1>1, MutexAssumption DEF MutexInv, MutexThere
<1>3. QED
  BY <1>1, <1>2 DEF UndisturbedExcludes, At, Thread

(* Every step of the record is one of the mutex or leaves it alone.        *)
LEMMA RecordStepsMutex == [RecordNext]_recordVars => [Next]_vars
<1>1. MonitorMutex \/ MainMutex => Next
  BY DEF MonitorMutex, MainMutex, Next, Thread
<1>2. QED
  BY <1>1 DEF RecordNext, recordVars, UpdateRecord, SetAddressInfo, BeginLookup, CheckEntry, CopyName, CopyPort, Copied, LookupMisled

LEMMA MutexInvariant == RecordSpec => []MutexInv
<1>1. RecordInit => MutexInv
  BY MutexInit DEF RecordInit
<1>2. MutexInv /\ [RecordNext]_recordVars => MutexInv'
  BY MutexStep, RecordStepsMutex
<1>3. QED
  BY <1>1, <1>2, PTL DEF RecordSpec

(* A thread that is to lock or unlock finds a mutex in the record.         *)
THEOREM MutexTypeCorrect == RecordSpec => []TypeOK
<1>1. MutexInv => TypeOK
  BY DEF MutexInv
<1>2. QED
  BY <1>1, MutexInvariant, PTL

(* The mutex of a record excludes its two threads until one of the three   *)
(* things happens that undo it: a raced first lock, a copy, a foreign      *)
(* unlock.                                                                 *)
THEOREM MutexRight == RecordSpec => []UndisturbedExcludes
<1>1. MutexInv => UndisturbedExcludes
  BY MutexExcludes DEF MutexInv
<1>2. QED
  BY <1>1, MutexInvariant, PTL

-----------------------------------------------------------------------------
(* The list. Every announced address has one entry, which says what was    *)
(* last told of it unless it is being rewritten, and then its name may     *)
(* already be the new one.                                                 *)
ListInv ==
  /\ \A a \in Address : told[a] # Unset => \E i \in DOMAIN addrList : addrList[i].address = a
  /\ \A i, j \in DOMAIN addrList : addrList[i].address = addrList[j].address => i = j
  /\ \A i \in DOMAIN addrList :
       LET e == addrList[i]
       IN  told[e.address] # Unset /\ (i # updating => e.name = told[e.address] /\ e.port = told[e.address])

(* The lookup, until it is misled: it has passed no address it looks for,  *)
(* and the entry it copies from is of the type and not being rewritten.    *)
Passed ==
  /\ looking \in 1..Len(addrList) + 1
  /\ \A j \in DOMAIN addrList : j < looking => Type(addrList[j].address) # PreferredType

Copying ==
  LET e == addrList[looking]
  IN  /\ looking \in DOMAIN addrList /\ looking # updating
      /\ Type(e.address) = PreferredType /\ connInfo.address = e.address
      /\ connInfo.name \in {Unset, e.name} /\ connInfo.port \in {Unset, e.port}

LookupInv ==
  ~misled => /\ lookup = "seeking" => Passed
             /\ lookup = "reading" => Copying

RecordInv == ListTypeOK /\ ListInv /\ LookupInv

LEMMA RecordStep == RecordInv /\ [RecordNext]_recordVars => RecordInv'
<1> SUFFICES ASSUME RecordInv, [RecordNext]_recordVars PROVE RecordInv'
  OBVIOUS
<1> USE AddressAssumption DEF Seeking, Reading
<1>k. ListTypeOK /\ ListInv /\ LookupInv
  BY DEF RecordInv
<1>t. /\ addrList \in Seq(Entry) /\ addrList # <<>>
      /\ told \in [Address -> Version \union {Unset}]
      /\ updating \in {0} \union DOMAIN addrList
      /\ looking \in Nat
      /\ DOMAIN addrList = 1..Len(addrList) /\ Len(addrList) \in Nat
      /\ \A i \in DOMAIN addrList : addrList[i] \in Entry
  BY <1>k DEF ListTypeOK
<1> SUFFICES ListTypeOK' /\ ListInv' /\ LookupInv'
  BY DEF RecordInv
<1>1. ASSUME NEW a \in Address, NEW v \in Version, UpdateRecord(a, v), KnownAt(a) = {}
      PROVE  ListTypeOK' /\ ListInv' /\ LookupInv'
  <2> DEFINE e == [address |-> a, name |-> v, port |-> v]
  <2>1. /\ updating = 0 /\ addrList' = Append(addrList, e) /\ told' = [told EXCEPT ![a] = v]
        /\ UNCHANGED <<updating, lookup, looking, connInfo>>
        /\ \E moved \in BOOLEAN : misled' = (misled \/ (moved /\ Seeking))
    BY <1>1 DEF UpdateRecord
  <2>2. e \in Entry
    BY DEF Entry
  <2>3. /\ addrList' \in Seq(Entry) /\ Len(addrList') = Len(addrList) + 1
        /\ DOMAIN addrList' = 1..Len(addrList) + 1
        /\ \A i \in DOMAIN addrList : addrList'[i] = addrList[i]
        /\ addrList'[Len(addrList) + 1] = e
    <3> HIDE DEF e
    <3>1. QED
      BY <1>t, <2>1, <2>2
  <2>4. misled' \in BOOLEAN /\ (~misled' => ~misled)
    BY <1>k, <2>1 DEF ListTypeOK
  <2>5. ListTypeOK'
    BY <1>k, <1>t, <2>1, <2>3, <2>4 DEF ListTypeOK
  <2>6. \A i \in DOMAIN addrList : addrList[i].address # a /\ addrList[i].address \in Address
    BY <1>1, <1>t DEF KnownAt, Entry
  <2>7. ListInv'
    <3>1. \A b \in Address : told'[b] # Unset => \E i \in DOMAIN addrList' : addrList'[i].address = b
      BY <1>k, <1>t, <2>1, <2>3 DEF ListInv
    <3>2. \A i, j \in DOMAIN addrList' : addrList'[i].address = addrList'[j].address => i = j
      BY <1>k, <1>t, <2>3, <2>6 DEF ListInv
    <3>3. ASSUME NEW i \in DOMAIN addrList'
          PROVE  /\ told'[addrList'[i].address] # Unset
                 /\ addrList'[i].name = told'[addrList'[i].address] /\ addrList'[i].port = told'[addrList'[i].address]
      <4>1. CASE i = Len(addrList) + 1
        BY <1>t, <2>1, <2>3, <4>1
      <4>2. CASE i \in DOMAIN addrList
        BY <1>k, <1>t, <2>1, <2>3, <2>6, <4>2 DEF ListInv
      <4>3. QED
        BY <1>t, <2>3, <4>1, <4>2
    <3>4. QED
      BY <3>1, <3>2, <3>3 DEF ListInv
  <2>8. LookupInv'
    <3>1. ASSUME ~misled', lookup = "seeking" PROVE Passed'
      BY <1>k, <1>t, <2>1, <2>3, <2>4, <3>1 DEF LookupInv, Passed
    <3>2. ASSUME ~misled', lookup = "reading" PROVE Copying'
      BY <1>k, <1>t, <2>1, <2>3, <2>4, <3>2 DEF LookupInv, Copying
    <3>3. QED
      BY <2>1, <3>1, <3>2 DEF LookupInv
  <2>9. QED
    BY <2>5, <2>7, <2>8
<1>2. ASSUME NEW a \in Address, NEW v \in Version, UpdateRecord(a, v), KnownAt(a) # {}
      PROVE  ListTypeOK' /\ ListInv' /\ LookupInv'
  <2>1. /\ updating = 0 /\ updating' \in KnownAt(a) /\ told' = [told EXCEPT ![a] = v]
        /\ misled' = (misled \/ Reading(updating'))
        /\ UNCHANGED <<addrList, lookup, looking, connInfo>>
    BY <1>2 DEF UpdateRecord
  <2>2. updating' \in DOMAIN addrList /\ addrList[updating'].address = a
    BY <2>1 DEF KnownAt
  <2>3. misled' \in BOOLEAN /\ (~misled' => ~misled /\ ~(lookup = "reading" /\ looking = updating'))
    BY <1>k, <2>1, Zenon DEF ListTypeOK, Reading
  <2>4. ListTypeOK'
    BY <1>k, <1>t, <2>1, <2>2, <2>3 DEF ListTypeOK
  <2>5. ListInv'
    BY <1>k, <1>t, <2>1, <2>2 DEF ListInv, Entry
  <2>6. LookupInv'
    BY <1>k, <2>1, <2>3 DEF LookupInv, Passed, Copying
  <2>7. QED
    BY <2>4, <2>5, <2>6
<1>3. ASSUME SetAddressInfo
      PROVE  ListTypeOK' /\ ListInv' /\ LookupInv'
  <2> DEFINE e   == addrList[updating]
             new == told[e.address]
             f   == IF e.name # new THEN [address |-> e.address, name |-> new, port |-> e.port]
                                    ELSE [address |-> e.address, name |-> e.name, port |-> new]
  <2>1. /\ updating # 0 /\ addrList' = [addrList EXCEPT ![updating] = f]
        /\ updating' = IF e.name # new THEN updating ELSE 0
        /\ UNCHANGED <<told, lookup, looking, connInfo, misled>>
    BY <1>3 DEF SetAddressInfo, lookupVars
  <2>2. updating \in DOMAIN addrList /\ e \in Entry
    BY <1>t, <2>1
  <2>3. new \in Version
    BY <1>k, <1>t, <2>2 DEF ListInv, Entry
  <2>4. f \in Entry /\ f.address = e.address
    BY <2>2, <2>3 DEF Entry
  <2>5. updating' = 0 => f.name = new /\ f.port = new
    BY <2>1
  <2> HIDE DEF f
  <2>6. /\ addrList' \in Seq(Entry) /\ Len(addrList') = Len(addrList) /\ DOMAIN addrList' = DOMAIN addrList
        /\ addrList'[updating] = f
        /\ \A i \in DOMAIN addrList : i # updating => addrList'[i] = addrList[i]
    BY <1>t, <2>1, <2>2, <2>4
  <2>7. \A i \in DOMAIN addrList : addrList'[i].address = addrList[i].address
    BY <2>4, <2>6
  <2>8. ListTypeOK'
    BY <1>k, <1>t, <2>1, <2>2, <2>6 DEF ListTypeOK
  <2>9. ListInv'
    <3>1. \A a \in Address : told'[a] # Unset => \E i \in DOMAIN addrList' : addrList'[i].address = a
      BY <1>k, <2>1, <2>6, <2>7 DEF ListInv
    <3>2. \A i, j \in DOMAIN addrList' : addrList'[i].address = addrList'[j].address => i = j
      BY <1>k, <2>6, <2>7 DEF ListInv
    <3>3. ASSUME NEW i \in DOMAIN addrList'
          PROVE  /\ told'[addrList'[i].address] # Unset
                 /\ i # updating' => /\ addrList'[i].name = told'[addrList'[i].address]
                                     /\ addrList'[i].port = told'[addrList'[i].address]
      <4>1. CASE i = updating
        BY <1>k, <2>1, <2>2, <2>4, <2>5, <2>6, <4>1 DEF ListInv
      <4>2. CASE i # updating
        BY <1>k, <2>1, <2>6, <4>2 DEF ListInv
      <4>3. QED
        BY <4>1, <4>2
    <3>4. QED
      BY <3>1, <3>2, <3>3 DEF ListInv
  <2>10. LookupInv'
    <3>1. ASSUME ~misled, lookup = "seeking" PROVE Passed'
      BY <1>k, <2>1, <2>6, <2>7, <3>1 DEF LookupInv, Passed
    <3>2. ASSUME ~misled, lookup = "reading" PROVE Copying'
      BY <1>k, <1>t, <2>1, <2>6, <2>7, <3>2 DEF LookupInv, Copying
    <3>3. QED
      BY <2>1, <3>1, <3>2 DEF LookupInv
  <2>11. QED
    BY <2>8, <2>9, <2>10
<1>4. ASSUME BeginLookup
      PROVE  ListTypeOK' /\ ListInv' /\ LookupInv'
  <2>1. /\ UNCHANGED <<addrList, told, updating, connInfo>>
        /\ lookup' = "seeking" /\ looking' = 1 /\ misled' = FALSE
    BY <1>4 DEF BeginLookup, listVars
  <2>2. ListTypeOK' /\ ListInv'
    BY <1>k, <1>t, <2>1 DEF ListTypeOK, ListInv
  <2>3. LookupInv'
    BY <1>t, <2>1 DEF LookupInv, Passed
  <2>4. QED
    BY <2>2, <2>3
<1>5. ASSUME CheckEntry
      PROVE  ListTypeOK' /\ ListInv' /\ LookupInv'
  <2>1. UNCHANGED <<addrList, told, updating>> /\ lookup = "seeking" /\ ~misled
    BY <1>5 DEF CheckEntry, listVars
  <2>2. Passed
    BY <1>k, <2>1 DEF LookupInv
  <2>3. ListInv'
    BY <1>k, <2>1 DEF ListInv
  <2>4. CASE looking > Len(addrList) /\ lookup' = "failed" /\ looking' = 0 /\ UNCHANGED <<connInfo, misled>>
    BY <1>k, <1>t, <2>1, <2>3, <2>4 DEF ListTypeOK, LookupInv
  <2>5. CASE /\ looking <= Len(addrList) /\ ~Preferred(addrList[looking].address)
             /\ looking' = looking + 1 /\ UNCHANGED <<lookup, connInfo, misled>>
    <3>1. ListTypeOK'
      BY <1>k, <1>t, <2>1, <2>5 DEF ListTypeOK
    <3>2. Passed'
      BY <1>t, <2>1, <2>2, <2>5 DEF Passed, Preferred
    <3>3. QED
      BY <2>1, <2>3, <2>5, <3>1, <3>2 DEF LookupInv
  <2>6. CASE /\ looking <= Len(addrList) /\ Preferred(addrList[looking].address)
             /\ lookup' = "reading"
             /\ connInfo' = [address |-> addrList[looking].address, name |-> Unset, port |-> Unset]
             /\ misled' = (updating = looking)
             /\ UNCHANGED looking
    <3>1. looking \in DOMAIN addrList
      BY <1>t, <2>2, <2>6 DEF Passed
    <3>2. ListTypeOK'
      <4>1. connInfo' \in [address : Address \union {Unset}, name : Version \union {Unset}, port : Version \union {Unset}]
        BY <1>t, <2>6, <3>1 DEF Entry
      <4>2. QED
        BY <1>k, <1>t, <2>1, <2>6, <4>1 DEF ListTypeOK
    <3>3. LookupInv'
      BY <2>1, <2>6, <3>1 DEF LookupInv, Copying, Preferred
    <3>4. QED
      BY <2>3, <3>2, <3>3
  <2>7. QED
    BY <1>5, <2>4, <2>5, <2>6 DEF CheckEntry
<1>6. ASSUME CopyName \/ CopyPort
      PROVE  ListTypeOK' /\ ListInv' /\ LookupInv'
  <2> DEFINE e == addrList[looking]
  <2>1. /\ lookup = "reading" /\ ~misled /\ UNCHANGED <<addrList, told, updating, misled>>
        /\ \/ connInfo' = [address |-> connInfo.address, name |-> e.name, port |-> connInfo.port]
           \/ connInfo' = [address |-> connInfo.address, name |-> connInfo.name, port |-> e.port]
        /\ \/ UNCHANGED <<lookup, looking>>
           \/ lookup' = "found" /\ looking' = 0
    BY <1>6 DEF CopyName, CopyPort, Copied, listVars
  <2>2. Copying /\ looking \in DOMAIN addrList
    BY <1>k, <2>1 DEF LookupInv, Copying
  <2>3. e \in Entry
    BY <1>t, <2>2
  <2>4. connInfo' \in [address : Address \union {Unset}, name : Version \union {Unset}, port : Version \union {Unset}]
    BY <1>k, <2>1, <2>3 DEF ListTypeOK, Entry
  <2>5. ListTypeOK'
    BY <1>k, <1>t, <2>1, <2>4 DEF ListTypeOK
  <2>6. ListInv'
    BY <1>k, <2>1 DEF ListInv
  <2>7. LookupInv'
    BY <2>1, <2>2 DEF LookupInv, Copying
  <2>8. QED
    BY <2>5, <2>6, <2>7
<1>7. ASSUME LookupMisled
      PROVE  ListTypeOK' /\ ListInv' /\ LookupInv'
  <2>1. /\ UNCHANGED <<addrList, told, updating, misled>> /\ misled /\ looking' = 0
        /\ lookup' \in {"failed", "found"}
        /\ connInfo' = connInfo \/ connInfo' \in [address : Address, name : Version, port : Version]
    BY <1>7 DEF LookupMisled, listVars
  <2>2. ListTypeOK'
    BY <1>k, <1>t, <2>1 DEF ListTypeOK
  <2>3. QED
    BY <1>k, <2>1, <2>2 DEF ListInv, LookupInv
<1>8. ASSUME MonitorMutex \/ MainMutex
      PROVE  ListTypeOK' /\ ListInv' /\ LookupInv'
  <2>1. /\ UNCHANGED <<addrList, told, updating>>
        /\ \/ UNCHANGED <<lookup, looking, connInfo, misled>>
           \/ UNCHANGED looking /\ lookup' = "none" /\ connInfo' = NoConnection /\ misled' = FALSE
    <3>1. Forget => UNCHANGED listVars
      BY DEF Forget
    <3>2. UNCHANGED listVars /\ (UNCHANGED lookupVars \/ Forget)
      BY <1>8, <3>1 DEF MonitorMutex, MainMutex
    <3>3. QED
      BY <3>2 DEF listVars, lookupVars, Forget
  <2>2. ListTypeOK'
    <3>1. NoConnection \in [address : Address \union {Unset}, name : Version \union {Unset}, port : Version \union {Unset}]
      BY DEF NoConnection
    <3>2. misled' \in BOOLEAN
      BY <1>k, <2>1, Zenon DEF ListTypeOK
    <3>3. QED
      BY <1>k, <1>t, <2>1, <3>1, <3>2 DEF ListTypeOK
  <2>3. ListInv' /\ LookupInv'
    BY <1>k, <2>1 DEF ListInv, LookupInv, Passed, Copying
  <2>4. QED
    BY <2>2, <2>3
<1>9. CASE UNCHANGED recordVars
  BY <1>k, <1>9 DEF recordVars, listVars, lookupVars, ListTypeOK, ListInv, LookupInv, Passed, Copying
<1>10. QED
  BY <1>1, <1>2, <1>3, <1>4, <1>5, <1>6, <1>7, <1>8, <1>9 DEF RecordNext

LEMMA RecordInitial == RecordInit => RecordInv
<1> SUFFICES ASSUME RecordInit PROVE RecordInv
  OBVIOUS
<1>1. PICK a \in Address, v \in Version :
        /\ addrList = <<[address |-> a, name |-> v, port |-> v]>>
        /\ told = [b \in Address |-> IF b = a THEN v ELSE Unset]
  BY DEF RecordInit
<1>2. [address |-> a, name |-> v, port |-> v] \in Entry
  BY DEF Entry
<1>3. addrList \in Seq(Entry) /\ addrList # <<>> /\ Len(addrList) = 1 /\ DOMAIN addrList = {1}
  BY <1>1, <1>2
<1>4. ListTypeOK
  BY <1>1, <1>3 DEF RecordInit, ListTypeOK, NoConnection
<1>5. ListInv
  BY <1>1, <1>3, AddressAssumption DEF RecordInit, ListInv
<1>6. QED
  BY <1>4, <1>5 DEF RecordInit, RecordInv, LookupInv

LEMMA RecordInvariant == RecordSpec => []RecordInv
BY RecordInitial, RecordStep, PTL DEF RecordSpec

(* Every variable of the list and of the lookup keeps its type.            *)
THEOREM RecordTypeCorrect == RecordSpec => []RecordTypeOK
BY MutexTypeCorrect, RecordInvariant, PTL DEF RecordInv, RecordTypeOK

(* Between announcements the list has every address that was announced,    *)
(* once, with what was last said of it (addAddressInfo's search).          *)
THEOREM AnnouncementsKept == RecordSpec => []AnnouncedKept
<1>1. RecordInv => AnnouncedKept
  <2> SUFFICES ASSUME RecordInv, updating = 0 PROVE AnnouncedKept
    BY DEF AnnouncedKept
  <2>1. \A i \in DOMAIN addrList : i # updating
    BY DEF RecordInv, ListTypeOK
  <2>2. QED
    BY <2>1 DEF RecordInv, ListInv, AnnouncedKept
<1>2. QED
  BY <1>1, RecordInvariant, PTL

(* A lookup of the monitor's that discovery does not mislead is right: it  *)
(* fails only when there is nothing to find, and never mixes two           *)
(* announcements.                                                          *)
THEOREM LookupsRight == RecordSpec => LookupRight
<1> DEFINE Right == Seeking /\ ~Seeking' /\ ~misled =>
       \/ /\ lookup' = "failed"
          /\ \A a \in Address : told[a] # Unset => Type(a) # PreferredType
       \/ /\ lookup' = "found"
          /\ Type(connInfo'.address) = PreferredType
          /\ connInfo'.name = told[connInfo'.address] /\ connInfo'.port = told[connInfo'.address]
<1>1. ASSUME RecordInv, [RecordNext]_recordVars, Seeking, ~Seeking', ~misled PROVE Right
  <2>1. CheckEntry \/ CopyName \/ CopyPort
    BY <1>1 DEF RecordNext, Seeking, recordVars, lookupVars, MonitorMutex, MainMutex, Forget, UpdateRecord,
                SetAddressInfo, BeginLookup, LookupMisled
  <2>2. ASSUME CheckEntry PROVE Right
    <3>1. lookup = "seeking" /\ lookup' = "failed" /\ looking > Len(addrList)
      BY <1>1, <2>2 DEF CheckEntry, Seeking
    <3>2. Passed /\ ListInv
      BY <1>1, <3>1 DEF RecordInv, LookupInv
    <3>3. DOMAIN addrList = 1..Len(addrList) /\ Len(addrList) \in Nat /\ looking \in Nat
      BY <1>1 DEF RecordInv, ListTypeOK
    <3>4. \A j \in DOMAIN addrList : Type(addrList[j].address) # PreferredType
      BY <3>1, <3>2, <3>3 DEF Passed
    <3>5. QED
      BY <3>1, <3>2, <3>4 DEF ListInv
  <2>3. ASSUME CopyName \/ CopyPort PROVE Right
    <3> DEFINE e == addrList[looking]
    <3>1. /\ lookup = "reading" /\ lookup' = "found"
          /\ \/ connInfo' = [address |-> connInfo.address, name |-> e.name, port |-> connInfo.port] /\ connInfo.port # Unset
             \/ connInfo' = [address |-> connInfo.address, name |-> connInfo.name, port |-> e.port] /\ connInfo.name # Unset
      BY <1>1, <2>3 DEF CopyName, CopyPort, Copied, Seeking
    <3>2. Copying
      BY <1>1, <3>1 DEF RecordInv, LookupInv
    <3>3. connInfo'.address = e.address /\ connInfo'.name = e.name /\ connInfo'.port = e.port
      BY <3>1, <3>2 DEF Copying
    <3>4. e.name = told[e.address] /\ e.port = told[e.address]
      BY <1>1, <3>2 DEF RecordInv, ListInv, Copying
    <3>5. QED
      BY <3>1, <3>2, <3>3, <3>4 DEF Copying
  <2>4. QED
    BY <2>1, <2>2, <2>3
<1>2. RecordInv /\ [RecordNext]_recordVars => [Right]_recordVars
  BY <1>1
<1>3. QED
  BY <1>2, RecordInvariant, PTL DEF RecordSpec, LookupRight

=============================================================================
