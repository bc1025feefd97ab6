---------------------------- MODULE DeviceRecord -----------------------------
(***************************************************************************)
(* A device record as its two threads use it: its mutex (RecordMutex) and  *)
(* its list of addresses. The monitor looks for a connection in the list,  *)
(* holding the record's mutex, but when it puts mappings not even that.    *)
(* The main thread adds and rewrites addresses as the device is announced  *)
(* again, holding the map's mutex, which the monitor does not take.        *)
(***************************************************************************)
EXTENDS RecordMutex, Sequences

CONSTANTS
  Address,  (* records of a host and of what Poco's IPAddress says of it      *)
  Version,  (* what else an announcement says: its host name and its port     *)
  Unset     (* neither read nor announced                                     *)

ASSUME AddressAssumption ==
  /\ \A a \in Address : a.family \in {"v4", "v6", "none"}
  /\ Unset \notin Address /\ Unset \notin Version

VARIABLES
  addrList,  (* m_addrList: addresses, each with its name and port            *)
  told,      (* history: what was last announced of each address              *)
  updating,  (* the entry setAddressInfo is rewriting on the main thread, or 0 *)
  lookup,    (* how far findPreferredConnection is on the monitor's           *)
  looking,   (* the entry its iterator is at                                  *)
  connInfo,  (* what it copied                                                *)
  misled     (* history: discovery moved the list, or rewrote the entry,      *)
             (* under the lookup                                              *)

listVars   == <<addrList, told, updating>>
lookupVars == <<lookup, looking, connInfo, misled>>
recordVars == <<vars, listVars, lookupVars>>

-----------------------------------------------------------------------------
(* setAddressInfo: what kind of address it is. One that does not parse has *)
(* no family.                                                              *)

Scope(a) ==
  IF "loopback" \in a.scopes THEN "loopback"
  ELSE IF {"multicast", "broadcast"} \cap a.scopes # {} THEN "cast"
  ELSE IF {"linkLocal", "siteLocal"} \cap a.scopes # {} THEN "local"
  ELSE "inet"

Type(a) == IF a.family = "none" THEN <<"unknown", "none">> ELSE <<Scope(a), a.family>>

(* HMDAR_ADDRTYPE_IPV4, the one type that is ever looked for.              *)
PreferredType == <<"local", "v4">>

(* Fault: the family is not looked at.                                     *)
LocalType(a) == Scope(a) = "local"
Preferred(a) == Type(a) = PreferredType

-----------------------------------------------------------------------------

NoConnection == [address |-> Unset, name |-> Unset, port |-> Unset]

(* The device has been announced once, and its record is in the map.       *)
RecordInit ==
  /\ Init
  /\ \E a \in Address, v \in Version :
       /\ addrList = <<[address |-> a, name |-> v, port |-> v]>>
       /\ told = [b \in Address |-> IF b = a THEN v ELSE Unset]
  /\ updating = 0
  /\ lookup = "none" /\ looking = 0 /\ connInfo = NoConnection /\ misled = FALSE

(* The iterator may dereference its entry, or copies from it.              *)
Seeking == lookup \in {"seeking", "reading"}
Reading(i) == lookup = "reading" /\ looking = i

-----------------------------------------------------------------------------
(* The main thread: notifyDiscoverAdd of a record that is there already.   *)

(* Fault: every announcement is taken for a new address.                   *)
Nowhere(a) == {}

(* Fault: the search ends one entry too late.                              *)
KnownBefore(a) == {i + 1 : i \in {j \in DOMAIN addrList : addrList[j].address = a}}

(* addAddressInfo's search.                                                *)
KnownAt(a) == {i \in DOMAIN addrList : addrList[i].address = a}

(* A new address goes to the end; push_back moves the list or, if there is *)
(* room, does not, under the iterator of a lookup.                         *)
UpdateRecord(a, v) ==
  /\ At("main", "outside") /\ ~copied /\ updating = 0
  /\ told' = [told EXCEPT ![a] = v]
  /\ IF KnownAt(a) = {}
     THEN /\ addrList' = Append(addrList, [address |-> a, name |-> v, port |-> v])
          /\ \E moved \in BOOLEAN : misled' = (misled \/ (moved /\ Seeking))
          /\ UNCHANGED updating
     ELSE /\ updating' \in KnownAt(a)
          /\ misled' = (misled \/ Reading(updating'))
          /\ UNCHANGED addrList
  /\ UNCHANGED <<vars, lookup, looking, connInfo>>

(* setAddressInfo on the entry: first the name, last the port.             *)
SetAddressInfo ==
  LET e   == addrList[updating]
      new == told[e.address]
  IN
  /\ updating # 0
  /\ IF e.name # new
     THEN /\ addrList' = [addrList EXCEPT ![updating] = [address |-> e.address, name |-> new, port |-> e.port]]
          /\ UNCHANGED updating
     ELSE /\ addrList' = [addrList EXCEPT ![updating] = [address |-> e.address, name |-> e.name, port |-> new]]
          /\ updating' = 0
  /\ UNCHANGED <<vars, told, lookupVars>>

-----------------------------------------------------------------------------
(* The monitor: findPreferredConnection. Its callers hold the record's     *)
(* mutex, executeDeviceServicesUpdateMapping has just released it.         *)

BeginLookup ==
  /\ lookup = "none"
  /\ At("monitor", "inside") \/ (At("monitor", "outside") /\ deviceMutex # Null)
  /\ lookup' = "seeking" /\ looking' = 1 /\ misled' = FALSE
  /\ UNCHANGED <<vars, listVars, connInfo>>

CheckEntry ==
  /\ lookup = "seeking" /\ ~misled
  /\ \/ /\ looking > Len(addrList)
        /\ lookup' = "failed" /\ looking' = 0
        /\ UNCHANGED <<connInfo, misled>>
     \/ /\ looking <= Len(addrList) /\ ~Preferred(addrList[looking].address)
        /\ looking' = looking + 1
        /\ UNCHANGED <<lookup, connInfo, misled>>
     \/ /\ looking <= Len(addrList) /\ Preferred(addrList[looking].address)
        /\ lookup' = "reading"
        /\ connInfo' = [address |-> addrList[looking].address, name |-> Unset, port |-> Unset]
        /\ misled' = (updating = looking)
        /\ UNCHANGED looking
  /\ UNCHANGED <<vars, listVars>>

(* The entry's name, address and port are arguments of one call, read in   *)
(* whatever order; the call ends when all are there.                       *)
Copied(name, port) ==
  /\ lookup = "reading" /\ ~misled
  /\ connInfo' = [address |-> connInfo.address, name |-> name, port |-> port]
  /\ IF Unset \in {name, port}
     THEN UNCHANGED <<lookup, looking>>
     ELSE lookup' = "found" /\ looking' = 0
  /\ UNCHANGED <<vars, listVars, misled>>

CopyName == connInfo.name = Unset /\ Copied(addrList[looking].name, connInfo.port)
CopyPort == connInfo.port = Unset /\ Copied(connInfo.name, addrList[looking].port)

(* An iterator into a list that was moved, or a string being assigned to:  *)
(* undefined, so anything may come of it.                                  *)
LookupMisled ==
  /\ Seeking /\ misled
  /\ looking' = 0
  /\ \/ lookup' = "failed" /\ UNCHANGED connInfo
     \/ lookup' = "found" /\ connInfo' \in [address : Address, name : Version, port : Version]
  /\ UNCHANGED <<vars, listVars, misled>>

Forget ==
  /\ ~Seeking
  /\ lookup' = "none" /\ connInfo' = NoConnection /\ misled' = FALSE
  /\ UNCHANGED <<looking, listVars>>

-----------------------------------------------------------------------------
(* The mutex's operations, where each thread's code has them.              *)

MonitorMutex ==
  \/ lookup = "none" /\ LockForUpdate("monitor") /\ UNCHANGED <<listVars, lookupVars>>
  \/ Unlock("monitor") /\ Forget
  \/ lookup # "none" /\ UnlockAgain /\ Forget

MainMutex ==
  /\ updating = 0
  /\ LockForUpdate("main") \/ Unlock("main") \/ GetDeviceCopy \/ DestroyCopy
  /\ UNCHANGED <<listVars, lookupVars>>

RecordNext ==
  \/ MonitorMutex \/ MainMutex
  \/ \E a \in Address, v \in Version : UpdateRecord(a, v)
  \/ SetAddressInfo
  \/ BeginLookup \/ CheckEntry \/ CopyName \/ CopyPort \/ LookupMisled

RecordSpec == RecordInit /\ [][RecordNext]_recordVars

-----------------------------------------------------------------------------

Entry == [address : Address, name : Version, port : Version]

ListTypeOK ==
  /\ addrList \in Seq(Entry) /\ addrList # <<>>
  /\ told \in [Address -> Version \union {Unset}]
  /\ updating \in {0} \union DOMAIN addrList
  /\ lookup \in {"none", "seeking", "reading", "found", "failed"}
  /\ looking \in Nat
  /\ connInfo \in [address : Address \union {Unset}, name : Version \union {Unset}, port : Version \union {Unset}]
  /\ misled \in BOOLEAN

(* The mutex's variables, and the list's and the lookup's.                 *)
RecordTypeOK == TypeOK /\ ListTypeOK

(* Between two announcements, which is when the main thread looks up where *)
(* to pass a request on to or answers with a record's addresses, the list  *)
(* has every address that was announced, once, with what was announced of  *)
(* it last.                                                                *)
AnnouncedKept ==
  updating = 0 =>
    /\ \A a \in Address : told[a] # Unset => \E i \in DOMAIN addrList : addrList[i].address = a
    /\ \A i, j \in DOMAIN addrList : addrList[i].address = addrList[j].address => i = j
    /\ \A i \in DOMAIN addrList :
         LET e == addrList[i] IN e.name = told[e.address] /\ e.port = told[e.address]

(* A lookup of the monitor's that discovery neither moves nor rewrites the *)
(* entry from under finds a local IPv4 address whenever one was announced, *)
(* and the name and port last announced with it, never those of two        *)
(* announcements, though the list may grow at any moment.                  *)
LookupRight ==
  [][Seeking /\ ~Seeking' /\ ~misled =>
       \/ /\ lookup' = "failed"
          /\ \A a \in Address : told[a] # Unset => Type(a) # PreferredType
       \/ /\ lookup' = "found"
          /\ Type(connInfo'.address) = PreferredType
          /\ connInfo'.name = told[connInfo'.address] /\ connInfo'.port = told[connInfo'.address]]_recordVars

=============================================================================
