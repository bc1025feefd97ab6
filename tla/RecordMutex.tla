----------------------------- MODULE RecordMutex -----------------------------
(***************************************************************************)
(* The mutex of one device record. It is allocated by the first            *)
(* lockForUpdate(), by whichever thread comes first, and found through the *)
(* record's pointer by lock and by unlock. The main thread also copies     *)
(* whole records, and the copy's destructor deletes the mutex it points    *)
(* to; the monitor thread unlocks once more than it locks.                 *)
(***************************************************************************)
EXTENDS Integers

CONSTANTS
  Mutex,   (* heap addresses of mutexes                                       *)
  Null,    (* no mutex                                                        *)
  Nobody   (* who holds a mutex that is not locked                            *)

Thread == {"monitor", "main"}

ASSUME MutexAssumption == Null \notin Mutex
ASSUME NobodyAssumption == Nobody \notin Thread

VARIABLES
  deviceMutex,   (* m_deviceMutex of the record in the map                    *)
  copyMutex,     (* m_deviceMutex of the copy in the main thread's handler    *)
  copied,        (* that handler has a copy                                   *)
  alive,         (* the mutexes that are allocated                            *)
  holder,        (* who holds each mutex; a deleted one reads as it was       *)
  pc,            (* where each thread is                                      *)
  fresh,         (* the mutex a thread has allocated and not yet stored       *)
  disturbed      (* history: two threads created, a copy was made, or a       *)
                 (* mutex was unlocked by a thread that does not hold it      *)

vars == <<deviceMutex, copyMutex, copied, alive, holder, pc, fresh, disturbed>>

Init ==
  /\ deviceMutex = Null
  /\ copyMutex = Null /\ copied = FALSE
  /\ alive = {}
  /\ holder = [m \in Mutex |-> Nobody]
  /\ pc = [t \in Thread |-> "outside"]
  /\ fresh = [t \in Thread |-> Null]
  /\ disturbed = FALSE

At(t, place) == pc[t] = place
Go(t, place) == pc' = [pc EXCEPT ![t] = place]

-----------------------------------------------------------------------------
(* lockForUpdate.                                                          *)

Creating == \E t \in Thread : pc[t] \in {"creating", "storing"}

(* Fault: every lock makes a mutex of its own.                             *)
Always      == TRUE
NeedsMutex  == deviceMutex = Null

CheckMutex(t) ==
  /\ At(t, "outside")
  /\ t = "main" => ~copied
  /\ IF NeedsMutex THEN Go(t, "creating") ELSE Go(t, "locking")
  /\ disturbed' = (disturbed \/ Creating)
  /\ UNCHANGED <<deviceMutex, copyMutex, copied, alive, holder, fresh>>

NewMutex(t, m) ==
  /\ At(t, "creating")
  /\ m \notin alive
  /\ alive' = alive \union {m}
  /\ holder' = [holder EXCEPT ![m] = Nobody]
  /\ fresh' = [fresh EXCEPT ![t] = m]
  /\ Go(t, "storing")
  /\ UNCHANGED <<deviceMutex, copyMutex, copied, disturbed>>

StoreMutex(t) ==
  /\ At(t, "storing")
  /\ deviceMutex' = fresh[t]
  /\ fresh' = [fresh EXCEPT ![t] = Null]
  /\ Go(t, "locking")
  /\ UNCHANGED <<copyMutex, copied, alive, holder, disturbed>>

Lock(t) ==
  /\ At(t, "locking")
  /\ holder[deviceMutex] = Nobody
  /\ holder' = [holder EXCEPT ![deviceMutex] = t]
  /\ Go(t, "inside")
  /\ UNCHANGED <<deviceMutex, copyMutex, copied, alive, fresh, disturbed>>

-----------------------------------------------------------------------------
(* unlockForUpdate: of the mutex the record points to now.                 *)

Unlock(t) ==
  /\ At(t, "inside")
  /\ disturbed' = (disturbed \/ holder[deviceMutex] # t)
  /\ holder' = [holder EXCEPT ![deviceMutex] = Nobody]
  /\ Go(t, "outside")
  /\ UNCHANGED <<deviceMutex, copyMutex, copied, alive, fresh>>

(* executeDeviceServicesUpdateMapping unlocks before it looks for the      *)
(* device's address, and again after it, found or not.                     *)
UnlockAgain ==
  /\ At("monitor", "outside")
  /\ deviceMutex # Null
  /\ disturbed' = (disturbed \/ holder[deviceMutex] # Nobody)
  /\ holder' = [holder EXCEPT ![deviceMutex] = Nobody]
  /\ UNCHANGED <<deviceMutex, copyMutex, copied, alive, pc, fresh>>

-----------------------------------------------------------------------------
(* getDeviceCopy assigns the record, its pointer included, to a local of   *)
(* the handler, under the map's mutex only. The local is destroyed.        *)

GetDeviceCopy ==
  /\ At("main", "outside") /\ ~copied
  /\ copied' = TRUE
  /\ copyMutex' = deviceMutex
  /\ disturbed' = (disturbed \/ deviceMutex # Null)
  /\ UNCHANGED <<deviceMutex, alive, holder, pc, fresh>>

DestroyCopy ==
  /\ copied
  /\ copied' = FALSE
  /\ copyMutex' = Null
  /\ alive' = alive \ {copyMutex}
  /\ UNCHANGED <<deviceMutex, holder, pc, fresh, disturbed>>

-----------------------------------------------------------------------------

LockForUpdate(t) ==
  \/ CheckMutex(t) \/ StoreMutex(t) \/ Lock(t)
  \/ \E m \in Mutex : NewMutex(t, m)

Next ==
  \/ \E t \in Thread : LockForUpdate(t) \/ Unlock(t)
  \/ UnlockAgain
  \/ GetDeviceCopy \/ DestroyCopy

Spec == Init /\ [][Next]_vars

-----------------------------------------------------------------------------

Place == {"outside", "creating", "storing", "locking", "inside"}

TypeOK ==
  /\ deviceMutex \in Mutex \union {Null} /\ copyMutex \in Mutex \union {Null}
  /\ copied \in BOOLEAN /\ disturbed \in BOOLEAN
  /\ alive \subseteq Mutex
  /\ holder \in [Mutex -> Thread \union {Nobody}]
  /\ pc \in [Thread -> Place]
  /\ fresh \in [Thread -> Mutex \union {Null}]
  /\ \A t \in Thread : pc[t] = "storing" => fresh[t] \in Mutex
  /\ \A t \in Thread : pc[t] \in {"locking", "inside"} => deviceMutex \in Mutex

(* As long as the first lock is over before the other thread comes, no     *)
(* copy of the record is made and no unlock hits a mutex somebody else     *)
(* holds, lockForUpdate excludes and the mutex it locked is still there:   *)
(* what stands between the threads when nothing else of the code gets in.  *)
UndisturbedExcludes ==
  ~disturbed =>
    /\ ~(At("monitor", "inside") /\ At("main", "inside"))
    /\ \A t \in Thread : At(t, "inside") => deviceMutex \in alive /\ holder[deviceMutex] = t

(* "Do not copy over a mutex as they are unique to each object": no two    *)
(* records point to the same mutex.                                        *)
MutexUnique == copied /\ copyMutex # Null => copyMutex # deviceMutex

=============================================================================
