--------------------------- MODULE DeviceLifecycle ---------------------------
(***************************************************************************)
(* What the device arbiter promises about each device, without the walk,   *)
(* the wait time or the two threads that bring it about: a device is       *)
(* served only once it is known to be ours, what is known is forgotten     *)
(* when a command is carried out, and a device that was given up comes     *)
(* back by a command alone. ManagedDeviceArbiter implements it.            *)
(***************************************************************************)
CONSTANTS
  Device,   (* the devices that may be discovered                            *)
  Self      (* the management device, which is not managed                   *)

VARIABLES
  phase,    (* where each device is in its life                              *)
  mine      (* the devices that are known to be ours                         *)

vars == <<phase, mine>>

Phase == {"absent", "self", "identifying", "serving", "parked", "commanded"}

TypeOK == phase \in [Device -> Phase] /\ mine \subseteq Device

Init == phase = [d \in Device |-> "absent"] /\ mine = {}

-----------------------------------------------------------------------------

Moves(d, from, to) ==
  /\ phase[d] = from
  /\ phase' = [phase EXCEPT ![d] = to]
  /\ UNCHANGED mine

Discover(d) == Moves(d, "absent", IF d = Self THEN "self" ELSE "identifying")

(* The device says whose it is, or fails to. A device that is being served *)
(* is not asked.                                                           *)
ReadOwner(d) ==
  /\ phase[d] \in {"identifying", "commanded"}
  /\ mine' \in {mine \union {d}, mine \ {d}}
  /\ UNCHANGED phase

Serve(d) == d \in mine /\ Moves(d, "identifying", "serving")

Park(d) == \E from \in {"identifying", "serving", "commanded"} : Moves(d, from, "parked")

(* A command may come for any known device, at any time.                   *)
Post(d) == \E from \in Phase \ {"absent"} : Moves(d, from, "commanded")

(* Carrying it out may change the owner.                                   *)
Execute(d) ==
  /\ phase[d] = "commanded"
  /\ mine' = mine \ {d}
  /\ UNCHANGED phase

Reidentify(d) == d \notin mine /\ Moves(d, "commanded", "identifying")

(* A command that comes while the device is being worked on may be lost:   *)
(* the device stays what it was, or goes on to what it was becoming.       *)
Lose(d) ==
  \/ d = Self /\ Moves(d, "commanded", "self")
  \/ d \in mine /\ Moves(d, "commanded", "serving")

(* Most steps of the threads are no step of this module: the first case.   *)
Next ==
  \/ UNCHANGED vars
  \/ \E d \in Device :
       \/ Discover(d) \/ ReadOwner(d) \/ Serve(d) \/ Park(d)
       \/ Post(d) \/ Execute(d) \/ Reidentify(d) \/ Lose(d)

Spec == Init /\ [][Next]_vars

=============================================================================
