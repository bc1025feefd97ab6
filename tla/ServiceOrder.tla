----------------------------- MODULE ServiceOrder -----------------------------
(***************************************************************************)
(* The order in which a device's services are learnt and set: it is asked  *)
(* what it provides, then what it desires, then its mappings are put, and  *)
(* only then is it polled for its health. Whatever fails, a device is      *)
(* taken through all of it again from the beginning or not at all.         *)
(*                                                                         *)
(* ManagedDeviceArbiter brings this about by two threads that may overtake *)
(* each other, ServiceMaps relies on it: both implement this module, so    *)
(* what ServiceMaps takes for a device's stage is what the arbiter does.   *)
(***************************************************************************)
CONSTANT Device

VARIABLE stage   (* how far the work on each device's services is          *)

vars == <<stage>>

Stage == {"none", "provided", "desired", "put", "polled"}

TypeOK == stage \in [Device -> Stage]

Init == stage = [d \in Device |-> "none"]

-----------------------------------------------------------------------------

(* The device was found to be ours, at first or again after a command.     *)
Begin(d) == stage' = [stage EXCEPT ![d] = "provided"]

Following == {<<"provided", "desired">>, <<"desired", "put">>, <<"put", "polled">>}

Proceed(d) ==
  \E step \in Following :
    /\ stage[d] = step[1]
    /\ stage' = [stage EXCEPT ![d] = step[2]]

(* It failed, or has no more to be done, or a command came for it.         *)
Leave(d) == stage' = [stage EXCEPT ![d] = "none"]

(* Most steps of the threads are no step of this module: the first case.   *)
Next == UNCHANGED vars \/ \E d \in Device : Begin(d) \/ Proceed(d) \/ Leave(d)

Spec == Init /\ [][Next]_vars

=============================================================================
