---------------------------- MODULE MCServiceMaps ----------------------------
(* The management device and one other, two service types.                 *)
EXTENDS ServiceMaps

(* When the last restart has been spent, runs in which the management      *)
(* device's own services are still being worked on are not followed.       *)
SelfAtRest == restarts = MaxRestarts => stage[Self] \notin Kind \union {"put"}

=============================================================================
