---------------------------- MODULE MCDeviceRecord ---------------------------
(* Three mutex addresses; a device with two local IPv4 addresses and one   *)
(* local IPv6 address, announced with two names and ports.                 *)
EXTENDS DeviceRecord, TLC

MCAddress ==
  {[host |-> "a", family |-> "v4", scopes |-> {"siteLocal"}],
   [host |-> "b", family |-> "v4", scopes |-> {"linkLocal"}],
   [host |-> "c", family |-> "v6", scopes |-> {"linkLocal"}]}

Symmetry == Permutations(Mutex)

=============================================================================
