------------------------------ MODULE MCArbiter ------------------------------
(* One or two devices, one of them possibly the management device itself.  *)
EXTENDS ManagedDeviceArbiter

=============================================================================
