---------------------------- MODULE MCDeviceSync ----------------------------
(* Instances of DeviceSync for TLC. *)
EXTENDS DeviceSync
=============================================================================
