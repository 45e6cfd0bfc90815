------------------------------ MODULE MCDeviceHub ------------------------------
(* The instance of DeviceHub that TLC checks: one connection, whose daemon *)
(* and sweeper contend with two commands for a channel with one slot.      *)
EXTENDS DeviceHub
=============================================================================
