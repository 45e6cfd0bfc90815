-------------------------- MODULE MCDeviceRegistry --------------------------
(***************************************************************************)
(* Instances of DeviceRegistry for TLC.                                    *)
(***************************************************************************)
EXTENDS DeviceRegistry, TLC

(* Connections are interchangeable, and so are devices.                    *)
Symmetry == Permutations(Sessions) \cup Permutations(Devices)
=============================================================================
