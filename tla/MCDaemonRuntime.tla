-------------------------- MODULE MCDaemonRuntime --------------------------
(***************************************************************************)
(* Instances of DaemonRuntime for TLC.                                     *)
(***************************************************************************)
EXTENDS DaemonRuntime, TLC

(* Command ids are interchangeable (safety runs only).                     *)
Symmetry == Permutations(Ids)
=============================================================================
