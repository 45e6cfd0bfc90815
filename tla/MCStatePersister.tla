-------------------------- MODULE MCStatePersister --------------------------
(***************************************************************************)
(* Instances of StatePersister for TLC.                                    *)
(***************************************************************************)
EXTENDS StatePersister, TLC

(* Calls are interchangeable.                                              *)
Symmetry == Permutations(Saves)
=============================================================================
