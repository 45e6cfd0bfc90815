--------------------------- MODULE AtomicStateFile ---------------------------
(***************************************************************************)
(* What StatePersister promises: the state file holds nothing, or the      *)
(* contents of one save, whole, unless a save did not learn that the OS    *)
(* refused part of them.  A save replaces the contents in one step; a      *)
(* power failure may bring back contents the file held before, and neither *)
(* it nor anything else makes a mixture or a part of them.                 *)
(***************************************************************************)
CONSTANTS Saves, NoFile, Partial

VARIABLES
  content,  \* NoFile, Partial, or the save whose contents the file holds
  past      \* everything the file has held

Init == content = NoFile /\ past = {NoFile}

Replace(w) == content' = w /\ past' = past \cup {w}

(* A save whose write was refused too late to be reported.                 *)
Spoil == content' = Partial /\ past' = past \cup {Partial}

PowerLoss == content' \in past /\ UNCHANGED past

Next == Spoil \/ PowerLoss \/ \E w \in Saves : Replace(w)

Spec == Init /\ [][Next]_<<content, past>>
=============================================================================
