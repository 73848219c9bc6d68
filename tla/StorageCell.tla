----------------------------- MODULE StorageCell -----------------------------
(***************************************************************************)
(* What a chain file promises to the programs that load and save it: a     *)
(* cell that always holds a whole version.  The versions of the chain are  *)
(* numbered in the order they are saved; 0 is the empty chain of a file    *)
(* that was never saved.  A loss of power may undo the latest saves, the   *)
(* death of a program undoes none.                                         *)
(***************************************************************************)
EXTENDS Integers, SequencesExt

VARIABLE versions  \* those a loss of power may go back to, the loaded one last

Init == versions = <<0>>

\* A save: nothing but a later version, whole and at once.
Store ==
    /\ Len(versions') = Len(versions) + 1
    /\ Front(versions') = versions
    /\ Last(versions') > Last(versions)

\* The older ones can no longer come back.
Harden == \E n \in DOMAIN versions : versions' = SubSeq(versions, n, Len(versions))

LosePower == \E n \in DOMAIN versions : versions' = <<versions[n]>>

Spec == Init /\ [][Store \/ Harden \/ LosePower]_versions

=============================================================================
