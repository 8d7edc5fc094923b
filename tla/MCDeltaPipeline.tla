-------------------------- MODULE MCDeltaPipeline --------------------------
(* Instances of DeltaPipeline for TLC. *)
EXTENDS DeltaPipeline, TLC

CONSTANTS f1, f2

TwoFiles == {f1, f2}

OneFile == {f1}

(* One file changes twice, each time within the tolerance, together beyond  *)
(* it; the other comes and goes, and so the snapshots that lack the first   *)
(* one are not always empty.                                                *)
TwoChangesOfOne == [f \in TwoFiles |-> IF f = f1 THEN 3 ELSE 1]
StepsAreNear    == [f \in TwoFiles |-> IF f = f1 THEN {{1, 2}, {2, 3}} ELSE {}]

TwoChanges == [f \in OneFile |-> 3]
NoneIsNear == [f \in OneFile |-> {}]

RecorderSymmetry == Permutations(Recorders)

=============================================================================
