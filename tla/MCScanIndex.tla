---------------------------- MODULE MCScanIndex ----------------------------
(* Instances of ScanIndex for TLC. *)
EXTENDS ScanIndex, TLC

(* Paths are interchangeable: no definition tells one from another. *)
FileSymmetry == Permutations(Files)

=============================================================================
