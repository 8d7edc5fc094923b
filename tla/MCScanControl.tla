---------------------------- MODULE MCScanControl ----------------------------
(* Instances of ScanControl for TLC. *)
EXTENDS ScanControl, TLC

(* Neither callers nor scan threads are told apart. *)
ThreadSymmetry == Permutations(Callers) \cup Permutations(Threads)

=============================================================================
