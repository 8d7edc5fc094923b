---------------------------- MODULE MCAccounts ----------------------------
(* Instances of Accounts for TLC. *)
EXTENDS Accounts, TLC

(* Users are interchangeable: no definition tells one from another. *)
UserSymmetry == Permutations(Users)

=============================================================================
