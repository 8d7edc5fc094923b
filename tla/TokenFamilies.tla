---------------------------- MODULE TokenFamilies ----------------------------
(***************************************************************************)
(* What a family of refresh tokens promises to its owner.  A sign-in opens *)
(* a family, which then stands for one session: it stays open while its    *)
(* holder can still obtain access tokens with it, and once it is closed    *)
(* nothing opens it again.                                                 *)
(***************************************************************************)
CONSTANT Families
VARIABLE session

TypeOK == session \in [Families -> {"new", "open", "closed"}]

Init == session = [f \in Families |-> "new"]

(* A sign-in. *)
Open(f) ==
    /\ session[f] = "new"
    /\ session' = [session EXCEPT ![f] = "open"]

(* A sign-out, a detected reuse, an expiry; a change of password, a reset   *)
(* and the end of an account close all the sessions of the user at once.   *)
Close(F) ==
    /\ \A f \in F : session[f] = "open"
    /\ session' = [f \in Families |-> IF f \in F THEN "closed" ELSE session[f]]

Next ==
    \/ \E f \in Families : Open(f)
    \/ \E F \in SUBSET Families : Close(F)

Spec == Init /\ [][Next]_session
=============================================================================
