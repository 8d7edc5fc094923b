---------------------------- MODULE ScanService ----------------------------
(***************************************************************************)
(* What backend/app/scheduler.py promises its callers: "Background manual  *)
(* rescans that never overlap". A scan runs in a thread of its own, one at *)
(* a time, and is put on hold and released in place.                       *)
(***************************************************************************)
EXTENDS FiniteSets

CONSTANT Threads

VARIABLES
    active,  \* the threads that carry a scan
    onHold   \* the scan waits for its release

svars == <<active, onHold>>

Init == active = {} /\ onHold = FALSE

Start(t) == active = {} /\ active' = {t} /\ UNCHANGED onHold

Hold == active # {} /\ ~ onHold /\ onHold' = TRUE /\ UNCHANGED active

Release == onHold /\ onHold' = FALSE /\ UNCHANGED active

End == active # {} /\ ~ onHold /\ active' = {} /\ UNCHANGED onHold

Next == (\E t \in Threads : Start(t)) \/ Hold \/ Release \/ End

Spec == Init /\ [][Next]_svars

=============================================================================
