------------------------- MODULE ScanControlProofs -------------------------
(***************************************************************************)
(* Proofs about ScanControl for any number of callers and scan threads:    *)
(* scans never overlap, a paused scan can be resumed, nothing replaces it, *)
(* and the scheduler keeps the promise stated in ScanService.              *)
(***************************************************************************)
EXTENDS ScanControl, TLAPS

(* The places before a scan announces itself and after it has ended.        *)
Outside == {"read", "acquire", "gate", "announce", "unlock", "free"}

(* What the state says follows from where the one scan thread stands.       *)
PlaceOK(t) ==
    /\ at[t] \in {"setup", "work", "save", "hold", "clear", "rest", "failed"} => state = "scanning"
    /\ at[t] \in {"waiting", "woken", "report"} => state = "paused"
    /\ at[t] \in {"unlock", "free"} => state # "paused"
    /\ at[t] \in Outside /\ state = "paused" => checkpoint = "pending"
    /\ at[t] \in Outside /\ state = "scanning" => setupFailed

PlacesOK == \A t \in Scans : PlaceOK(t)

(* Without a scan, paused means a pending checkpoint that no trigger has    *)
(* overlooked.                                                              *)
RestOK ==
    ~ busy =>
        /\ state = "paused" => checkpoint = "pending" /\ \A c \in Callers : call[c] # "trigger"
        /\ state = "scanning" => setupFailed

IInv == TypeOK /\ LocksTellTheTruth /\ PlacesOK /\ RestOK

-----------------------------------------------------------------------------
LEMMA InitOK == Init => IInv
  BY DEF Init, IInv, TypeOK, LocksTellTheTruth, PlacesOK, RestOK, Scans, States, Phases, CallSteps, Places

(* A request that changes none of the shared variables and no thread.       *)
LEMMA RequestLooks ==
    ASSUME NEW c \in Callers, NEW from, NEW to \in CallSteps, IInv, Go(c, from, to),
           to = "trigger" => state # "paused" \/ busy,
           UNCHANGED <<shared, threads, history>>
    PROVE  IInv'
  BY DEF IInv, Go, TypeOK, LocksTellTheTruth, PlacesOK, PlaceOK, RestOK, Scans, shared, threads, history

(* A request that starts a scan thread finds none at work.                  *)
LEMMA RequestSpawns ==
    ASSUME NEW c \in Callers, NEW from, IInv, Go(c, from, "none"), AcquireBusy,
           NEW entry \in {"scan", "resume"}, NEW place \in {"read", "acquire"}, Spawn(entry, place),
           UNCHANGED <<state, gate, scanLock, checkpoint, history>>
    PROVE  IInv' /\ Scans = {} /\ \E t \in Threads : Scans' = {t} /\ at'[t] = place
<1>1. PICK t \in Threads : at[t] = "none" /\ at' = [at EXCEPT ![t] = place]
                           /\ mode' = [mode EXCEPT ![t] = entry]
  BY DEF Spawn
<1>2. ~ busy /\ busy' /\ Scans = {}
  BY DEF AcquireBusy, IInv, LocksTellTheTruth
<1>3. TypeOK'
  BY <1>1, <1>2 DEF IInv, TypeOK, Go, CallSteps, Places, history
<1>4. Scans' = {t} /\ at'[t] = place
  BY <1>1, <1>2, <1>3 DEF IInv, TypeOK, Scans
<1>5. LocksTellTheTruth'
  BY <1>1, <1>2, <1>4 DEF IInv, LocksTellTheTruth, Locked, Scans
<1>6. PlacesOK'
  BY <1>2, <1>4 DEF IInv, RestOK, PlacesOK, PlaceOK, history
<1>7. RestOK'
  BY <1>2 DEF RestOK
<1> QED
  BY <1>2, <1>3, <1>4, <1>5, <1>6, <1>7 DEF IInv

(* The requests that open or close the gate.                                *)
LEMMA RequestMovesGate ==
    ASSUME NEW c \in Callers, NEW from, IInv, Go(c, from, "none"), gate' \in BOOLEAN,
           promised' \in BOOLEAN, UNCHANGED <<state, busy, scanLock, checkpoint, threads, setupFailed>>
    PROVE  IInv'
  BY DEF IInv, Go, TypeOK, LocksTellTheTruth, PlacesOK, PlaceOK, RestOK, Scans, threads, CallSteps

LEMMA RequestOK == ASSUME NEW c \in Callers, IInv, Request(c) PROVE IInv'
<1>1. CASE TriggerCheck(c)
  BY <1>1, RequestLooks DEF TriggerCheck, CallSteps
<1>2. CASE TriggerStart(c)
  BY <1>2, RequestSpawns DEF TriggerStart
<1>3. CASE BusyRefuses(c)
  BY <1>3, RequestLooks DEF BusyRefuses, CallSteps
<1>4. CASE PauseCheck(c)
  BY <1>4, RequestLooks DEF PauseCheck, CallSteps
<1>5. CASE PauseClear(c)
  BY <1>5, RequestMovesGate DEF PauseClear
<1>6. CASE ResumeCheck(c)
  BY <1>6, RequestLooks DEF ResumeCheck, CallSteps
<1>7. CASE ResumeCheckLock(c)
  BY <1>7, RequestLooks DEF ResumeCheckLock, CallSteps
<1>8. CASE ResumeOpen(c)
  BY <1>8, RequestMovesGate DEF ResumeOpen, history, IInv, TypeOK
<1>9. CASE ResumeCheckAgain(c)
  BY <1>9, RequestLooks DEF ResumeCheckAgain, CallSteps
<1>10. CASE ResumeCheckCheckpoint(c)
  BY <1>10, RequestLooks DEF ResumeCheckCheckpoint, CallSteps
<1>11. CASE ResumeStart(c)
  BY <1>11, RequestSpawns DEF ResumeStart
<1> QED
  BY <1>1, <1>2, <1>3, <1>4, <1>5, <1>6, <1>7, <1>8, <1>9, <1>10, <1>11 DEF Request

-----------------------------------------------------------------------------
(* The thread that moves is the only one: what is to be shown after a move  *)
(* is about it alone.                                                       *)
LEMMA Moved ==
    ASSUME NEW t \in Threads, NEW a \in Places \ {"none"}, NEW b \in Places \ {"none"},
           IInv, Move(t, a, b)
    PROVE  /\ busy /\ (scanLock <=> a \in Locked) /\ at[t] = a /\ PlaceOK(t)
           /\ at' \in [Threads -> Places] /\ at'[t] = b
           /\ Scans = {t} /\ Scans' = {t}
           /\ (busy' /\ (scanLock' <=> b \in Locked)) => LocksTellTheTruth'
           /\ (busy' /\ PlaceOK(t)') => PlacesOK' /\ RestOK'
<1>1. at[t] = a /\ at' \in [Threads -> Places] /\ at'[t] = b
  BY DEF Move, IInv, TypeOK
<1>2. Scans = {t}
  BY <1>1 DEF IInv, LocksTellTheTruth, Scans
<1>3. Scans' = {t}
  BY <1>1, <1>2 DEF Move, IInv, TypeOK, Scans
<1>4. busy /\ (scanLock <=> a \in Locked) /\ PlaceOK(t)
  BY <1>1, <1>2 DEF IInv, LocksTellTheTruth, PlacesOK
<1>5. (busy' /\ (scanLock' <=> b \in Locked)) => LocksTellTheTruth'
  BY <1>1, <1>3 DEF LocksTellTheTruth
<1>6. (busy' /\ PlaceOK(t)') => PlacesOK' /\ RestOK'
  BY <1>3 DEF PlacesOK, RestOK
<1> QED
  BY <1>1, <1>2, <1>3, <1>4, <1>5, <1>6

(* A move that stays on its side of the scan lock and keeps the busy lock.  *)
LEMMA MovedWithin ==
    ASSUME NEW t \in Threads, NEW a \in Places \ {"none"}, NEW b \in Places \ {"none"},
           IInv, Move(t, a, b), UNCHANGED <<busy, scanLock>>, a \in Locked <=> b \in Locked,
           PlaceOK(t)', TypeOK'
    PROVE  IInv'
  BY Moved DEF IInv

LEMMA StepOK == ASSUME NEW t \in Threads, IInv, Step(t) PROVE IInv'
<1> USE DEF Places
<1>1. CASE ReadCheckpoint(t)
  <2>1. CASE checkpoint = "none"
    <3>1. Move(t, "read", "free")
      BY <1>1, <2>1 DEF ReadCheckpoint
    <3>2. PlaceOK(t)'
      BY <1>1, <2>1, <3>1, Moved DEF ReadCheckpoint, PlaceOK, Outside, history
    <3>3. TypeOK'
      BY <1>1, <2>1, <3>1, Moved DEF ReadCheckpoint, IInv, TypeOK, history
    <3> QED
      BY <1>1, <3>1, <3>2, <3>3, MovedWithin DEF ReadCheckpoint, Locked
  <2>2. CASE checkpoint # "none"
    <3>1. Move(t, "read", "acquire")
      BY <1>1, <2>2 DEF ReadCheckpoint, IInv, TypeOK, Phases
    <3>2. PlaceOK(t)'
      <4>1. at[t] = "read" /\ at'[t] = "acquire" /\ PlaceOK(t)
        BY <3>1, Moved
      <4>2. UNCHANGED <<state, setupFailed>> /\ (checkpoint = "pending" => UNCHANGED checkpoint)
        BY <1>1, <2>2 DEF ReadCheckpoint, history
      <4> QED
        BY <4>1, <4>2 DEF PlaceOK, Outside
    <3>3. TypeOK'
      BY <1>1, <2>2, <3>1, Moved DEF ReadCheckpoint, IInv, TypeOK, Phases, history
    <3> QED
      BY <1>1, <3>1, <3>2, <3>3, MovedWithin DEF ReadCheckpoint, Locked
  <2> QED
    BY <2>1, <2>2
<1>2. CASE Acquire(t)
  <2>1. TypeOK' /\ PlaceOK(t)'
    BY <1>2, Moved DEF Acquire, IInv, TypeOK, PlaceOK, Outside, history
  <2> QED
    BY <1>2, <2>1, Moved DEF Acquire, IInv, Locked
<1>3. CASE OpenGate(t)
  <2>1. TypeOK' /\ PlaceOK(t)'
    BY <1>3, Moved DEF OpenGate, IInv, TypeOK, PlaceOK, Outside, history
  <2> QED
    BY <1>3, <2>1, MovedWithin DEF OpenGate, Locked
<1>4. CASE Announce(t)
  <2>1. TypeOK' /\ PlaceOK(t)'
    BY <1>4, Moved DEF Announce, IInv, TypeOK, States, PlaceOK, Outside, history
  <2> QED
    BY <1>4, <2>1, MovedWithin DEF Announce, Locked
<1>5. CASE Setup(t)
  <2>1. TypeOK' /\ PlaceOK(t)'
    BY <1>5, Moved DEF Setup, IInv, TypeOK, Phases, PlaceOK, Outside, history
  <2> QED
    BY <1>5, <2>1, MovedWithin DEF Setup, Locked
<1>6. CASE SetupFails(t)
  <2>1. CASE Move(t, "setup", "failed") /\ UNCHANGED setupFailed
    <3>1. TypeOK' /\ PlaceOK(t)'
      BY <1>6, <2>1, Moved DEF SetupFails, IInv, TypeOK, PlaceOK, Outside, shared
    <3> QED
      BY <1>6, <2>1, <3>1, MovedWithin DEF SetupFails, Locked, shared
  <2>2. CASE Move(t, "setup", "unlock") /\ setupFailed' = TRUE
    <3>1. at'[t] = "unlock" /\ at' \in [Threads -> Places] /\ state = "scanning" /\ UNCHANGED shared
      BY <1>6, <2>2, Moved DEF SetupFails, PlaceOK
    <3>2. TypeOK'
      BY <1>6, <2>2, <3>1 DEF SetupFails, IInv, TypeOK, shared
    <3>3. PlaceOK(t)'
      BY <2>2, <3>1 DEF PlaceOK, Outside, shared
    <3> QED
      BY <1>6, <2>2, <3>2, <3>3, MovedWithin DEF SetupFails, Locked, shared
  <2> QED
    BY <1>6, <2>1, <2>2 DEF SetupFails
<1>7. CASE SeePause(t)
  <2>1. at[t] = "work" /\ at'[t] = "save" /\ at' \in [Threads -> Places] /\ PlaceOK(t)
    BY <1>7, Moved DEF SeePause
  <2>2. TypeOK'
    BY <1>7, <2>1 DEF SeePause, IInv, TypeOK, shared
  <2>3. PlaceOK(t)'
    BY <1>7, <2>1 DEF SeePause, PlaceOK, Outside, shared
  <2> QED
    BY <1>7, <2>2, <2>3, MovedWithin DEF SeePause, Locked, shared
<1>8. CASE SavePause(t)
  <2>1. TypeOK' /\ PlaceOK(t)'
    BY <1>8, Moved DEF SavePause, IInv, TypeOK, Phases, PlaceOK, Outside, history
  <2> QED
    BY <1>8, <2>1, MovedWithin DEF SavePause, Locked
<1>9. CASE AnnouncePause(t)
  <2>1. TypeOK' /\ PlaceOK(t)'
    BY <1>9, Moved DEF AnnouncePause, IInv, TypeOK, States, PlaceOK, Outside, history
  <2> QED
    BY <1>9, <2>1, MovedWithin DEF AnnouncePause, Locked
<1>10. CASE Wake(t)
  <2>1. TypeOK' /\ PlaceOK(t)'
    BY <1>10, Moved DEF Wake, IInv, TypeOK, PlaceOK, Outside, history, shared
  <2> QED
    BY <1>10, <2>1, MovedWithin DEF Wake, Locked, shared
<1>11. CASE DropCheckpoint(t)
  <2>1. TypeOK' /\ PlaceOK(t)'
    BY <1>11, Moved DEF DropCheckpoint, IInv, TypeOK, Phases, PlaceOK, Outside, history
  <2> QED
    BY <1>11, <2>1, MovedWithin DEF DropCheckpoint, Locked
<1>12. CASE ReportScanning(t)
  <2>1. TypeOK' /\ PlaceOK(t)'
    BY <1>12, Moved DEF ReportScanning, IInv, TypeOK, States, PlaceOK, Outside, history
  <2> QED
    BY <1>12, <2>1, MovedWithin DEF ReportScanning, Locked
<1>13. CASE WorkEnds(t)
  <2>1. at[t] = "work" /\ at'[t] = "clear" /\ at' \in [Threads -> Places] /\ PlaceOK(t)
    BY <1>13, Moved DEF WorkEnds
  <2>2. TypeOK'
    BY <1>13, <2>1 DEF WorkEnds, IInv, TypeOK, shared
  <2>3. PlaceOK(t)'
    BY <1>13, <2>1 DEF WorkEnds, PlaceOK, Outside, shared
  <2> QED
    BY <1>13, <2>2, <2>3, MovedWithin DEF WorkEnds, Locked, shared
<1>14. CASE WorkFails(t)
  <2>1. PICK a \in {"work", "save"} : Move(t, a, "failed")
    BY <1>14 DEF WorkFails
  <2>2. at[t] = a /\ at'[t] = "failed" /\ at' \in [Threads -> Places] /\ PlaceOK(t)
    BY <2>1, Moved
  <2>3. TypeOK'
    BY <1>14, <2>2 DEF WorkFails, IInv, TypeOK, shared
  <2>4. PlaceOK(t)'
    BY <1>14, <2>2 DEF WorkFails, PlaceOK, Outside, shared
  <2> QED
    BY <1>14, <2>1, <2>3, <2>4, MovedWithin DEF WorkFails, Locked, shared
<1>15. CASE ClearCheckpoint(t)
  <2>1. TypeOK' /\ PlaceOK(t)'
    BY <1>15, Moved DEF ClearCheckpoint, IInv, TypeOK, Phases, PlaceOK, Outside, history
  <2> QED
    BY <1>15, <2>1, MovedWithin DEF ClearCheckpoint, Locked
<1>16. CASE Rest(t)
  <2>1. TypeOK' /\ PlaceOK(t)'
    BY <1>16, Moved DEF Rest, IInv, TypeOK, States, PlaceOK, Outside, history
  <2> QED
    BY <1>16, <2>1, MovedWithin DEF Rest, Locked
<1>17. CASE Unlock(t)
  <2>1. at[t] = "unlock" /\ at'[t] = "free" /\ at' \in [Threads -> Places] /\ PlaceOK(t)
    BY <1>17, Moved DEF Unlock
  <2>2. TypeOK'
    BY <1>17, <2>1 DEF Unlock, IInv, TypeOK, history
  <2>3. PlaceOK(t)'
    BY <1>17, <2>1 DEF Unlock, PlaceOK, Outside, history
  <2> QED
    BY <1>17, <2>2, <2>3, Moved DEF Unlock, IInv, Locked
<1>18. CASE Free(t)
  <2>1. at[t] = "free" /\ ~ scanLock /\ Scans = {t} /\ PlaceOK(t)
    BY <1>18 DEF Free, Move, IInv, LocksTellTheTruth, PlacesOK, Scans, Locked
  <2>2. Scans' = {} /\ ~ busy'
    BY <1>18, <2>1 DEF Free, Move, IInv, TypeOK, Scans
  <2>4. TypeOK'
    BY <1>18 DEF Free, Move, IInv, TypeOK, history
  <2>3. LocksTellTheTruth' /\ PlacesOK' /\ RestOK'
    BY <1>18, <2>1, <2>2 DEF Free, LocksTellTheTruth, PlacesOK, PlaceOK, RestOK, Outside, history
  <2> QED
    BY <2>3, <2>4 DEF IInv
<1> QED
  BY <1>1, <1>2, <1>3, <1>4, <1>5, <1>6, <1>7, <1>8, <1>9, <1>10, <1>11, <1>12, <1>13, <1>14, <1>15,
     <1>16, <1>17, <1>18 DEF Step

LEMMA NextOK == IInv /\ [Next]_vars => IInv'
<1> SUFFICES ASSUME IInv, [Next]_vars PROVE IInv'
  OBVIOUS
<1>1. CASE UNCHANGED vars
  BY <1>1 DEF vars, IInv, TypeOK, LocksTellTheTruth, PlacesOK, PlaceOK, RestOK, Scans
<1>2. CASE Next
  BY <1>2, RequestOK, StepOK DEF Next
<1> QED
  BY <1>1, <1>2

(* The invariant that the results below follow from.                        *)
THEOREM Inductive == Spec => []IInv
  BY InitOK, NextOK, PTL DEF Spec

-----------------------------------------------------------------------------
(* Every variable keeps the kind of value the code gives it.                *)
THEOREM TypeCorrect == Spec => []TypeOK
  BY Inductive, PTL DEF IInv

(* Scans never overlap: one thread at most lives, and both locks say so.    *)
THEOREM NoOverlap == Spec => []LocksTellTheTruth
  BY Inductive, PTL DEF IInv

(* A thread that waits at the gate is in the state a resume asks for.       *)
THEOREM Resumable == Spec => []WaitingCanBeResumed
<1>1. IInv => WaitingCanBeResumed
  BY DEF IInv, LocksTellTheTruth, PlacesOK, PlaceOK, WaitingCanBeResumed, Scans, Locked, Places
<1> QED
  BY <1>1, Inductive, PTL

(* Paused is never said of nothing: somebody waits, or a pending checkpoint *)
(* stands.                                                                  *)
THEOREM NoPhantom == Spec => []PausedIsNoPhantom
<1>1. IInv => PausedIsNoPhantom
  <2> SUFFICES ASSUME IInv, state = "paused" PROVE PausedIsNoPhantom
    BY DEF PausedIsNoPhantom
  <2>1. CASE busy
    <3>1. PICK t \in Threads : at[t] # "none" /\ PlaceOK(t)
      BY <2>1 DEF IInv, LocksTellTheTruth, PlacesOK, Scans
    <3>2. at[t] \in Places
      BY DEF IInv, TypeOK
    <3>3. at[t] \in {"waiting", "woken", "report"} \/ at[t] \in Outside
      BY <3>1, <3>2 DEF PlaceOK, Outside, Places
    <3> QED
      BY <3>1, <3>3 DEF PausedIsNoPhantom, PlaceOK, Scans
  <2>2. CASE ~ busy
    BY <2>2 DEF IInv, RestOK, PausedIsNoPhantom
  <2> QED
    BY <2>1, <2>2
<1> QED
  BY <1>1, Inductive, PTL

(* The state says scanning only while a scan thread lives, or after a       *)
(* resumed scan died before its try block.                                  *)
THEOREM ScanningBusy == Spec => []ScanningMeansBusy
<1>1. IInv => ScanningMeansBusy
  BY DEF IInv, RestOK, ScanningMeansBusy
<1> QED
  BY <1>1, Inductive, PTL

(* What an earlier process left paused is resumed, never replaced.          *)
THEOREM NotReplaced == Spec => PausedScanIsNotReplaced
<1> DEFINE Kept == state = "paused" /\ ~ busy /\ busy' => \E t \in Threads : at'[t] = "read"
<1>1. IInv /\ [Next]_vars => [Kept]_vars
  <2> SUFFICES ASSUME IInv, Next, state = "paused", ~ busy, busy'
               PROVE  \E t \in Threads : at'[t] = "read"
    OBVIOUS
  <2>1. PICK c \in Callers : Request(c)
    <3>1. ASSUME NEW t \in Threads, Step(t) PROVE FALSE
      <4>1. at[t] # "none"
        BY <3>1 DEF Step, Move, ReadCheckpoint, Acquire, OpenGate, Announce, Setup, SetupFails, SeePause,
                    SavePause, AnnouncePause, Wake, DropCheckpoint, ReportScanning, WorkEnds, WorkFails,
                    ClearCheckpoint, Rest, Unlock, Free, IInv, TypeOK, Phases
      <4> QED
        BY <4>1 DEF IInv, LocksTellTheTruth, Scans
    <3> QED
      BY <3>1 DEF Next
  <2>2. call[c] # "trigger"
    BY DEF IInv, RestOK
  <2>3. ResumeStart(c)
    BY <2>1, <2>2 DEF Request, Go, TriggerCheck, TriggerStart, BusyRefuses, PauseCheck, PauseClear,
                      ResumeCheck, ResumeCheckLock, ResumeOpen, ResumeCheckAgain, ResumeCheckCheckpoint, shared
  <2> QED
    BY <2>3, RequestSpawns DEF ResumeStart
<1> QED
  BY <1>1, Inductive, PTL DEF Spec, PausedScanIsNotReplaced

-----------------------------------------------------------------------------
(* Refinement *)

OnHold == \E t \in Scans : at[t] = "waiting"

(* A request leaves the promise's state alone or starts a scan where there  *)
(* is none.                                                                 *)
LEMMA RequestRefines ==
    ASSUME NEW c \in Callers, IInv, Request(c)
    PROVE  Service!Next \/ UNCHANGED <<Scans, OnHold>>
<1>1. CASE TriggerStart(c) \/ ResumeStart(c)
  <2>1. Scans = {} /\ \E t \in Threads : Scans' = {t} /\ at'[t] \in {"read", "acquire"}
    BY <1>1, RequestSpawns DEF TriggerStart, ResumeStart
  <2>2. OnHold = FALSE /\ OnHold' = FALSE
    BY <2>1 DEF OnHold
  <2> QED
    BY <2>1, <2>2 DEF Service!Next, Service!Start, OnHold
<1>2. CASE ~ (TriggerStart(c) \/ ResumeStart(c))
  <2>1. UNCHANGED at
    BY <1>2 DEF Request, TriggerCheck, BusyRefuses, PauseCheck, PauseClear, ResumeCheck, ResumeCheckLock,
                ResumeOpen, ResumeCheckAgain, ResumeCheckCheckpoint, threads
  <2> QED
    BY <2>1 DEF Scans, OnHold
<1> QED
  BY <1>1, <1>2

(* A step of the scan thread holds, releases or ends it, or goes unseen.    *)
LEMMA StepRefines ==
    ASSUME NEW t \in Threads, IInv, Step(t)
    PROVE  Service!Next \/ UNCHANGED <<Scans, OnHold>>
<1>1. CASE Free(t)
  <2>1. at[t] = "free" /\ Scans = {t} /\ Scans' = {}
    BY <1>1 DEF Free, Move, IInv, TypeOK, LocksTellTheTruth, Scans
  <2>2. OnHold = FALSE /\ OnHold' = FALSE
    BY <2>1 DEF OnHold
  <2> QED
    BY <2>1, <2>2 DEF Service!Next, Service!End, OnHold
<1>2. CASE AnnouncePause(t)
  <2>1. Scans = {t} /\ Scans' = {t} /\ at[t] = "hold" /\ at'[t] = "waiting"
    BY <1>2, Moved DEF AnnouncePause, Places
  <2>2. OnHold = FALSE /\ OnHold' = TRUE
    BY <2>1 DEF OnHold
  <2> QED
    BY <2>1, <2>2 DEF Service!Next, Service!Hold, OnHold
<1>3. CASE Wake(t)
  <2>1. Scans = {t} /\ Scans' = {t} /\ at[t] = "waiting" /\ at'[t] = "woken"
    BY <1>3, Moved DEF Wake, Places
  <2>2. OnHold = TRUE /\ OnHold' = FALSE
    BY <2>1 DEF OnHold
  <2> QED
    BY <2>1, <2>2 DEF Service!Next, Service!Release, OnHold
<1>4. CASE ~ (Free(t) \/ AnnouncePause(t) \/ Wake(t))
  <2>1. PICK a \in Places \ {"none", "waiting"}, b \in Places \ {"none", "waiting"} : Move(t, a, b)
    BY <1>4 DEF Step, ReadCheckpoint, Acquire, OpenGate, Announce, Setup, SetupFails, SeePause,
                SavePause, DropCheckpoint, ReportScanning, WorkEnds, WorkFails, ClearCheckpoint, Rest,
                Unlock, Places, IInv, TypeOK, Phases
  <2>2. Scans = {t} /\ Scans' = {t} /\ at[t] = a /\ at'[t] = b
    BY <2>1, Moved
  <2>3. OnHold = FALSE /\ OnHold' = FALSE
    BY <2>1, <2>2 DEF OnHold
  <2> QED
    BY <2>2, <2>3
<1> QED
  BY <1>1, <1>2, <1>3, <1>4

(* The locks, checks and threads of the code keep the scheduler's promise.  *)
THEOREM Refinement == Spec => ServiceSpec
<1>1. Init => Service!Init
  BY DEF Init, Service!Init, Scans
<1>2. IInv /\ [Next]_vars => [Service!Next]_<<Scans, OnHold>>
  <2> SUFFICES ASSUME IInv, [Next]_vars PROVE Service!Next \/ UNCHANGED <<Scans, OnHold>>
    OBVIOUS
  <2>1. CASE UNCHANGED vars
    BY <2>1 DEF vars, Scans, OnHold
  <2>2. CASE Next
    BY <2>2, RequestRefines, StepRefines DEF Next
  <2> QED
    BY <2>1, <2>2
<1>3. [Service!Next]_<<Scans, OnHold>> <=> [Service!Next]_(Service!svars)
  BY DEF Service!svars, OnHold
<1> QED
  BY <1>1, <1>2, <1>3, Inductive, PTL DEF Spec, ServiceSpec, Service!Spec

=============================================================================
