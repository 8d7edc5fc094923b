---------------------------- MODULE ScanControl ----------------------------
(***************************************************************************)
(* How scans are started, paused and resumed: the threads of               *)
(* backend/app/scheduler.py and the state they share in indexer.py. The    *)
(* routes of api/routes.py run in a pool of threads, so several requests   *)
(* are under way at once, and each looks at the state before it acts on it.*)
(* A step is what a thread does between two accesses to shared state.      *)
(*                                                                         *)
(* What a scan does to the catalogue is the matter of ScanIndex; here it   *)
(* looks at the gate from time to time and ends or fails at some point.    *)
(***************************************************************************)
EXTENDS Naturals, FiniteSets

CONSTANTS
    Callers,  \* the threads of the pool that serves requests
    Threads   \* the threads that a scan may be given

VARIABLES
    state,       \* status["state"]
    gate,        \* _pause_gate: TRUE when set
    busy,        \* ScanScheduler._busy is held
    scanLock,    \* Indexer._scan_lock is held
    checkpoint,  \* the phase of the checkpoint, in memory and on disk
    call,        \* where each caller stands
    at,          \* where each scan thread stands
    mode,        \* which of the two entry points a scan thread runs
    promised,    \* a pause was accepted that the scan has not seen (history)
    setupFailed  \* a resumed scan died before its try block (history)

shared  == <<state, gate, busy, scanLock, checkpoint>>
threads == <<at, mode>>
history == <<promised, setupFailed>>
vars == <<state, gate, busy, scanLock, checkpoint, call, at, mode, promised, setupFailed>>

-----------------------------------------------------------------------------
States == {"idle", "scanning", "paused", "error"}
Phases == {"none", "planning", "pending"}

(* "trigger" has seen that the state is not paused, "pause" that it is      *)
(* scanning. A resume tests the state, then the scan lock ("lock"), then    *)
(* opens the gate ("open"); or else tests the state again ("again"), then   *)
(* the checkpoint ("checkpoint"), and takes the busy lock ("resume").       *)
CallSteps == {"none", "trigger", "pause", "lock", "open", "again", "checkpoint", "resume"}

(* "read" reads the checkpoint of a resume; "acquire" waits for the scan    *)
(* lock; "gate" opens the gate; "announce" sets the state; "setup" prepares *)
(* a resumed scan; "work" is the scan, "save" and "hold" lead to the wait   *)
(* at the gate, "woken" and "report" away from it; "clear", "rest" and      *)
(* "failed" end it; "unlock" and "free" release the two locks.              *)
Places == {"none", "read", "acquire", "gate", "announce", "setup", "work", "save", "hold",
           "waiting", "woken", "report", "clear", "rest", "failed", "unlock", "free"}

(* The places under the scan lock. *)
Locked == Places \ {"none", "read", "acquire", "free"}

(* A start of the process: idle, or paused by a pending checkpoint; a       *)
(* corrupt index leaves the checkpoint behind and the state idle.           *)
Init ==
    /\ \/ state = "idle" /\ checkpoint \in {"none", "pending"} /\ gate = TRUE
       \/ state = "paused" /\ checkpoint = "pending" /\ gate = FALSE
    /\ busy = FALSE
    /\ scanLock = FALSE
    /\ call = [c \in Callers |-> "none"]
    /\ at = [t \in Threads |-> "none"]
    /\ mode = [t \in Threads |-> "scan"]
    /\ promised = FALSE
    /\ setupFailed = FALSE

-----------------------------------------------------------------------------
(* Requests *)

Go(c, from, to) == call[c] = from /\ call' = [call EXCEPT ![c] = to]

(* Mutant: the state is not looked at. *)
TriggerCheckNot(c) == Go(c, "none", "trigger") /\ UNCHANGED <<shared, threads, history>>

(* trigger_now: refused while paused... *)
TriggerCheck(c) ==
    /\ state # "paused"
    /\ Go(c, "none", "trigger")
    /\ UNCHANGED <<shared, threads, history>>

(* A new thread, for which the caller has taken the busy lock. *)
Spawn(entry, place) ==
    \E t \in Threads :
        /\ at[t] = "none"
        /\ at' = [at EXCEPT ![t] = place]
        /\ mode' = [mode EXCEPT ![t] = entry]

(* Mutant: the lock is looked at and taken later. *)
AcquireBusyLate == busy' = TRUE
AcquireBusy     == ~ busy /\ busy' = TRUE

(* ...or while the scheduler is busy. *)
TriggerStart(c) ==
    /\ Go(c, "trigger", "none")
    /\ AcquireBusy
    /\ Spawn("scan", "acquire")
    /\ UNCHANGED <<state, gate, scanLock, checkpoint, history>>

(* resume and trigger_now return False: another scan has the lock. *)
BusyRefuses(c) ==
    /\ busy
    /\ Go(c, "trigger", "none") \/ Go(c, "resume", "none")
    /\ UNCHANGED <<shared, threads, history>>

PauseCheck(c) ==
    /\ state = "scanning"
    /\ Go(c, "none", "pause")
    /\ UNCHANGED <<shared, threads, history>>

(* The answer is 202. The promise is made to the scan that is under way.    *)
PauseClear(c) ==
    /\ Go(c, "pause", "none")
    /\ gate' = FALSE
    /\ promised' = (\E t \in Threads : at[t] \in {"setup", "work"})
    /\ UNCHANGED <<state, busy, scanLock, checkpoint, threads, setupFailed>>

(* Indexer.resume: paused... *)
ResumeCheck(c) ==
    /\ state = "paused"
    /\ Go(c, "none", "lock")
    /\ UNCHANGED <<shared, threads, history>>

(* ...and the scan lock is held by the thread that waits. *)
ResumeCheckLock(c) ==
    /\ IF scanLock THEN Go(c, "lock", "open") ELSE Go(c, "lock", "again")
    /\ UNCHANGED <<shared, threads, history>>

ResumeOpen(c) ==
    /\ Go(c, "open", "none")
    /\ gate' = TRUE
    /\ UNCHANGED <<state, busy, scanLock, checkpoint, threads, history>>

(* ScanScheduler.resume: a paused scan of an earlier process. *)
ResumeCheckAgain(c) ==
    /\ IF state = "paused" THEN Go(c, "again", "checkpoint") ELSE Go(c, "again", "none")
    /\ UNCHANGED <<shared, threads, history>>

ResumeCheckCheckpoint(c) ==
    /\ IF checkpoint # "none" THEN Go(c, "checkpoint", "resume") ELSE Go(c, "checkpoint", "none")
    /\ UNCHANGED <<shared, threads, history>>

(* Mutant: a resume does not take the busy lock. *)
ResumeStartUnchecked(c) ==
    /\ Go(c, "resume", "none")
    /\ Spawn("resume", "read")
    /\ UNCHANGED <<shared, history>>

ResumeStart(c) ==
    /\ Go(c, "resume", "none")
    /\ AcquireBusy
    /\ Spawn("resume", "read")
    /\ UNCHANGED <<state, gate, scanLock, checkpoint, history>>

-----------------------------------------------------------------------------
(* A scan thread *)

Move(t, from, to) == at[t] = from /\ at' = [at EXCEPT ![t] = to]

(* resume_from_checkpoint: without a checkpoint it raises; one that is not  *)
(* pending is dropped and its scan done from the start.                     *)
ReadCheckpoint(t) ==
    /\ CASE checkpoint = "none" ->
                Move(t, "read", "free") /\ UNCHANGED <<checkpoint, mode>>
         [] checkpoint = "planning" ->
                Move(t, "read", "acquire") /\ checkpoint' = "none"
                    /\ mode' = [mode EXCEPT ![t] = "scan"]
         [] checkpoint = "pending" ->
                Move(t, "read", "acquire") /\ UNCHANGED <<checkpoint, mode>>
    /\ UNCHANGED <<state, gate, busy, scanLock, call, history>>

Acquire(t) ==
    /\ Move(t, "acquire", "gate")
    /\ ~ scanLock
    /\ scanLock' = TRUE
    /\ UNCHANGED <<state, gate, busy, checkpoint, call, mode, history>>

OpenGate(t) ==
    /\ Move(t, "gate", "announce")
    /\ gate' = TRUE
    /\ UNCHANGED <<state, busy, scanLock, checkpoint, call, mode, history>>

Announce(t) ==
    /\ Move(t, "announce", "setup")
    /\ state' = "scanning"
    /\ UNCHANGED <<gate, busy, scanLock, checkpoint, call, mode, history>>

(* A new scan writes its planning checkpoint; a resumed one clones the      *)
(* index and collects the files.                                            *)
Setup(t) ==
    /\ Move(t, "setup", "work")
    /\ checkpoint' = IF mode[t] = "scan" THEN "planning" ELSE checkpoint
    /\ UNCHANGED <<state, gate, busy, scanLock, call, mode, history>>

(* What a new scan prepares is inside its try block, what a resumed one     *)
(* prepares is not.                                                         *)
SetupFails(t) ==
    /\ \/ mode[t] = "scan" /\ Move(t, "setup", "failed") /\ UNCHANGED setupFailed
       \/ mode[t] = "resume" /\ Move(t, "setup", "unlock") /\ setupFailed' = TRUE
    /\ promised' = FALSE
    /\ UNCHANGED <<shared, call, mode>>

(* _wait_if_paused: the gate is found closed. *)
SeePause(t) ==
    /\ Move(t, "work", "save")
    /\ ~ gate
    /\ promised' = FALSE
    /\ UNCHANGED <<shared, call, mode, setupFailed>>

(* The snapshot callback: of the plan, or of the batches. *)
SavePause(t) ==
    /\ Move(t, "save", "hold")
    /\ checkpoint' \in IF mode[t] = "scan" THEN {"planning", "pending"} ELSE {"pending"}
    /\ UNCHANGED <<state, gate, busy, scanLock, call, mode, history>>

(* Mutant: the thread waits without a word. *)
AnnouncePauseNot(t) == Move(t, "hold", "waiting") /\ UNCHANGED <<shared, call, mode, history>>

AnnouncePause(t) ==
    /\ Move(t, "hold", "waiting")
    /\ state' = "paused"
    /\ UNCHANGED <<gate, busy, scanLock, checkpoint, call, mode, history>>

Wake(t) ==
    /\ Move(t, "waiting", "woken")
    /\ gate
    /\ UNCHANGED <<shared, call, mode, history>>

(* state is paused, and nobody else changes it: *)
DropCheckpoint(t) ==
    /\ Move(t, "woken", "report")
    /\ checkpoint' = "none"
    /\ UNCHANGED <<state, gate, busy, scanLock, call, mode, history>>

(* Mutants: the state is not set again; it is set to a value of its own. *)
ReportScanningNot(t) == Move(t, "report", "work") /\ UNCHANGED <<shared, call, mode, history>>

ReportResumed(t) ==
    /\ Move(t, "report", "work")
    /\ state' = "resumed"
    /\ UNCHANGED <<gate, busy, scanLock, checkpoint, call, mode, history>>

ReportScanning(t) ==
    /\ Move(t, "report", "work")
    /\ state' = "scanning"
    /\ UNCHANGED <<gate, busy, scanLock, checkpoint, call, mode, history>>

(* The last look at the gate is past; what is accepted from now on, and     *)
(* what was accepted since that look, finds the scan over.                  *)
WorkEnds(t) ==
    /\ Move(t, "work", "clear")
    /\ promised' = FALSE
    /\ UNCHANGED <<shared, call, mode, setupFailed>>

(* The work, or the snapshot of a pause, raises.                            *)
WorkFails(t) ==
    /\ Move(t, "work", "failed") \/ Move(t, "save", "failed")
    /\ promised' = FALSE
    /\ UNCHANGED <<shared, call, mode, setupFailed>>

ClearCheckpoint(t) ==
    /\ Move(t, "clear", "rest")
    /\ checkpoint' = "none"
    /\ UNCHANGED <<state, gate, busy, scanLock, call, mode, history>>

(* Mutant: an exception does not change the state. *)
RestUnlessFailed(t) ==
    /\ \/ Move(t, "rest", "unlock") /\ state' = "idle"
       \/ Move(t, "failed", "unlock") /\ UNCHANGED state
    /\ UNCHANGED <<gate, busy, scanLock, checkpoint, call, mode, history>>

Rest(t) ==
    /\ \/ Move(t, "rest", "unlock") /\ state' = "idle"
       \/ Move(t, "failed", "unlock") /\ state' = "error"
    /\ UNCHANGED <<gate, busy, scanLock, checkpoint, call, mode, history>>

(* Mutant: the lock is not released. *)
UnlockNot(t) == Move(t, "unlock", "free") /\ UNCHANGED <<shared, call, mode, history>>

Unlock(t) ==
    /\ Move(t, "unlock", "free")
    /\ scanLock' = FALSE
    /\ UNCHANGED <<state, gate, busy, checkpoint, call, mode, history>>

Free(t) ==
    /\ Move(t, "free", "none")
    /\ busy' = FALSE
    /\ UNCHANGED <<state, gate, scanLock, checkpoint, call, mode, history>>

-----------------------------------------------------------------------------
Request(c) ==
    \/ TriggerCheck(c)
    \/ TriggerStart(c)
    \/ BusyRefuses(c)
    \/ PauseCheck(c)
    \/ PauseClear(c)
    \/ ResumeCheck(c)
    \/ ResumeCheckLock(c)
    \/ ResumeOpen(c)
    \/ ResumeCheckAgain(c)
    \/ ResumeCheckCheckpoint(c)
    \/ ResumeStart(c)

Step(t) ==
    \/ ReadCheckpoint(t)
    \/ Acquire(t)
    \/ OpenGate(t)
    \/ Announce(t)
    \/ Setup(t)
    \/ SetupFails(t)
    \/ SeePause(t)
    \/ SavePause(t)
    \/ AnnouncePause(t)
    \/ Wake(t)
    \/ DropCheckpoint(t)
    \/ ReportScanning(t)
    \/ WorkEnds(t)
    \/ WorkFails(t)
    \/ ClearCheckpoint(t)
    \/ Rest(t)
    \/ Unlock(t)
    \/ Free(t)

Next == (\E c \in Callers : Request(c)) \/ (\E t \in Threads : Step(t))

Spec == Init /\ [][Next]_vars

(* Every thread runs while it can; nobody has to make a request.            *)
FairSpec == Spec /\ \A t \in Threads : WF_vars(Step(t))

-----------------------------------------------------------------------------
(* Properties *)

Scans == {t \in Threads : at[t] # "none"}

TypeOK ==
    /\ state \in States
    /\ gate \in BOOLEAN /\ busy \in BOOLEAN /\ scanLock \in BOOLEAN
    /\ checkpoint \in Phases
    /\ call \in [Callers -> CallSteps]
    /\ at \in [Threads -> Places]
    /\ mode \in [Threads -> {"scan", "resume"}]
    /\ promised \in BOOLEAN /\ setupFailed \in BOOLEAN

(* The two locks tell the truth: the scheduler is busy exactly while one    *)
(* scan thread lives, and the scan lock is held exactly while one is in its *)
(* scan, so that no thread ever waits for it behind another.                *)
LocksTellTheTruth ==
    /\ \A t, u \in Scans : t = u
    /\ busy <=> Scans # {}
    /\ scanLock <=> \E t \in Scans : at[t] \in Locked

(* A thread that waits at the gate can be released: the state says paused,  *)
(* which is what a resume asks for, until the gate is open again.           *)
WaitingCanBeResumed ==
    \A t \in Threads : at[t] \in {"waiting", "woken"} => state = "paused" /\ scanLock

(* checkpoint.py warns of a phantom paused state that refuses every scan.   *)
(* When the state is paused, either a thread is waiting or on its way, or a *)
(* pending checkpoint is there to be resumed.                               *)
PausedIsNoPhantom ==
    state = "paused" =>
        \/ \E t \in Scans : at[t] \in {"waiting", "woken", "report"}
        \/ checkpoint = "pending"

(* What the statistics show: scanning means that a scan thread is at work,  *)
(* except after a resumed scan that died before its try block.              *)
ScanningMeansBusy == (state = "scanning" /\ ~ setupFailed) => busy

(* A scan that an earlier process left paused is resumed and never          *)
(* replaced: while it stands, no trigger starts a new scan over it, however *)
(* long ago the trigger looked at the state.                                *)
PausedScanIsNotReplaced ==
    [][state = "paused" /\ ~ busy /\ busy' => \E t \in Threads : at'[t] = "read"]_vars

(* README.md: a pause takes effect at the next checkpoint. Then no request  *)
(* opens the gate again before the scan has seen it closed.                 *)
PauseIsNotUndone == promised => ~ gate

(* Every scan that is started ends, or stands paused.                       *)
StartedScanSettles == \A t \in Threads : (at[t] # "none") ~> (at[t] \in {"none", "waiting"})

(* The scheduler's promise.                                                 *)
Service == INSTANCE ScanService
             WITH active <- Scans, onHold <- \E t \in Scans : at[t] = "waiting"

ServiceSpec == Service!Spec

=============================================================================
