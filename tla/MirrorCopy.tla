----------------------------- MODULE MirrorCopy -----------------------------
(***************************************************************************)
(* The mirror tool, scripts/archive/network_to_local_copy.py, with the     *)
(* presets of its menu, network_to_local_menu.py.  A run walks the source, *)
(* compares it with the snapshot of the run before, saves the new snapshot *)
(* and only then asks whether to copy what changed.  Folders are copied by *)
(* processes of their own, robocopy, some at a time; here a folder holds   *)
(* one file.  The source changes at any time, and an operator runs one     *)
(* tool at a time.                                                         *)
(***************************************************************************)
EXTENDS Integers, FiniteSets

CONSTANTS
    Files,          \* image files of the source, by relative path
    Frames,         \* those that are numbered frames of an animation
    Sizes,          \* sizes of files, ordered
    Targets,        \* target folders
    Presets,        \* the operator's settings
    Processes,      \* ROBOCOPY_PROCESSES
    MaxAge,         \* bound: changes of a file
    None

VARIABLES
    source,         \* file -> its size, or None
    age,            \* file -> how often it changed; its modification time
    base,           \* the snapshot file: the paths it left out, file -> metadata
    mirror,         \* target -> file -> size
    preset,         \* the active preset
    run,            \* locals of the run
    loose,          \* copy processes whose run is over
    trust           \* observer: see Trusted

mirrorVars == <<source, age, base, mirror, preset, run, loose, trust>>

(* hidden are the paths that are not walked; wanted says what the names of *)
(* folders and the extensions let through; no limit is a high one.         *)
ASSUME MirrorAssumption ==
    /\ Processes \in Nat \ {0} /\ Sizes \subseteq Nat
    /\ None \notin Sizes /\ None \notin Presets
    /\ Presets \subseteq [hidden : SUBSET Files, wanted : SUBSET Files,
                          limit : Nat, target : Targets]

Existing == {f \in Files : source[f] # None}
Visible == Existing \ preset.hidden
Metadata(f) == [size |-> source[f], time |-> age[f]]

Idle == [step |-> "rest", new |-> <<>>, changed |-> {}, full |-> FALSE,
         waiting |-> {}, active |-> {}]

(* The source. *)
Change(f) ==
    /\ age[f] < MaxAge
    /\ age' = [age EXCEPT ![f] = @ + 1]
    /\ \E size \in Sizes \cup {None} : source' = [source EXCEPT ![f] = size]
    /\ UNCHANGED <<base, mirror, preset, run, loose, trust>>

(* The menu: another preset, or another value in the one. *)
ChoosePreset ==
    /\ run.step = "rest"
    /\ preset' \in Presets \ {preset}
    /\ UNCHANGED <<source, age, base, mirror, run, loose, trust>>

(* build_snapshot.  A file whose stat fails is passed over; a folder that  *)
(* cannot be read ends the run before it did anything.                     *)
Walk ==
    /\ run.step = "rest"
    /\ \E seen \in SUBSET Visible :
        run' = [Idle EXCEPT !.step = "walked", !.new = [f \in seen |-> Metadata(f)]]
    /\ UNCHANGED <<source, age, base, mirror, preset, loose, trust>>

(* load_snapshot: a snapshot of other paths does not count. *)
Usable == base # None /\ base.hidden = preset.hidden

Differs(f) == f \notin DOMAIN base.files \/ base.files[f] # run.new[f]

Snapshot == [hidden |-> preset.hidden, files |-> run.new]

(* The comparison, and save_snapshot: the new one is in place from here on. *)
SaveSnapshot ==
    /\ run.step = "walked"
    /\ run' = [run EXCEPT
            !.step = "saved",
            !.full = ~Usable,
            !.changed = {f \in DOMAIN run.new : Usable => Differs(f)}]
    /\ base' = Snapshot
    /\ UNCHANGED <<source, age, mirror, preset, loose, trust>>

Copied == mirror[preset.target]

(* Mutant: a file of this name is enough. *)
AtTargetByName(f) == f \in DOMAIN Copied

(* filter_existing_target_files: a file of this name and size. *)
AtTarget(f) == f \in DOMAIN Copied /\ Copied[f] = run.new[f].size

Selected(f) == f \in preset.wanted /\ run.new[f].size <= preset.limit

(* filter_images counts the frames of the walk, also those that did not     *)
(* change; most frames of a sequence are not among Files, and so any of     *)
(* these may be in one that is too long.                                    *)
LongSequences == SUBSET (Frames \cap run.changed)

(* The filters, the preview, and the question. *)
PlanCopy ==
    /\ run.step = "saved"
    /\ \E long \in LongSequences :
        /\ run' = [run EXCEPT
                !.step = "confirm",
                !.waiting = {f \in run.changed \ long : Selected(f) /\ ~AtTarget(f)}]
        /\ trust' = [trust EXCEPT !.skipped = (@ \ run.changed) \cup long]
    /\ UNCHANGED <<source, age, base, mirror, preset, loose>>

NoTrust == [preset |-> None, skipped |-> {}]

(* What is known of the mirror when a run is over: all runs since the last *)
(* one without a usable snapshot were of this preset and went through.     *)
Trusted(complete) ==
    IF complete /\ (run.full \/ trust.preset = preset)
    THEN [trust EXCEPT !.preset = preset]
    ELSE NoTrust

Confirm ==
    /\ run.step = "confirm"
    /\ run' = IF run.waiting = {} THEN Idle ELSE [run EXCEPT !.step = "copy"]
    /\ trust' = IF run.waiting = {} THEN Trusted(TRUE) ELSE trust
    /\ UNCHANGED <<source, age, base, mirror, preset, loose>>

Decline ==
    /\ run.step = "confirm"
    /\ run' = Idle
    /\ trust' = Trusted(run.waiting = {})
    /\ UNCHANGED <<source, age, base, mirror, preset, loose>>

StartCopy(f) ==
    /\ run.step = "copy" /\ f \in run.waiting
    /\ Cardinality(run.active) < Processes
    /\ run' = [run EXCEPT !.waiting = @ \ {f}, !.active = @ \cup {f}]
    /\ UNCHANGED <<source, age, base, mirror, preset, loose, trust>>

(* robocopy copies what it finds now, and is content to find nothing. *)
Deliver(T, f) ==
    mirror' = IF f \in Existing
              THEN [mirror EXCEPT ![T] = [g \in DOMAIN @ \cup {f} |->
                                             IF g = f THEN source[f] ELSE @[g]]]
              ELSE mirror

CopyEnds(f) ==
    /\ run.step = "copy" /\ f \in run.active
    /\ Deliver(preset.target, f)
    /\ LET last == run.waiting = {} /\ run.active = {f}
       IN /\ run' = IF last THEN Idle ELSE [run EXCEPT !.active = @ \ {f}]
          /\ trust' = IF last THEN Trusted(TRUE) ELSE trust
    /\ UNCHANGED <<source, age, base, preset, loose>>

(* The first failure ends the run; nobody stops the other processes. *)
CopyFails(f) ==
    /\ run.step = "copy" /\ f \in run.active
    /\ run' = Idle
    /\ loose' = loose \cup ({preset.target} \X (run.active \ {f}))
    /\ trust' = Trusted(FALSE)
    /\ UNCHANGED <<source, age, base, mirror, preset>>

LooseCopyEnds(T, f) ==
    /\ <<T, f>> \in loose
    /\ loose' = loose \ {<<T, f>>}
    /\ Deliver(T, f) \/ UNCHANGED mirror
    /\ UNCHANGED <<source, age, base, preset, run, trust>>

(* The operator breaks off, or the walk of the target fails; copy processes *)
(* may or may not hear of it.                                               *)
Interrupt ==
    /\ run.step # "rest"
    /\ run' = Idle
    /\ \E others \in SUBSET run.active : loose' = loose \cup ({preset.target} \X others)
    /\ trust' = IF run.step = "walked" THEN trust ELSE Trusted(FALSE)
    /\ UNCHANGED <<source, age, base, mirror, preset>>

MirrorInit ==
    /\ source \in [Files -> Sizes \cup {None}]
    /\ age = [f \in Files |-> 0]
    /\ base = None
    /\ mirror = [T \in Targets |-> [f \in {} |-> 0]]
    /\ preset \in Presets
    /\ run = Idle
    /\ loose = {}
    /\ trust = NoTrust

MirrorNext ==
    \/ \E f \in Files :
        Change(f) \/ StartCopy(f) \/ CopyEnds(f) \/ CopyFails(f)
    \/ ChoosePreset \/ Walk \/ SaveSnapshot \/ PlanCopy \/ Confirm \/ Decline \/ Interrupt
    \/ \E T \in Targets, f \in Files : LooseCopyEnds(T, f)

MirrorSpec == MirrorInit /\ [][MirrorNext]_mirrorVars

-----------------------------------------------------------------------------
(* Properties.                                                             *)

(* Between runs the target has every file that the snapshot shows, the      *)
(* preset lets through and the source has not changed since, in the size    *)
(* the snapshot shows, whatever the source did meanwhile and whatever       *)
(* processes earlier runs left behind.  Each condition is a loss that the   *)
(* tool does not make good, for a file that is in the snapshot is not       *)
(* looked at again: a run that was declined, failed or was broken off, one  *)
(* for another target or with other filters, and a sequence that was too    *)
(* long when the file last changed.                                         *)
MirrorKeepsUp ==
    run.step = "rest" /\ trust.preset # None =>
        \A f \in (DOMAIN base.files \cap trust.preset.wanted) \ trust.skipped :
            /\ f \in Existing /\ base.files[f] = Metadata(f)
            /\ base.files[f].size <= trust.preset.limit
            => /\ f \in DOMAIN mirror[trust.preset.target]
               /\ mirror[trust.preset.target][f] = base.files[f].size
=============================================================================
