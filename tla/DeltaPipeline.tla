--------------------------- MODULE DeltaPipeline ---------------------------
(***************************************************************************)
(* From the image store to the catalogue by way of snapshots and deltas.   *)
(* A recorder (backend/app/store_snapshot.py, called by a route and by     *)
(* scripts/store_snapshot.py) walks the store, compares it with the        *)
(* baseline, and replaces three files one after another: the delta, the    *)
(* baseline and the latest snapshot. A rescan (api/routes.py, indexer.py)  *)
(* reads the delta when the request comes, processes what it lists, and    *)
(* removes the delta file in the end.                                      *)
(*                                                                         *)
(* The content of a file is a version, and so are its size and mtime.  A   *)
(* row remembers the version of its size and mtime in "stat", that of its  *)
(* vector in "ver".  A recorder tells any two versions apart; a full scan  *)
(* takes versions of one size within two seconds for the same.             *)
(***************************************************************************)
EXTENDS Naturals, FiniteSets

CONSTANTS
    Files,       \* the relative paths that may exist in the store
    Recorders,   \* the runs of detect_changes that may be under way at once
    MaxVersion,  \* bound: up to which version each file may change
    Near,        \* for each file, the pairs {v, w} of versions of one size whose
                 \* mtimes are within MTIME_TOLERANCE_SEC
    UseSnapshot, \* settings.use_store_snapshot_for_initial_scan
    None         \* there is no such file

ASSUME BoundsAreNatural == MaxVersion \in [Files -> Nat]
ASSUME UseSnapshotIsBoolean == UseSnapshot \in BOOLEAN
ASSUME NoneIsNoFile ==
    /\ \A S \in SUBSET Files : None \notin [S -> Nat]
    /\ None \notin [created : SUBSET Files, deleted : SUBSET Files, modified : SUBSET Files]

VARIABLES
    version,   \* the newest content of each file
    present,   \* the files that exist now
    baseline,  \* store_snapshot.json: a partial function to versions
    latest,    \* store_snapshot_latest.json
    delta,     \* rescan_delta_latest.json
    rec,       \* what each recorder is doing
    rows,      \* the catalogue: a partial function to stat and ver
    scan,      \* what the scan is doing
    trust      \* history: see Agree

store == <<version, present>>
vars  == <<version, present, baseline, latest, delta, rec, rows, scan, trust>>

-----------------------------------------------------------------------------
Keep(fn, S) == [f \in DOMAIN fn \cap S |-> fn[f]]

Nothing == [f \in {} |-> 0]

(* scan_drive, and the walk of a full scan. *)
LiveInventory == Keep(version, present)

(* Mutant: deletions are forgotten. *)
ChangesWithoutDeleted(old, new) ==
    [created  |-> DOMAIN new \ DOMAIN old,
     deleted  |-> {},
     modified |-> {f \in DOMAIN new \cap DOMAIN old : new[f] # old[f]}]

(* What detect_changes puts into a delta: it compares exactly. *)
Changes(old, new) ==
    [created  |-> DOMAIN new \ DOMAIN old,
     deleted  |-> DOMAIN old \ DOMAIN new,
     modified |-> {f \in DOMAIN new \cap DOMAIN old : new[f] # old[f]}]

Listed(d) == IF d = None THEN {} ELSE d.created \cup d.deleted \cup d.modified

(* _load_snapshot_inventory: None unless it is wanted, there, not empty and *)
(* not too old, which it may be at any time.                                *)
SnapshotInventories ==
    {None} \cup (IF UseSnapshot /\ latest \notin {None, Nothing} THEN {latest} ELSE {})

(* A file's metadata: from the snapshot, or else by a live stat; a file     *)
(* that neither has is reported as failed.                                  *)
Stat(inventory, f) ==
    IF inventory # None /\ f \in DOMAIN inventory THEN inventory[f] ELSE version[f]

Found(inventory, f) == (inventory # None /\ f \in DOMAIN inventory) \/ f \in present

Idle == [pc |-> "none", seen |-> None, changes |-> None]

NoScan == [pc |-> "none", mode |-> "full", force |-> FALSE, changes |-> None,
           inventory |-> None, work |-> Nothing, left |-> {}, failed |-> {}]

Init ==
    /\ version = [f \in Files |-> 1]
    /\ present \in SUBSET Files
    /\ baseline = None
    /\ latest = None
    /\ delta = None
    /\ rec = [r \in Recorders |-> Idle]
    /\ rows = Nothing
    /\ scan = NoScan
    /\ trust = "none"

-----------------------------------------------------------------------------
(* The store *)

Write(f) ==
    /\ version[f] < MaxVersion[f]
    /\ version' = [version EXCEPT ![f] = @ + 1]
    /\ present' = present \cup {f}
    /\ UNCHANGED <<baseline, latest, delta, rec, rows, scan, trust>>

Delete(f) ==
    /\ f \in present
    /\ present' = present \ {f}
    /\ UNCHANGED <<version, baseline, latest, delta, rec, rows, scan, trust>>

-----------------------------------------------------------------------------
(* The recorders *)

Break(cond) == trust' = IF trust = "kept" /\ cond THEN "broken" ELSE trust

Walk(r) ==
    /\ rec[r].pc = "none"
    /\ rec' = [rec EXCEPT ![r] = [pc |-> "compare", seen |-> LiveInventory, changes |-> None]]
    /\ Break(\E q \in Recorders : rec[q].pc # "none")
    /\ UNCHANGED <<store, baseline, latest, delta, rows, scan>>

(* Without a baseline the state seen becomes the baseline, without a delta. *)
Compare(r) ==
    /\ rec[r].pc = "compare"
    /\ rec' = [rec EXCEPT ![r] =
                IF baseline = None
                  THEN [@ EXCEPT !.pc = "baseline"]
                  ELSE [@ EXCEPT !.pc = "delta", !.changes = Changes(baseline, rec[r].seen)]]
    /\ UNCHANGED <<store, baseline, latest, delta, rows, scan, trust>>

WriteDelta(r) ==
    /\ rec[r].pc = "delta"
    /\ delta' = rec[r].changes
    /\ rec' = [rec EXCEPT ![r].pc = "baseline"]
    /\ Break(delta # None)
    /\ UNCHANGED <<store, baseline, latest, rows, scan>>

WriteBaseline(r) ==
    /\ rec[r].pc = "baseline"
    /\ baseline' = rec[r].seen
    /\ rec' = [rec EXCEPT ![r].pc = "latest"]
    /\ UNCHANGED <<store, latest, delta, rows, scan, trust>>

WriteLatest(r) ==
    /\ rec[r].pc = "latest"
    /\ latest' = rec[r].seen
    /\ rec' = [rec EXCEPT ![r] = Idle]
    /\ UNCHANGED <<store, baseline, delta, rows, scan, trust>>

(* The process ends, or a file cannot be written. *)
Abort(r) ==
    /\ rec[r].pc # "none"
    /\ rec' = [rec EXCEPT ![r] = Idle]
    /\ Break(rec[r].pc \in {"baseline", "latest"})
    /\ UNCHANGED <<store, baseline, latest, delta, rows, scan>>

-----------------------------------------------------------------------------
(* The rescan *)

(* The delta is left aside when it is not wanted, not readable or too old.  *)
Rescan(mode, force) ==
    /\ scan.pc = "none"
    /\ mode = "delta" => delta # None /\ ~ force
    /\ scan' = [NoScan EXCEPT !.pc = "plan", !.mode = mode, !.force = force,
                              !.changes = IF mode = "delta" THEN delta ELSE None]
    /\ UNCHANGED <<store, baseline, latest, delta, rec, rows, trust>>

(* Mutant: what has no metadata stays in the queue. *)
WorkingAll(work, failed) ==
    [scan EXCEPT !.pc = "work", !.work = work, !.left = DOMAIN work \cup failed, !.failed = failed]
Working(work, failed) ==
    [scan EXCEPT !.pc = "work", !.work = work, !.left = DOMAIN work, !.failed = failed]

(* To a full scan, v and w of f are the same.  Being near is not transitive. *)
Same(f, v, w) == v = w \/ {v, w} \in Near[f]

(* Mutant: rows without a file stay. *)
KeptRowsAll(inventory) == IF scan.force THEN Nothing ELSE rows
KeptRows(inventory)    == IF scan.force THEN Nothing ELSE Keep(rows, DOMAIN inventory)

(* _scan: the inventory is the latest snapshot or a walk. *)
PlanFull ==
    /\ scan.pc = "plan" /\ scan.mode = "full"
    /\ \E found \in SnapshotInventories :
        LET inventory == IF found = None THEN LiveInventory ELSE found
            kept      == KeptRows(inventory)
            pending   == {f \in DOMAIN inventory :
                            f \notin DOMAIN kept \/ ~ Same(f, kept[f].stat, inventory[f])}
        IN  /\ rows' = kept
            /\ scan' = [Working(Keep(inventory, pending), {}) EXCEPT !.inventory = inventory]
    /\ UNCHANGED <<store, baseline, latest, delta, rec, trust>>

(* Mutant: only what is new is processed. *)
DeltaFilesCreated == scan.changes.created
DeltaFiles        == scan.changes.created \cup (scan.changes.modified \cap DOMAIN rows)

(* _process_delta: a modified file counts only if it has a row. *)
PlanDelta ==
    /\ scan.pc = "plan" /\ scan.mode = "delta"
    /\ \E inventory \in SnapshotInventories :
        LET found == {f \in DeltaFiles : Found(inventory, f)}
        IN  /\ scan' = Working([f \in found |-> Stat(inventory, f)], DeltaFiles \ found)
            /\ trust' = IF DeltaFiles \subseteq found THEN trust ELSE "none"
    /\ rows' = Keep(rows, Files \ scan.changes.deleted)
    /\ UNCHANGED <<store, baseline, latest, delta, rec>>

(* The file is decoded as it is now; its row has the metadata from before.  *)
Process(f) ==
    /\ scan.pc = "work" /\ f \in scan.left /\ f \in present
    /\ rows' = [g \in DOMAIN rows \cup {f} |->
                  IF g = f THEN [stat |-> scan.work[f], ver |-> version[f]] ELSE rows[g]]
    /\ scan' = [scan EXCEPT !.left = @ \ {f}]
    /\ UNCHANGED <<store, baseline, latest, delta, rec, trust>>

(* The file is gone, or half written. *)
Fail(f) ==
    /\ scan.pc = "work" /\ f \in scan.left
    /\ scan' = [scan EXCEPT !.left = @ \ {f}, !.failed = @ \cup {f}]
    /\ trust' = "none"
    /\ UNCHANGED <<store, baseline, latest, delta, rec, rows>>

(* A pause, a restart and a resume from the checkpoint: the metadata of the *)
(* rest is taken anew, from the snapshot if it has all of it, and the scan  *)
(* goes on as one of which only the remaining files are known. (Paused and  *)
(* restarted while it plans, it begins again with the delta it had read:    *)
(* that is to stay at "plan".)                                              *)
ResumeAfterRestart ==
    /\ scan.pc = "work"
    /\ \E inventory \in {i \in SnapshotInventories : i = None \/ scan.left \subseteq DOMAIN i} :
        LET found == {f \in scan.left : Found(inventory, f)}
        IN  scan' = [NoScan EXCEPT !.pc = "work", !.mode = "resumed",
                       !.work = [f \in found |-> Stat(inventory, f)],
                       !.left = found, !.failed = scan.left \ found]
    /\ trust' = "none"
    /\ UNCHANGED <<store, baseline, latest, delta, rec, rows>>

(* The catalogue has what the baseline has, or takes it for the same; the   *)
(* delta that a full scan leaves behind leads to this baseline, and nobody  *)
(* is recording.                                                            *)
Agree ==
    /\ scan.inventory = baseline /\ scan.failed = {}
    /\ delta # None => delta.deleted \cap DOMAIN baseline = {}
                       /\ delta.created \cup delta.modified \subseteq DOMAIN baseline
    /\ \A r \in Recorders : rec[r].pc = "none"

(* A full scan that ends may find agreement, from which on trust is "kept"  *)
(* until somebody acts out of turn ("broken"): two recorders at once, one   *)
(* that records over an unread delta or dies between its writes, a scan     *)
(* that removes a delta it has not read.                                    *)
EndFull ==
    /\ scan.pc = "work" /\ scan.left = {} /\ scan.mode # "delta"
    /\ trust' = IF scan.mode = "full" /\ Agree THEN "kept" ELSE "none"
    /\ scan' = NoScan
    /\ UNCHANGED <<store, baseline, latest, delta, rec, rows>>

(* Whatever delta file is there is removed. *)
EndDelta ==
    /\ scan.pc = "work" /\ scan.left = {} /\ scan.mode = "delta"
    /\ delta' = None
    /\ Break(delta # scan.changes)
    /\ scan' = NoScan
    /\ UNCHANGED <<store, baseline, latest, rec, rows>>

(* An exception, or the end of the process. *)
Die ==
    /\ scan.pc # "none"
    /\ scan' = NoScan
    /\ trust' = "none"
    /\ UNCHANGED <<store, baseline, latest, delta, rec, rows>>

-----------------------------------------------------------------------------
Store == \E f \in Files : Write(f) \/ Delete(f)

Record ==
    \E r \in Recorders :
        \/ Walk(r)
        \/ Compare(r)
        \/ WriteDelta(r)
        \/ WriteBaseline(r)
        \/ WriteLatest(r)
        \/ Abort(r)

Scan ==
    \/ \E mode \in {"full", "delta"}, force \in BOOLEAN : Rescan(mode, force)
    \/ PlanFull
    \/ PlanDelta
    \/ \E f \in Files : Process(f) \/ Fail(f)
    \/ ResumeAfterRestart
    \/ EndFull
    \/ EndDelta
    \/ Die

Next == Store \/ Record \/ Scan

Spec == Init /\ [][Next]_vars

-----------------------------------------------------------------------------
(* Properties *)

Inventory(i) == i \in [DOMAIN i -> Nat] /\ DOMAIN i \subseteq Files
Delta(d)     == d \in [created : SUBSET Files, deleted : SUBSET Files, modified : SUBSET Files]

(* Every variable keeps the kind of value the code gives it.                *)
TypeOK ==
    /\ version \in [Files -> Nat] /\ present \subseteq Files
    /\ baseline = None \/ Inventory(baseline)
    /\ latest = None \/ Inventory(latest)
    /\ delta = None \/ Delta(delta)
    /\ \A r \in Recorders :
        /\ rec[r].pc \in {"none", "compare", "delta", "baseline", "latest"}
        /\ rec[r].seen = None \/ Inventory(rec[r].seen)
        /\ rec[r].changes = None \/ Delta(rec[r].changes)
    /\ rows \in [DOMAIN rows -> [stat : Nat, ver : Nat]] /\ DOMAIN rows \subseteq Files
    /\ scan.pc \in {"none", "plan", "work"}
    /\ scan.left \subseteq DOMAIN scan.work /\ Inventory(scan.work)
    /\ trust \in {"none", "kept", "broken"}

Ready == scan.pc = "work" /\ scan.left = {}

(* Whatever snapshots, deltas and restarts went before, a full scan that    *)
(* comes to its end leaves the catalogue as its inventory has it, but for   *)
(* the files that it reports as failed: each row is the one of the metadata *)
(* in the inventory or of metadata that the tolerance takes for the same,   *)
(* also after several changes within the tolerance, and its vector is of a  *)
(* content at least as new as its metadata.                                 *)
FullScanCatchesUp ==
    Ready /\ scan.mode = "full" =>
        /\ DOMAIN rows \subseteq DOMAIN scan.inventory
        /\ \A f \in DOMAIN scan.inventory \ scan.failed :
            /\ f \in DOMAIN rows /\ Same(f, rows[f].stat, scan.inventory[f])
            /\ rows[f].ver >= rows[f].stat

(* A delta scan that comes to its end has done what it read: the deleted    *)
(* files have no rows, the others have rows at least as new as the metadata *)
(* it went by, or were reported as failed, or were never indexed.           *)
DeltaScanAppliesItsDelta ==
    Ready /\ scan.mode = "delta" =>
        /\ scan.changes.deleted \cap DOMAIN rows = {}
        /\ scan.changes.created \subseteq DOMAIN rows \cup scan.failed
        /\ \A f \in (scan.changes.created \cup scan.changes.modified) \cap DOMAIN rows :
            f \in scan.failed \/ (f \in DOMAIN scan.work /\ rows[f].ver >= scan.work[f])

Quiet == scan.pc = "none" /\ \A r \in Recorders : rec[r].pc = "none"

InStore(i, f) == IF f \in present THEN f \in DOMAIN i /\ i[f] = version[f] ELSE f \notin DOMAIN i

(* A change that no full scan would find either. *)
PassedOver(f) == f \in present \cap DOMAIN rows /\ Same(f, rows[f].stat, version[f])

(* The baseline has taken in the state of f, no delta lists it, and still   *)
(* the catalogue has another, which a full scan would find: the next delta  *)
(* will not list f.                                                         *)
Missed(f) ==
    /\ baseline # None /\ InStore(baseline, f)
    /\ f \notin Listed(delta)
    /\ ~ InStore([g \in DOMAIN rows |-> rows[g].ver], f)
    /\ ~ PassedOver(f)

(* Snapshots and delta rescans that take turns lose nothing: every change   *)
(* is in the catalogue, in the delta, still to be seen by the next          *)
(* snapshot, or within the tolerance of what the catalogue has.             *)
DeltasInTurnLoseNothing == Quiet /\ trust = "kept" => \A f \in Files : ~ Missed(f)

(* SettingsView.tsx: the delta is shown as the "Changes since last scan".   *)
(* Then, once a scan has brought the catalogue up to the baseline and none  *)
(* has failed since, no change is missing from catalogue and delta both.    *)
DeltaShowsAllChanges == Quiet /\ trust # "none" => \A f \in Files : ~ Missed(f)

=============================================================================
