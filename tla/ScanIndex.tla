------------------------------ MODULE ScanIndex ------------------------------
(***************************************************************************)
(* The scan pipeline of backend/app/indexer.py: how one scan turns the     *)
(* files of the image store into catalogue rows (SQLite, db.py) and CLIP   *)
(* vectors (FAISS, faiss_store.py), and what is left of it after a pause,  *)
(* an exception, a crash and the next start of the process.                *)
(*                                                                         *)
(* A file's content is a version number, and a row remembers in "stat" the *)
(* version the inventory saw, a vector in "ver" the one that was decoded.  *)
(* The versions are those that a full scan tells apart by size and mtime;  *)
(* the changes that MTIME_TOLERANCE_SEC passes over are in DeltaPipeline.  *)
(* SQLite's AUTOINCREMENT never gives an id twice; the model numbers the   *)
(* ids of each file separately, so the id of a row is the pair of its file *)
(* and its number.                                                         *)
(*                                                                         *)
(* An index is a bag of vectors, since IndexIDMap2 accepts an id that it   *)
(* already holds. NoIndex is Python's None, and a file that is not there.  *)
(***************************************************************************)
EXTENDS Naturals, FiniteSets, Bags

CONSTANTS
    Files,       \* the relative paths that may exist in the store
    BatchSize,   \* settings.batch_size
    MaxVersion,  \* bound: how often a file may change
    MaxId,       \* bound: no scan starts once a file has used this many row ids
    UseSnapshot, \* settings.use_store_snapshot_for_initial_scan
    NoSnapshot,  \* there is no store_snapshot_latest.json
    NoIndex,     \* no index: None in memory, no file on disk
    Corrupt      \* an index file that faiss.read_index rejects

ASSUME BatchSizePositive == BatchSize \in Nat \ {0}
ASSUME BoundsAreNaturals == MaxVersion \in Nat /\ MaxId \in Nat
ASSUME UseSnapshotIsBoolean == UseSnapshot \in BOOLEAN
ASSUME FilesFinite == IsFiniteSet(Files)

Vector == [file : Files, id : Nat, ver : Nat]
Row    == [id : Nat, stat : Nat]

(* Neither model value is a bag of vectors. *)
ASSUME IndexMarkers ==
    /\ NoIndex # Corrupt
    /\ ~ IsABag(NoIndex)
    /\ ~ IsABag(Corrupt)

VARIABLES
    (* the image store, changed by the mirror job and by users *)
    version,     \* the newest content of each file
    present,     \* the files that exist now
    snapshot,    \* the latest store snapshot: a partial function to versions
    (* what survives the process *)
    rows,        \* the table images: a partial function from files to rows
    lastId,      \* the AUTOINCREMENT counter
    idxFile,     \* index.faiss
    checkpoint,  \* scan_checkpoint.json
    (* the process *)
    status,      \* Indexer.status["state"], "down" while no process runs
    gate,        \* _pause_gate: TRUE when set
    index,       \* the published index, which searches read
    scan,        \* the frame of the scan thread
    (* history *)
    lost,        \* files whose row was committed by a scan that died unpublished
    errored      \* a scan has failed since the process started

storeVars   == <<version, present, snapshot>>
dbVars      == <<rows, lastId>>
diskVars    == <<idxFile, checkpoint>>
procVars    == <<status, gate, index>>
historyVars == <<lost, errored>>
vars == <<version, present, snapshot, rows, lastId, idxFile, checkpoint, status, gate,
          index, scan, lost, errored>>

-----------------------------------------------------------------------------
(* Indexes and partial functions *)

Vectors(B) == IF B = NoIndex THEN EmptyBag ELSE B

VectorId(v) == <<v.file, v.id>>

IdsOf(B) == {VectorId(v) : v \in DOMAIN Vectors(B)}

(* index.remove_ids(ids); None has nothing to remove. *)
Without(B, ids) ==
    IF B = NoIndex THEN NoIndex
    ELSE [v \in {w \in DOMAIN B : VectorId(w) \notin ids} |-> B[v]]

Keep(fn, S) == [f \in DOMAIN fn \cap S |-> fn[f]]

NoRows == [f \in {} |-> 0]

RowIds(table) == {<<f, table[f].id>> : f \in DOMAIN table}

(* Ids that occur more than once in the index. *)
DuplicateIds(B) ==
    {VectorId(v) : v \in {w \in DOMAIN B :
        \/ B[w] > 1
        \/ \E u \in DOMAIN B : u # w /\ VectorId(u) = VectorId(w)}}

(* The index answers for row f with a vector at least as new as the row. *)
Covered(B, table, f) ==
    \E v \in DOMAIN Vectors(B) :
        VectorId(v) = <<f, table[f].id>> /\ v.ver >= table[f].stat

(* What a walk of the store finds, and what a scan may go by: a snapshot is *)
(* preferred unless it is missing, empty or too old.                        *)
LiveInventory == Keep(version, present)

Inventories ==
    {LiveInventory} \cup
    (IF snapshot = NoSnapshot \/ snapshot = NoRows THEN {} ELSE {snapshot})

-----------------------------------------------------------------------------
(* The scan thread *)

NoCheckpoint == [phase |-> "none", remaining |-> {}]
Planning     == [phase |-> "planning", remaining |-> {}]
Pending(S)   == [phase |-> "pending", remaining |-> S]

(* Where the thread stands: "plan" takes the inventory, "batch" is the top  *)
(* of the loop over chunks, "decode" the loop over the files of a chunk,    *)
(* "embed" and "progress" the two halves of _process_chunk's tail, "finish" *)
(* follows the last publish. "snap" has published for a pause; "planWait"   *)
(* and "waiting" are blocked on the gate; "walk", "take" and "read" have    *)
(* passed it, "walk" inside the walk of the store that "plan" began.        *)
Locations == {"none", "plan", "planWait", "walk", "batch", "take", "decode", "read",
              "snap", "waiting", "embed", "progress", "finish"}

NoScan ==
    [pc          |-> "none",
     force       |-> FALSE,     \* rebuild requested; of no use after the plan
     known       |-> NoRows,   \* the rows of its files as listed at the start
     work        |-> NoRows,   \* the DiskFiles to process that have not failed
     left        |-> {},       \* those in no chunk yet
     chunk       |-> {},       \* those of the current chunk still to decode
     decoded     |-> NoRows,   \* the decoded images of the chunk: their versions
     working     |-> NoIndex,  \* the private working copy
     unpublished |-> {}]       \* rows committed since the last publish (history)

Init ==
    /\ version = [f \in Files |-> 1]
    /\ present = Files
    /\ snapshot = NoSnapshot
    (* Earlier releases could leave a vector twice under its id. *)
    /\ \E dup \in SUBSET Files :
        /\ rows = [f \in dup |-> [id |-> 1, stat |-> 1]]
        /\ lastId = [f \in Files |-> IF f \in dup THEN 1 ELSE 0]
        /\ idxFile = IF dup = {} THEN NoIndex
                     ELSE [v \in {[file |-> f, id |-> 1, ver |-> 1] : f \in dup} |-> 2]
    /\ checkpoint = NoCheckpoint
    /\ status = "down"
    /\ gate = TRUE
    /\ index = NoIndex
    /\ scan = NoScan
    /\ lost = {}
    /\ errored = FALSE

-----------------------------------------------------------------------------
(* The environment *)

(* A file appears or is overwritten. *)
Edit(f) ==
    /\ version[f] < MaxVersion
    /\ version' = [version EXCEPT ![f] = @ + 1]
    /\ present' = present \cup {f}
    /\ UNCHANGED <<snapshot, dbVars, diskVars, procVars, scan, historyVars>>

Delete(f) ==
    /\ f \in present
    /\ present' = present \ {f}
    /\ UNCHANGED <<version, snapshot, dbVars, diskVars, procVars, scan, historyVars>>

(* The snapshot script or POST /api/store-snapshot/run. *)
RecordSnapshot ==
    /\ UseSnapshot
    /\ snapshot # LiveInventory
    /\ snapshot' = LiveInventory
    /\ UNCHANGED <<version, present, dbVars, diskVars, procVars, scan, historyVars>>

(* While the process is down the index file may be deleted or damaged. *)
DamageIndexFile ==
    /\ status = "down"
    /\ idxFile # NoIndex
    /\ idxFile' \in {NoIndex, Corrupt}
    /\ UNCHANGED <<storeVars, dbVars, checkpoint, procVars, scan, historyVars>>

(* The process dies: memory is gone, the database and the files stay. *)
Crash ==
    /\ status # "down"
    /\ status' = "down"
    /\ gate' = TRUE
    /\ index' = NoIndex
    /\ scan' = NoScan
    /\ lost' = lost \cup scan.unpublished
    /\ errored' = FALSE
    /\ UNCHANGED <<storeVars, dbVars, diskVars>>

-----------------------------------------------------------------------------
(* Start of the process: load_or_create *)

(* Mutant: the phase of the checkpoint is taken for the state.              *)
LoadCheckpointAsState ==
    status' = checkpoint.phase /\ gate' = (checkpoint.phase # "pending") /\ UNCHANGED checkpoint

(* A pending checkpoint restores the paused state, any other is dropped. *)
LoadCheckpoint ==
    IF checkpoint.phase = "pending"
    THEN status' = "paused" /\ gate' = FALSE /\ UNCHANGED checkpoint
    ELSE status' = "idle" /\ gate' = TRUE /\ checkpoint' = NoCheckpoint

(* Rows of the table without a vector in B.                                 *)
(* Mutant: any difference between the two sides drops every row.            *)
HolesByCount(table, B) == IF IdsOf(B) = RowIds(table) THEN {} ELSE RowIds(table)
Holes(table, B) == RowIds(table) \ IdsOf(B)

(* _reconcile_counts: ids held twice go from both sides, then vectors       *)
(* without a row, then rows without a vector. The file is rewritten only    *)
(* for the last two.                                                        *)
BootReconcile ==
    LET dups    == DuplicateIds(idxFile)
        single  == Without(idxFile, dups)
        table   == Keep(rows, {f \in DOMAIN rows : <<f, rows[f].id>> \notin dups})
        orphans == IdsOf(single) \ RowIds(table)
        holes   == Holes(table, single)
    IN  /\ status = "down"
        /\ idxFile \notin {NoIndex, Corrupt}
        /\ index' = Without(single, orphans)
        /\ rows' = Keep(table, {f \in DOMAIN table : <<f, table[f].id>> \notin holes})
        /\ idxFile' = IF orphans \cup holes = {} THEN idxFile ELSE index'
        /\ LoadCheckpoint
        /\ UNCHANGED <<storeVars, lastId, scan, historyVars>>

(* No index file: the rows, if any, are dropped so that everything is       *)
(* embedded again.                                                          *)
BootWithoutIndex ==
    /\ status = "down"
    /\ idxFile = NoIndex
    /\ index' = NoIndex
    /\ rows' = NoRows
    /\ LoadCheckpoint
    /\ UNCHANGED <<storeVars, lastId, idxFile, scan, historyVars>>

(* An unreadable index file is put aside and the rows are dropped; this     *)
(* branch returns without looking at the checkpoint.                        *)
BootCorruptIndex ==
    /\ status = "down"
    /\ idxFile = Corrupt
    /\ idxFile' = NoIndex
    /\ index' = NoIndex
    /\ rows' = NoRows
    /\ status' = "idle"
    /\ gate' = TRUE
    /\ UNCHANGED <<storeVars, lastId, checkpoint, scan, historyVars>>

Boot == BootReconcile \/ BootWithoutIndex \/ BootCorruptIndex

-----------------------------------------------------------------------------
(* Requests *)

IdsLeft == \A f \in Files : lastId[f] < MaxId

(* trigger_now and the head of incremental. *)
Trigger(force) ==
    /\ status \notin {"down", "paused"}
    /\ scan.pc = "none"
    /\ IdsLeft
    /\ status' = "scanning"
    /\ gate' = TRUE
    /\ checkpoint' = Planning
    /\ scan' = [NoScan EXCEPT !.pc = "plan", !.force = force]
    /\ UNCHANGED <<storeVars, dbVars, idxFile, index, historyVars>>

RequestPause ==
    /\ status = "scanning"
    /\ gate' = FALSE
    /\ UNCHANGED <<storeVars, dbVars, diskVars, status, index, scan, historyVars>>

(* Resume of a scan whose thread waits at the gate. *)
Resume ==
    /\ status = "paused"
    /\ scan.pc # "none"
    /\ gate' = TRUE
    /\ UNCHANGED <<storeVars, dbVars, diskVars, status, index, scan, historyVars>>

(* The working copy of a resumed scan and the rows it knows. Mutants: the   *)
(* copy starts empty; the rows are not listed again.                        *)
ResumedIndexEmpty == NoIndex
ResumedIndex      == index

ResumedKnownEmpty(files) == NoRows
ResumedKnown(files)      == Keep(rows, files)

(* Resume after a restart: the rest of the work comes from the checkpoint,  *)
(* with stats from a snapshot that knows all of it, or else fresh ones,     *)
(* which leave out a file that is gone.                                     *)
ResumeFromCheckpoint ==
    \E disk \in {LiveInventory} \cup
                {s \in Inventories : checkpoint.remaining \subseteq DOMAIN s} :
    LET files == checkpoint.remaining \cap DOMAIN disk
    IN  /\ status = "paused"
        /\ scan.pc = "none"
        /\ checkpoint.phase = "pending"
        /\ IdsLeft
        /\ gate' = TRUE
        /\ status' = "scanning"
        /\ scan' = [NoScan EXCEPT !.pc = "batch", !.known = ResumedKnown(files),
                        !.work = Keep(disk, files), !.left = files,
                        !.working = ResumedIndex]
        /\ UNCHANGED <<storeVars, dbVars, diskVars, index, historyVars>>

(* The set-up of a resumed scan stands outside its try block: an exception  *)
(* there ends the thread and leaves the state "scanning".                   *)
ResumeSetupFails ==
    /\ status = "paused"
    /\ scan.pc = "none"
    /\ checkpoint.phase = "pending"
    /\ gate' = TRUE
    /\ status' = "scanning"
    /\ UNCHANGED <<storeVars, dbVars, diskVars, index, scan, historyVars>>

-----------------------------------------------------------------------------
(* Steps of the scan *)

(* The working copy: nothing for a rebuild, or a clone of the published     *)
(* index without the files that are gone. Mutants: their vectors stay;      *)
(* every scan starts from nothing.                                          *)
PlannedIndexKept(gone)  == IF scan.force THEN NoIndex ELSE index
PlannedIndexEmpty(gone) == NoIndex
PlannedIndex(gone) ==
    IF scan.force THEN NoIndex ELSE Without(index, RowIds(Keep(rows, gone)))

(* The inventory, the reset of a rebuild or the clone of the published      *)
(* index, the comparison with the rows and the removal of what is gone.     *)
Plan ==
    \E disk \in IF scan.pc = "plan" THEN Inventories ELSE {LiveInventory} :
    LET base     == IF scan.force THEN NoRows ELSE rows
        gone     == DOMAIN base \ DOMAIN disk
        toAdd    == DOMAIN disk \ DOMAIN base
        toUpdate == {f \in DOMAIN disk \cap DOMAIN base : base[f].stat # disk[f]}
    IN  /\ scan.pc \in {"plan", "walk"}
        /\ rows' = Keep(base, DOMAIN disk)
        /\ scan' = [scan EXCEPT
                        !.pc = "batch",
                        !.force = FALSE,
                        !.known = Keep(base, toUpdate),
                        !.work = Keep(disk, toAdd \cup toUpdate),
                        !.left = toAdd \cup toUpdate,
                        !.working = PlannedIndex(gone)]
        /\ UNCHANGED <<storeVars, lastId, diskVars, procVars, historyVars>>

(* The walk of the store stops at the closed gate. *)
PausePlan ==
    /\ scan.pc \in {"plan", "walk"}
    /\ ~ gate
    /\ checkpoint' = Planning
    /\ status' = "paused"
    /\ scan' = [scan EXCEPT !.pc = "planWait"]
    /\ UNCHANGED <<storeVars, dbVars, idxFile, gate, index, historyVars>>

(* Mutant: the reference is swapped and the file is left as it was.         *)
PublishInMemory ==
    /\ UNCHANGED idxFile
    /\ index' = scan.working

(* _publish_index: the file is replaced, then the reference is swapped. *)
Publish ==
    /\ idxFile' = scan.working
    /\ index' = scan.working

(* Where the gate is looked at. *)
MayPause == scan.pc = "decode" \/ (scan.pc = "batch" /\ scan.left # {})

(* The thread finds the gate closed: first the working copy is published... *)
PausePublish ==
    /\ MayPause
    /\ ~ gate
    /\ Publish
    /\ scan' = [scan EXCEPT !.pc = "snap", !.unpublished = {}]
    /\ UNCHANGED <<storeVars, dbVars, checkpoint, status, gate, historyVars>>

(* Mutant: the rest of the current chunk is forgotten.                      *)
RemainingChunks == scan.left
Remaining       == scan.chunk \cup scan.left

(* ...then the files that are not decoded yet are written down. *)
PauseSave ==
    /\ scan.pc = "snap"
    /\ checkpoint' = Pending(Remaining)
    /\ status' = "paused"
    /\ scan' = [scan EXCEPT !.pc = "waiting"]
    /\ UNCHANGED <<storeVars, dbVars, idxFile, gate, index, historyVars>>

(* The gate opens: the checkpoint goes and the thread carries on behind it. *)
Wake ==
    /\ scan.pc \in {"planWait", "waiting"}
    /\ gate
    /\ checkpoint' = NoCheckpoint
    /\ status' = "scanning"
    /\ scan' = [scan EXCEPT !.pc = CASE scan.pc = "planWait" -> "walk"
                                     [] scan.pc = "waiting" /\ scan.chunk = {} -> "take"
                                     [] OTHER -> "read"]
    /\ UNCHANGED <<storeVars, dbVars, idxFile, gate, index, historyVars>>

(* The next chunk: pending[i : i + batch]. The order of the list is open.   *)
TakeChunk ==
    /\ \/ scan.pc = "batch" /\ gate
       \/ scan.pc = "take"
    /\ \E c \in SUBSET scan.left :
        /\ c # {}
        /\ Cardinality(c) = BatchSize \/ (c = scan.left /\ Cardinality(c) < BatchSize)
        /\ scan' = [scan EXCEPT !.pc = "decode", !.chunk = c, !.left = @ \ c]
    /\ UNCHANGED <<storeVars, dbVars, diskVars, procVars, historyVars>>

(* Mutant: the gate is looked at between the chunks only.                   *)
AtFileUnlooked(f) ==
    /\ scan.pc \in {"decode", "read"}
    /\ f \in scan.chunk

AtFile(f) ==
    /\ \/ scan.pc = "decode" /\ gate
       \/ scan.pc = "read"
    /\ f \in scan.chunk

(* Mutants: the loop over the files stops one short, or never.              *)
AfterFileButOne(f) == IF Cardinality(scan.chunk) <= 2 THEN "embed" ELSE "decode"
AfterFileAlways(f) == "decode"

AfterFile(f) == IF scan.chunk = {f} THEN "embed" ELSE "decode"

(* A decoded image. The prefetch window may have read the file at any time  *)
(* since the inventory.                                                     *)
DecodeOk(f) ==
    /\ AtFile(f)
    /\ \E v \in scan.work[f]..version[f] :
        scan' = [scan EXCEPT !.pc = AfterFile(f), !.chunk = @ \ {f},
                    !.decoded = [g \in DOMAIN @ \cup {f} |-> IF g = f THEN v ELSE @[g]]]
    /\ UNCHANGED <<storeVars, dbVars, diskVars, procVars, historyVars>>

DecodeFails(f) ==
    /\ AtFile(f)
    /\ scan' = [scan EXCEPT !.pc = AfterFile(f), !.chunk = @ \ {f},
                    !.work = Keep(@, DOMAIN @ \ {f})]
    /\ UNCHANGED <<storeVars, dbVars, diskVars, procVars, historyVars>>

(* No image of the chunk could be decoded, or the embedding of all of them  *)
(* failed: the chunk is left out and its files keep the rows they had.      *)
SkipChunk ==
    /\ scan.pc = "embed"
    /\ scan' = [scan EXCEPT !.pc = "batch", !.decoded = NoRows,
                    !.work = Keep(@, DOMAIN @ \ DOMAIN scan.decoded)]
    /\ UNCHANGED <<storeVars, dbVars, diskVars, procVars, historyVars>>

RowIdFor(f) == IF f \in DOMAIN rows THEN rows[f].id ELSE lastId[f] + 1

NewVectors ==
    {[file |-> f, id |-> RowIdFor(f), ver |-> scan.decoded[f]] : f \in DOMAIN scan.decoded}

(* The working copy drops the old vectors of known files and takes the new  *)
(* ones. Mutant: the old vectors stay.                                      *)
ReembeddedTwice == Vectors(scan.working) (+) SetToBag(NewVectors)
Reembedded ==
    Without(Vectors(scan.working), RowIds(Keep(scan.known, DOMAIN scan.decoded)))
        (+) SetToBag(NewVectors)

(* One transaction upserts the rows of the chunk.                           *)
CommitChunk ==
    LET done == DOMAIN scan.decoded
    IN  /\ scan.pc = "embed"
        /\ done # {}
        /\ rows' = [f \in DOMAIN rows \cup done |->
                        IF f \in done THEN [id |-> RowIdFor(f), stat |-> scan.work[f]]
                        ELSE rows[f]]
        /\ lastId' = [f \in Files |-> IF f \in done \ DOMAIN rows THEN lastId[f] + 1
                                      ELSE lastId[f]]
        /\ scan' = [scan EXCEPT
                        !.pc = "progress", !.decoded = NoRows,
                        !.working = Reembedded,
                        !.unpublished = @ \cup done]
        /\ lost' = lost \ done
        /\ UNCHANGED <<storeVars, diskVars, procVars, errored>>

(* _publish_progress is throttled by PUBLISH_INTERVAL_SEC: it may publish... *)
PublishProgress ==
    /\ scan.pc = "progress"
    /\ Publish
    /\ scan' = [scan EXCEPT !.pc = "batch", !.unpublished = {}]
    /\ UNCHANGED <<storeVars, dbVars, checkpoint, status, gate, historyVars>>

(* ...or not. *)
SkipProgress ==
    /\ scan.pc = "progress"
    /\ scan' = [scan EXCEPT !.pc = "batch"]
    /\ UNCHANGED <<storeVars, dbVars, diskVars, procVars, historyVars>>

(* Mutant: the last publish is subject to the throttle as well.             *)
PublishFinalThrottled ==
    /\ scan.pc = "batch"
    /\ scan.left = {}
    /\ \/ Publish
       \/ UNCHANGED <<idxFile, index>>
    /\ scan' = [scan EXCEPT !.pc = "finish", !.unpublished = {}]
    /\ UNCHANGED <<storeVars, dbVars, checkpoint, status, gate, historyVars>>

PublishFinal ==
    /\ scan.pc = "batch"
    /\ scan.left = {}
    /\ Publish
    /\ scan' = [scan EXCEPT !.pc = "finish", !.unpublished = {}]
    /\ UNCHANGED <<storeVars, dbVars, checkpoint, status, gate, historyVars>>

Finish ==
    /\ scan.pc = "finish"
    /\ checkpoint' = NoCheckpoint
    /\ status' = "idle"
    /\ scan' = NoScan
    /\ UNCHANGED <<storeVars, dbVars, idxFile, gate, index, historyVars>>

(* An exception: the state becomes "error", the working copy is dropped and *)
(* the checkpoint on disk stays.                                            *)
ScanFails ==
    /\ scan.pc \notin {"none", "planWait", "waiting"}
    /\ status' = "error"
    /\ scan' = NoScan
    /\ lost' = lost \cup scan.unpublished
    /\ errored' = TRUE
    /\ UNCHANGED <<storeVars, dbVars, diskVars, gate, index>>

-----------------------------------------------------------------------------
Environment == (\E f \in Files : Edit(f) \/ Delete(f)) \/ RecordSnapshot \/ DamageIndexFile \/ Crash

Requests ==
    \/ \E force \in BOOLEAN : Trigger(force)
    \/ RequestPause
    \/ Resume
    \/ ResumeFromCheckpoint
    \/ ResumeSetupFails

ScanSteps ==
    \/ Plan
    \/ PausePlan
    \/ PausePublish
    \/ PauseSave
    \/ Wake
    \/ TakeChunk
    \/ \E f \in Files : DecodeOk(f) \/ DecodeFails(f)
    \/ SkipChunk
    \/ CommitChunk
    \/ PublishProgress
    \/ SkipProgress
    \/ PublishFinal
    \/ Finish
    \/ ScanFails

Next == Environment \/ Boot \/ Requests \/ ScanSteps

Spec == Init /\ [][Next]_vars

(* What the operating system owes the scan thread: it runs while it can.    *)
(* Nothing is owed by users, by the store or by failures.                   *)
ThreadSteps ==
    \/ Plan
    \/ PausePlan
    \/ PausePublish
    \/ PauseSave
    \/ Wake
    \/ TakeChunk
    \/ \E f \in Files : DecodeOk(f) \/ DecodeFails(f)
    \/ SkipChunk
    \/ CommitChunk
    \/ PublishProgress
    \/ SkipProgress
    \/ PublishFinal
    \/ Finish

FairSpec == Spec /\ WF_vars(ThreadSteps)

-----------------------------------------------------------------------------
(* Properties *)

PartialFunction(fn, S, T) == fn \in [DOMAIN fn -> T] /\ DOMAIN fn \subseteq S

IndexOK(B) == IsABag(B) /\ DOMAIN B \subseteq Vector

ScanOK ==
    /\ DOMAIN scan = DOMAIN NoScan
    /\ scan.pc \in Locations
    /\ scan.force \in BOOLEAN
    /\ PartialFunction(scan.known, Files, Row)
    /\ PartialFunction(scan.work, Files, Nat)
    /\ scan.left \subseteq Files
    /\ scan.chunk \subseteq Files
    /\ PartialFunction(scan.decoded, Files, Nat)
    /\ scan.working = NoIndex \/ IndexOK(scan.working)
    /\ scan.unpublished \subseteq Files

(* Every variable keeps the kind of value the code gives it.                *)
TypeOK ==
    /\ version \in [Files -> Nat]
    /\ present \subseteq Files
    /\ snapshot = NoSnapshot \/ PartialFunction(snapshot, Files, Nat)
    /\ PartialFunction(rows, Files, Row)
    /\ lastId \in [Files -> Nat]
    /\ idxFile \in {NoIndex, Corrupt} \/ IndexOK(idxFile)
    /\ checkpoint \in [phase : {"none", "planning", "pending"}, remaining : SUBSET Files]
    /\ status \in {"down", "idle", "scanning", "paused", "error"}
    /\ gate \in BOOLEAN
    /\ index = NoIndex \/ IndexOK(index)
    /\ ScanOK
    /\ lost \subseteq Files
    /\ errored \in BOOLEAN

(* A search never ranks one image twice, and a scan never builds an index   *)
(* that would: neither the published index nor the working copy holds two   *)
(* vectors under one id, whatever was replayed after a restart.             *)
NoDuplicateVectors ==
    \A B \in {index, scan.working} : B # NoIndex => DuplicateIds(B) = {}

(* A row whose vector is missing from the published index, or older than    *)
(* the row, belongs to a file that the running scan has committed and not   *)
(* yet published, or that a scan had when it died between the two.          *)
RowsAreSearchable ==
    status # "down" =>
        \A f \in DOMAIN rows \ (lost \cup scan.unpublished) : Covered(index, rows, f)

(* What the crash recovery starts from: a readable index file answers for   *)
(* every row except those committed since it was written.                   *)
FileCoversRows ==
    idxFile \notin {NoIndex, Corrupt} =>
        \A f \in DOMAIN rows \ (lost \cup scan.unpublished) : Covered(idxFile, rows, f)

(* When no scan runs, and when one waits paused inside a batch, the ids of  *)
(* the published index are the ids of the rows, unless a scan has failed    *)
(* since the process started.                                               *)
CatalogueAgreesAtRest ==
    (status # "down" /\ ~ errored /\ scan.pc \in {"none", "waiting"})
        => IdsOf(index) = RowIds(rows)

(* f has the row that the scan wanted and can be found. *)
Done(f) == f \in DOMAIN rows /\ rows[f].stat = scan.work[f] /\ Covered(index, rows, f)

(* A scan that reaches its end has done its work: every file it set out to  *)
(* process, and did not report as failed, has a row with the stat of the    *)
(* inventory and a vector in the published index that is at least as new.   *)
CompletedScanIndexedItsWork ==
    scan.pc = "finish" => \A f \in DOMAIN scan.work : Done(f)

(* The checkpoint of a paused scan accounts for its work: a file that has   *)
(* not failed is listed as remaining, or is done and published, or is one   *)
(* of the decoded images that only the waiting thread holds.                *)
PauseCheckpointAccountsForWork ==
    scan.pc = "waiting" =>
        /\ checkpoint.phase = "pending"
        /\ \A f \in DOMAIN scan.work :
            f \in checkpoint.remaining \/ f \in DOMAIN scan.decoded \/ Done(f)

(* README.md: resume continues "from the persisted checkpoint after a       *)
(* restart". Then nothing of a paused scan may live in the thread alone:    *)
(* every file is listed as remaining or is done and published.              *)
PausedWorkSurvivesRestart ==
    scan.pc = "waiting" =>
        \A f \in DOMAIN scan.work : f \in checkpoint.remaining \/ Done(f)

(* README.md: the index heals itself on startup and an interrupted          *)
(* container loses at most an interval of work. Then, when a process that   *)
(* saw no failed scan is at rest, every row has a vector of its content.    *)
RestartHealsIndex ==
    (status # "down" /\ ~ errored /\ scan.pc = "none")
        => \A f \in DOMAIN rows : Covered(index, rows, f)

(* While the process runs, an image that searches can find and that keeps   *)
(* its row stays in the published index: a re-embedding replaces its vector *)
(* and never shows the index without it.                                    *)
SearchNeverLosesAnImage ==
    [][status # "down" /\ status' # "down" =>
        \A f \in DOMAIN rows \cap DOMAIN rows' :
            (rows'[f].id = rows[f].id /\ <<f, rows[f].id>> \in IdsOf(index))
                => <<f, rows[f].id>> \in IdsOf(index')]_vars

(* A start with a readable index file keeps every row that has exactly one  *)
(* vector there, as it was: repairs touch only what diverged.               *)
BootKeepsIndexedRows ==
    [][status = "down" /\ status' # "down" /\ idxFile \notin {NoIndex, Corrupt} =>
        \A f \in DOMAIN rows :
            (<<f, rows[f].id>> \in IdsOf(idxFile) \ DuplicateIds(idxFile))
                => f \in DOMAIN rows' /\ rows'[f] = rows[f]
                    /\ <<f, rows[f].id>> \in IdsOf(index')]_vars

(* README.md: a missing or corrupt index file forces a full rebuild. Then a *)
(* process that dropped the rows because of it does not come up paused in   *)
(* an old scan, whose resume would embed a part of them only.               *)
LostIndexForcesFullRebuild ==
    [][status = "down" /\ status' = "paused" /\ idxFile \in {NoIndex, Corrupt}
        => DOMAIN rows \subseteq checkpoint'.remaining]_vars

(* A running scan does not run for ever: its thread ends or waits paused.   *)
ScanEnds == (scan.pc # "none") ~> (scan.pc = "none" \/ status = "paused")

(* The scan has yet to look at the gate before it decodes f. *)
Ahead(f) == f \in scan.left \/ (scan.pc = "decode" /\ f \in scan.chunk)

(* README.md: pause stops the scan cooperatively "at the next checkpoint".  *)
(* A file that the scan has not come to when the gate is closed is not      *)
(* processed behind it: the scan comes to wait paused, with that file in    *)
(* its checkpoint, unless somebody resumes it, it fails or the process      *)
(* dies first. To run on to its end is not enough.                          *)
PauseTakesEffect ==
    \A f \in Files :
        (~ gate /\ Ahead(f)) ~>
            \/ gate
            \/ status \in {"down", "error"}
            \/ status = "paused" /\ f \in checkpoint.remaining

=============================================================================
