--------------------------- MODULE ScanIndexProofs ---------------------------
(***************************************************************************)
(* Proofs about ScanIndex for every set of files, batch size and bound.    *)
(*                                                                         *)
(* The inductive invariant says, beside the types, how the fields of the   *)
(* scan's frame depend on where the thread stands (FrameOK), that the      *)
(* working copy answers for every row that a clean publish would have to   *)
(* answer for (WorkingCoversRows), and that each file of the scan is still *)
(* to be taken, in the current chunk, decoded, or done in the working copy *)
(* (WorkAccounted). The claims about the published index and the index     *)
(* file follow since both only ever receive the working copy, or, at the   *)
(* start of the process, what is left of the file after the repair.        *)
(***************************************************************************)
EXTENDS ScanIndex, FiniteSetTheorems, TLAPS

BeforeBatches == {"none", "plan", "planWait", "walk"}

FrameOK ==
    /\ status = "down" => scan = NoScan /\ index = NoIndex
    /\ scan.pc \in BeforeBatches =>
        /\ scan.work = NoRows
        /\ scan.left = {}
        /\ scan.unpublished = {}
    /\ scan.pc \notin {"snap", "waiting", "decode", "read", "embed"} =>
        scan.chunk = {} /\ scan.decoded = NoRows
    /\ scan.pc = "embed" => scan.chunk = {}
    /\ scan.pc \in {"decode", "read"} => scan.chunk # {}
    /\ scan.pc \in {"snap", "waiting"} =>
        index = scan.working /\ (scan.chunk = {} => scan.decoded = NoRows)
    /\ scan.pc = "waiting" => checkpoint = Pending(scan.chunk \cup scan.left)
    /\ scan.pc = "finish" =>
        index = scan.working /\ scan.left = {} /\ scan.unpublished = {}

PartsOK ==
    /\ scan.left \cup scan.chunk \cup DOMAIN scan.decoded \subseteq DOMAIN scan.work
    /\ scan.left \cap scan.chunk = {}
    /\ (scan.left \cup scan.chunk) \cap DOMAIN scan.decoded = {}
    /\ \A f \in DOMAIN scan.decoded : scan.decoded[f] >= scan.work[f]

WorkingCoversRows ==
    scan.pc \notin BeforeBatches =>
        \A f \in DOMAIN rows \ lost : Covered(scan.working, rows, f)

WorkAccounted ==
    \A f \in DOMAIN scan.work \ (scan.left \cup scan.chunk \cup DOMAIN scan.decoded) :
        f \in DOMAIN rows /\ rows[f].stat = scan.work[f] /\ Covered(scan.working, rows, f)

CoverOK ==
    /\ WorkingCoversRows
    /\ WorkAccounted
    /\ RowsAreSearchable
    /\ FileCoversRows

IInv == TypeOK /\ FrameOK /\ PartsOK /\ CoverOK

-----------------------------------------------------------------------------
(* The operators on rows and indexes *)

(* A restriction of a partial function is one of the same type.             *)
LEMMA KeepType ==
    ASSUME NEW S, NEW T, NEW fn, PartialFunction(fn, S, T), NEW D
    PROVE  /\ PartialFunction(Keep(fn, D), S, T)
           /\ DOMAIN Keep(fn, D) = DOMAIN fn \cap D
           /\ \A f \in DOMAIN fn \cap D : Keep(fn, D)[f] = fn[f]
BY DEF PartialFunction, Keep

LEMMA NoRowsType == ASSUME NEW T PROVE PartialFunction(NoRows, Files, T) /\ DOMAIN NoRows = {}
BY DEF PartialFunction, NoRows

(* Removing ids from an index leaves an index with the other vectors.       *)
LEMMA WithoutType ==
    ASSUME NEW B, B = NoIndex \/ IndexOK(B), NEW ids
    PROVE  /\ Without(B, ids) = NoIndex \/ IndexOK(Without(B, ids))
           /\ B # NoIndex => IndexOK(Without(B, ids))
BY DEF Without, IndexOK, IsABag

LEMMA EmptyIndex == IndexOK(EmptyBag) /\ DOMAIN EmptyBag = {}
BY DEF IndexOK, IsABag, EmptyBag, SetToBag

LEMMA VectorsType ==
    ASSUME NEW B, B = NoIndex \/ IndexOK(B)
    PROVE  IndexOK(Vectors(B))
BY EmptyIndex DEF Vectors

LEMMA AddedType ==
    ASSUME NEW B, IndexOK(B), NEW S \in SUBSET Vector
    PROVE  IndexOK(B (+) SetToBag(S)) /\ DOMAIN (B (+) SetToBag(S)) = DOMAIN B \cup S
BY DEF IndexOK, IsABag, (+), SetToBag

LEMMA IndexIsNoMarker ==
    ASSUME NEW B, IndexOK(B)
    PROVE  B # NoIndex /\ B # Corrupt
BY IndexMarkers DEF IndexOK

(* What is covered stays so when the vectors of other files are removed.    *)
LEMMA WithoutCovers ==
    ASSUME NEW B, B = NoIndex \/ IndexOK(B), NEW ids, NEW table, NEW f,
           Covered(B, table, f), <<f, table[f].id>> \notin ids
    PROVE  Covered(Without(B, ids), table, f)
<1>1. PICK v \in DOMAIN Vectors(B) : VectorId(v) = <<f, table[f].id>> /\ v.ver >= table[f].stat
  BY DEF Covered
<1>2. B # NoIndex
  BY <1>1, EmptyIndex DEF Vectors
<1>3. IndexOK(Without(B, ids)) /\ v \in DOMAIN Without(B, ids)
  BY <1>1, <1>2, WithoutType DEF Without, Vectors
<1>4. Without(B, ids) # NoIndex
  BY <1>3, IndexIsNoMarker
<1> QED
  BY <1>1, <1>3, <1>4 DEF Covered, Vectors

(* Only the row itself matters.                                             *)
LEMMA CoveredSameRow ==
    ASSUME NEW B, NEW t1, NEW t2, NEW f, t1[f] = t2[f], Covered(B, t1, f)
    PROVE  Covered(B, t2, f)
BY DEF Covered

LEMMA InventoryType ==
    ASSUME TypeOK, NEW disk \in Inventories
    PROVE  PartialFunction(disk, Files, Nat)
<1>1. PartialFunction(version, Files, Nat)
  BY DEF TypeOK, PartialFunction
<1>2. PartialFunction(LiveInventory, Files, Nat)
  BY <1>1, KeepType DEF LiveInventory
<1> QED
  BY <1>2 DEF Inventories, TypeOK

-----------------------------------------------------------------------------
(* Types *)

(* The vectors and ids that a chunk brings in.                              *)
LEMMA CommitTypes ==
    ASSUME TypeOK, PartsOK
    PROVE  /\ \A f \in Files : RowIdFor(f) \in Nat
           /\ NewVectors \subseteq Vector
           /\ IndexOK(Reembedded)
           /\ DOMAIN Reembedded = NewVectors \cup
                  DOMAIN Without(Vectors(scan.working),
                                 RowIds(Keep(scan.known, DOMAIN scan.decoded)))
<1>1. \A f \in Files : RowIdFor(f) \in Nat
  BY DEF TypeOK, PartialFunction, Row, RowIdFor
<1>2. NewVectors \subseteq Vector
  BY <1>1 DEF TypeOK, ScanOK, PartialFunction, NewVectors, Vector
<1>3. IndexOK(Vectors(scan.working))
  BY VectorsType DEF TypeOK, ScanOK
<1> DEFINE W == Without(Vectors(scan.working), RowIds(Keep(scan.known, DOMAIN scan.decoded)))
<1>4. IndexOK(W)
  BY <1>3, WithoutType, IndexIsNoMarker
<1> HIDE DEF W
<1>5. IndexOK(W (+) SetToBag(NewVectors)) /\ DOMAIN (W (+) SetToBag(NewVectors)) = DOMAIN W \cup NewVectors
  BY <1>2, <1>4, AddedType
<1> QED
  BY <1>1, <1>2, <1>5 DEF Reembedded, W

LEMMA TypeInit == Init => TypeOK
<1> SUFFICES ASSUME Init PROVE TypeOK
  OBVIOUS
<1>1. PICK dup \in SUBSET Files :
        /\ rows = [f \in dup |-> [id |-> 1, stat |-> 1]]
        /\ lastId = [f \in Files |-> IF f \in dup THEN 1 ELSE 0]
        /\ idxFile = IF dup = {} THEN NoIndex
                     ELSE [v \in {[file |-> f, id |-> 1, ver |-> 1] : f \in dup} |-> 2]
  BY DEF Init
<1>2. PartialFunction(rows, Files, Row)
  BY <1>1 DEF PartialFunction, Row
<1>3. idxFile = NoIndex \/ IndexOK(idxFile)
  BY <1>1 DEF IndexOK, IsABag, Vector
<1>4. ScanOK
  BY NoRowsType DEF Init, ScanOK, NoScan, Locations
<1> QED
  BY <1>1, <1>2, <1>3, <1>4 DEF Init, TypeOK, NoCheckpoint

(* The body of Plan for one inventory.                                      *)
PlanFor(disk) ==
    LET base     == IF scan.force THEN NoRows ELSE rows
        toAdd    == DOMAIN disk \ DOMAIN base
        toUpdate == {f \in DOMAIN disk \cap DOMAIN base : base[f].stat # disk[f]}
    IN  /\ rows' = Keep(base, DOMAIN disk)
        /\ scan' = [scan EXCEPT !.pc = "batch", !.force = FALSE, !.known = Keep(base, toUpdate),
                        !.work = Keep(disk, toAdd \cup toUpdate), !.left = toAdd \cup toUpdate,
                        !.working = PlannedIndex(DOMAIN base \ DOMAIN disk)]

LEMMA PlanIsPlanFor == Plan => \E disk \in Inventories : PlanFor(disk)
BY DEF Plan, PlanFor, Inventories

LEMMA LoadCheckpointTypes ==
    ASSUME TypeOK, LoadCheckpoint
    PROVE  /\ checkpoint' \in [phase : {"none", "planning", "pending"}, remaining : SUBSET Files]
           /\ status' \in {"idle", "paused"}
           /\ gate' \in BOOLEAN
<1>1. CASE checkpoint.phase = "pending"
  BY <1>1 DEF LoadCheckpoint, TypeOK
<1>2. CASE checkpoint.phase # "pending"
  BY <1>2 DEF LoadCheckpoint, NoCheckpoint
<1> QED
  BY <1>1, <1>2

LEMMA TypeStep == TypeOK /\ FrameOK /\ PartsOK /\ [Next]_vars => TypeOK'
<1> SUFFICES ASSUME TypeOK, FrameOK, PartsOK, [Next]_vars PROVE TypeOK'
  OBVIOUS
<1> USE DEF TypeOK
<1>1. ASSUME NEW f \in Files, Edit(f) PROVE TypeOK'
  BY <1>1 DEF Edit, dbVars, diskVars, procVars, historyVars, ScanOK
<1>2. ASSUME NEW f \in Files, Delete(f) PROVE TypeOK'
  BY <1>2 DEF Delete, dbVars, diskVars, procVars, historyVars, ScanOK
<1>3. CASE RecordSnapshot
  <2>1. PartialFunction(LiveInventory, Files, Nat)
    BY InventoryType DEF Inventories
  <2> QED
    BY <1>3, <2>1 DEF RecordSnapshot, dbVars, diskVars, procVars, historyVars, ScanOK
<1>4. CASE DamageIndexFile
  BY <1>4 DEF DamageIndexFile, dbVars, storeVars, procVars, historyVars, ScanOK
<1>5. CASE Crash
  <2>1. ScanOK'
    BY <1>5, NoRowsType DEF Crash, ScanOK, NoScan, Locations
  <2> QED
    BY <1>5, <2>1 DEF Crash, dbVars, storeVars, diskVars, ScanOK
<1>6. CASE BootReconcile
  <2> DEFINE single == Without(idxFile, DuplicateIds(idxFile))
             table  == Keep(rows, {f \in DOMAIN rows : <<f, rows[f].id>> \notin DuplicateIds(idxFile)})
  <2>1. IndexOK(idxFile)
    BY <1>6 DEF BootReconcile
  <2>2. IndexOK(single)
    BY <2>1, WithoutType, IndexIsNoMarker
  <2>3. IndexOK(index')
    BY <1>6, <2>2, WithoutType, IndexIsNoMarker DEF BootReconcile
  <2>4. PartialFunction(table, Files, Row)
    BY KeepType, Zenon
  <2>5. PartialFunction(rows', Files, Row)
    <3>1. PICK D : rows' = Keep(table, D)
      BY <1>6 DEF BootReconcile
    <3> HIDE DEF table
    <3>2. PartialFunction(Keep(table, D), Files, Row)
      BY <2>4, KeepType
    <3> QED
      BY <3>1, <3>2
  <2>6. idxFile' = idxFile \/ idxFile' = index'
    BY <1>6 DEF BootReconcile
  <2>7. LoadCheckpoint /\ UNCHANGED <<storeVars, lastId, scan, historyVars>>
    BY <1>6 DEF BootReconcile
  <2> QED
    BY <2>1, <2>3, <2>5, <2>6, <2>7, LoadCheckpointTypes DEF storeVars, historyVars, ScanOK
<1>7. CASE BootWithoutIndex
  BY <1>7, NoRowsType, LoadCheckpointTypes DEF BootWithoutIndex, storeVars, historyVars, ScanOK
<1>8. CASE BootCorruptIndex
  BY <1>8, NoRowsType DEF BootCorruptIndex, storeVars, historyVars, ScanOK
<1>9. ASSUME NEW force \in BOOLEAN, Trigger(force) PROVE TypeOK'
  <2>1. ScanOK'
    BY <1>9, NoRowsType DEF Trigger, ScanOK, NoScan, Locations
  <2> QED
    BY <1>9, <2>1 DEF Trigger, Planning, storeVars, dbVars, historyVars
<1>10. CASE RequestPause
  BY <1>10 DEF RequestPause, dbVars, storeVars, diskVars, historyVars, ScanOK
<1>11. CASE Resume
  BY <1>11 DEF Resume, dbVars, storeVars, diskVars, historyVars, ScanOK
<1>12. CASE ResumeFromCheckpoint
  <2>1. PICK disk \in Inventories :
          LET files == checkpoint.remaining \cap DOMAIN disk
          IN  scan' = [NoScan EXCEPT !.pc = "batch", !.known = ResumedKnown(files),
                        !.work = Keep(disk, files), !.left = files,
                        !.working = ResumedIndex]
    BY <1>12 DEF ResumeFromCheckpoint, Inventories
  <2> DEFINE files == checkpoint.remaining \cap DOMAIN disk
  <2>2. PartialFunction(Keep(rows, files), Files, Row) /\ PartialFunction(Keep(disk, files), Files, Nat)
    BY InventoryType, KeepType
  <2>3. ScanOK'
    BY <2>1, <2>2, NoRowsType DEF ScanOK, NoScan, Locations, ResumedKnown, ResumedIndex
  <2> QED
    BY <1>12, <2>3 DEF ResumeFromCheckpoint, storeVars, dbVars, diskVars, historyVars
<1>13. CASE ResumeSetupFails
  BY <1>13 DEF ResumeSetupFails, dbVars, storeVars, diskVars, historyVars, ScanOK
<1>14. CASE ScanSteps
  <2>1. CASE Plan
    <3>1. PICK disk \in Inventories : PlanFor(disk)
      BY <2>1, PlanIsPlanFor
    <3> DEFINE base     == IF scan.force THEN NoRows ELSE rows
               toAdd    == DOMAIN disk \ DOMAIN base
               toUpdate == {f \in DOMAIN disk \cap DOMAIN base : base[f].stat # disk[f]}
    <3>2. PartialFunction(disk, Files, Nat) /\ PartialFunction(base, Files, Row)
      BY InventoryType, NoRowsType
    <3>3. PartialFunction(rows', Files, Row)
      BY <3>1, <3>2, KeepType DEF PlanFor
    <3>4. PartialFunction(Keep(base, toUpdate), Files, Row)
      BY <3>2, KeepType, Zenon
    <3>5. PartialFunction(Keep(disk, toAdd \cup toUpdate), Files, Nat)
      BY <3>2, KeepType, Zenon
    <3>6. \A gone : PlannedIndex(gone) = NoIndex \/ IndexOK(PlannedIndex(gone))
      BY WithoutType DEF PlannedIndex
    <3>7. toAdd \cup toUpdate \subseteq Files
      BY <3>2 DEF PartialFunction
    <3>8. scan' = [scan EXCEPT !.pc = "batch", !.force = FALSE, !.known = Keep(base, toUpdate),
                        !.work = Keep(disk, toAdd \cup toUpdate), !.left = toAdd \cup toUpdate,
                        !.working = PlannedIndex(DOMAIN base \ DOMAIN disk)]
      BY <3>1 DEF PlanFor
    <3> HIDE DEF base, toAdd, toUpdate
    <3>9. ScanOK'
      BY <3>4, <3>5, <3>6, <3>7, <3>8 DEF ScanOK, NoScan, Locations
    <3> QED
      BY <2>1, <3>3, <3>9 DEF Plan, storeVars, diskVars, procVars, historyVars
  <2>2. CASE PausePlan
    BY <2>2 DEF PausePlan, Planning, ScanOK, NoScan, Locations, storeVars, dbVars, historyVars
  <2>3. CASE PausePublish
    BY <2>3 DEF PausePublish, Publish, ScanOK, NoScan, Locations, storeVars, dbVars, historyVars
  <2>4. CASE PauseSave
    BY <2>4 DEF PauseSave, Pending, Remaining, ScanOK, NoScan, Locations, storeVars, dbVars,
                historyVars
  <2>5. CASE Wake
    BY <2>5 DEF Wake, NoCheckpoint, ScanOK, NoScan, Locations, storeVars, dbVars, historyVars
  <2>6. CASE TakeChunk
    BY <2>6 DEF TakeChunk, ScanOK, NoScan, Locations, storeVars, dbVars, diskVars, procVars,
                historyVars
  <2>7. ASSUME NEW f \in Files, DecodeOk(f) PROVE TypeOK'
    <3>1. PICK v \in scan.work[f]..version[f] :
            scan' = [scan EXCEPT !.pc = AfterFile(f), !.chunk = @ \ {f},
                    !.decoded = [g \in DOMAIN @ \cup {f} |-> IF g = f THEN v ELSE @[g]]]
      BY <2>7 DEF DecodeOk
    <3>2. v \in Nat
      BY <2>7 DEF DecodeOk, AtFile, PartsOK, ScanOK, PartialFunction
    <3>3. ScanOK'
      BY <3>1, <3>2 DEF ScanOK, NoScan, Locations, AfterFile, PartialFunction
    <3> QED
      BY <2>7, <3>3 DEF DecodeOk, storeVars, dbVars, diskVars, procVars, historyVars
  <2>8. ASSUME NEW f \in Files, DecodeFails(f) PROVE TypeOK'
    <3>1. ScanOK'
      BY <2>8, KeepType DEF DecodeFails, ScanOK, NoScan, Locations, AfterFile
    <3> QED
      BY <2>8, <3>1 DEF DecodeFails, storeVars, dbVars, diskVars, procVars, historyVars
  <2>9. CASE SkipChunk
    <3>1. ScanOK'
      BY <2>9, KeepType, NoRowsType DEF SkipChunk, ScanOK, NoScan, Locations
    <3> QED
      BY <2>9, <3>1 DEF SkipChunk, storeVars, dbVars, diskVars, procVars, historyVars
  <2>10. CASE CommitChunk
    <3>1. ScanOK'
      BY <2>10, CommitTypes, NoRowsType
         DEF CommitChunk, ScanOK, NoScan, Locations, PartialFunction
    <3>2. PartialFunction(rows', Files, Row)
      BY <2>10, CommitTypes DEF CommitChunk, PartialFunction, Row, ScanOK, PartsOK
    <3> QED
      BY <2>10, <3>1, <3>2 DEF CommitChunk, storeVars, diskVars, procVars
  <2>11. CASE PublishProgress
    BY <2>11 DEF PublishProgress, Publish, ScanOK, NoScan, Locations, storeVars, dbVars, historyVars
  <2>12. CASE SkipProgress
    BY <2>12 DEF SkipProgress, ScanOK, NoScan, Locations, storeVars, dbVars, diskVars, procVars,
                 historyVars
  <2>13. CASE PublishFinal
    BY <2>13 DEF PublishFinal, Publish, ScanOK, NoScan, Locations, storeVars, dbVars, historyVars
  <2>14. CASE Finish
    <3>1. ScanOK'
      BY <2>14, NoRowsType DEF Finish, ScanOK, NoScan, Locations
    <3> QED
      BY <2>14, <3>1 DEF Finish, NoCheckpoint, storeVars, dbVars, historyVars
  <2>15. CASE ScanFails
    <3>1. ScanOK'
      BY <2>15, NoRowsType DEF ScanFails, ScanOK, NoScan, Locations
    <3> QED
      BY <2>15, <3>1 DEF ScanFails, ScanOK, storeVars, dbVars, diskVars
  <2> QED
    BY <1>14, <2>1, <2>2, <2>3, <2>4, <2>5, <2>6, <2>7, <2>8, <2>9, <2>10, <2>11, <2>12, <2>13,
       <2>14, <2>15 DEF ScanSteps
<1>15. CASE UNCHANGED vars
  BY <1>15 DEF vars, ScanOK
<1> QED
  BY <1>1, <1>2, <1>3, <1>4, <1>5, <1>6, <1>7, <1>8, <1>9, <1>10, <1>11, <1>12, <1>13, <1>14, <1>15
     DEF Next, Environment, Boot, Requests

-----------------------------------------------------------------------------
(* The frame of the scan thread *)

(* Without a scan, or before its first batch, there is nothing to relate.   *)
LEMMA IdleFrame ==
    ASSUME scan' = NoScan, status' = "down" => index' = NoIndex
    PROVE  FrameOK' /\ PartsOK'
BY NoRowsType DEF NoScan, FrameOK, PartsOK, BeforeBatches

LEMMA FrameInit == Init => FrameOK /\ PartsOK
BY NoRowsType DEF Init, NoScan, FrameOK, PartsOK, BeforeBatches

(* The steps of other actors.                                               *)
LEMMA FrameOthers ==
    ASSUME TypeOK, FrameOK, PartsOK, Environment \/ Boot \/ Requests
    PROVE  FrameOK' /\ PartsOK'
<1>1. ASSUME NEW f \in Files, Edit(f) \/ Delete(f) PROVE FrameOK' /\ PartsOK'
  BY <1>1 DEF Edit, Delete, diskVars, procVars, FrameOK, PartsOK
<1>2. CASE RecordSnapshot \/ DamageIndexFile
  BY <1>2 DEF RecordSnapshot, DamageIndexFile, diskVars, procVars, FrameOK, PartsOK
<1>3. CASE Crash
  BY <1>3, IdleFrame DEF Crash
<1>4. CASE Boot
  <2>1. status = "down" /\ UNCHANGED scan
    BY <1>4 DEF Boot, BootReconcile, BootWithoutIndex, BootCorruptIndex
  <2>2. status' # "down"
    BY <1>4, LoadCheckpointTypes
       DEF Boot, BootReconcile, BootWithoutIndex, BootCorruptIndex
  <2> QED
    BY <2>1, <2>2, IdleFrame DEF FrameOK
<1>5. ASSUME NEW force \in BOOLEAN, Trigger(force) PROVE FrameOK' /\ PartsOK'
  BY <1>5, NoRowsType DEF Trigger, NoScan, FrameOK, PartsOK, BeforeBatches
<1>6. CASE RequestPause \/ Resume
  BY <1>6 DEF RequestPause, Resume, diskVars, FrameOK, PartsOK
<1>7. CASE ResumeFromCheckpoint
  <2>1. PICK disk \in Inventories :
          LET files == checkpoint.remaining \cap DOMAIN disk
          IN  scan' = [NoScan EXCEPT !.pc = "batch", !.known = ResumedKnown(files),
                        !.work = Keep(disk, files), !.left = files,
                        !.working = ResumedIndex]
    BY <1>7 DEF ResumeFromCheckpoint, Inventories
  <2> DEFINE files == checkpoint.remaining \cap DOMAIN disk
  <2>2. DOMAIN Keep(disk, files) = files
    BY DEF Keep
  <2>3. status' = "scanning"
    BY <1>7 DEF ResumeFromCheckpoint
  <2> QED
    BY <2>1, <2>2, <2>3, NoRowsType DEF NoScan, FrameOK, PartsOK, BeforeBatches
<1>8. CASE ResumeSetupFails
  BY <1>8 DEF ResumeSetupFails, diskVars, FrameOK, PartsOK
<1> QED
  BY <1>1, <1>2, <1>3, <1>4, <1>5, <1>6, <1>7, <1>8 DEF Environment, Requests

(* The steps of the thread.                                                 *)
LEMMA FrameScan ==
    ASSUME TypeOK, FrameOK, PartsOK, ScanSteps
    PROVE  FrameOK' /\ PartsOK'
<1>0. /\ DOMAIN scan = DOMAIN NoScan
      /\ scan.left \subseteq Files /\ scan.chunk \subseteq Files
      /\ scan.pc # "none" => status # "down"
      /\ \A f \in DOMAIN scan.work : scan.work[f] \in Nat
  BY DEF TypeOK, ScanOK, FrameOK, NoScan, PartialFunction
<1>1. CASE Plan
  <2>1. PICK disk \in Inventories : PlanFor(disk)
    BY <1>1, PlanIsPlanFor
  <2> DEFINE base     == IF scan.force THEN NoRows ELSE rows
             toAdd    == DOMAIN disk \ DOMAIN base
             toUpdate == {f \in DOMAIN disk \cap DOMAIN base : base[f].stat # disk[f]}
  <2>2. scan' = [scan EXCEPT !.pc = "batch", !.force = FALSE, !.known = Keep(base, toUpdate),
                        !.work = Keep(disk, toAdd \cup toUpdate), !.left = toAdd \cup toUpdate,
                        !.working = PlannedIndex(DOMAIN base \ DOMAIN disk)]
    BY <2>1 DEF PlanFor
  <2>3. DOMAIN Keep(disk, toAdd \cup toUpdate) = toAdd \cup toUpdate
    BY DEF Keep
  <2> HIDE DEF base, toAdd, toUpdate
  <2>4. scan.pc \in {"plan", "walk"} /\ UNCHANGED status
    BY <1>1 DEF Plan, procVars
  <2> QED
    BY <1>0, <2>2, <2>3, <2>4, NoRowsType DEF FrameOK, PartsOK, NoScan, BeforeBatches
<1>2. CASE PausePlan
  BY <1>0, <1>2 DEF PausePlan, FrameOK, PartsOK, NoScan, BeforeBatches
<1>3. CASE PausePublish
  BY <1>0, <1>3 DEF PausePublish, MayPause, Publish, FrameOK, PartsOK, NoScan, BeforeBatches
<1>4. CASE PauseSave
  BY <1>0, <1>4 DEF PauseSave, Remaining, FrameOK, PartsOK, NoScan, BeforeBatches
<1>5. CASE Wake
  BY <1>0, <1>5 DEF Wake, FrameOK, PartsOK, NoScan, BeforeBatches
<1>6. CASE TakeChunk
  BY <1>0, <1>6, NoRowsType DEF TakeChunk, procVars, FrameOK, PartsOK, NoScan, BeforeBatches
<1>7. ASSUME NEW f \in Files, DecodeOk(f) PROVE FrameOK' /\ PartsOK'
  <2>1. PICK v \in scan.work[f]..version[f] :
            scan' = [scan EXCEPT !.pc = AfterFile(f), !.chunk = @ \ {f},
                    !.decoded = [g \in DOMAIN @ \cup {f} |-> IF g = f THEN v ELSE @[g]]]
    BY <1>7 DEF DecodeOk
  <2>2. f \in scan.chunk /\ v >= scan.work[f]
    BY <1>0, <1>7 DEF DecodeOk, AtFile, PartsOK, TypeOK
  <2>3. status' = status /\ scan.pc \in {"decode", "read"}
    BY <1>7 DEF DecodeOk, AtFile, procVars
  <2>4. FrameOK'
    BY <1>0, <2>1, <2>2, <2>3 DEF AfterFile, FrameOK, NoScan, BeforeBatches
  <2>5. PartsOK'
    BY <1>0, <2>1, <2>2 DEF PartsOK, NoScan
  <2> QED
    BY <2>4, <2>5
<1>8. ASSUME NEW f \in Files, DecodeFails(f) PROVE FrameOK' /\ PartsOK'
  <2>1. f \in scan.chunk
    BY <1>8 DEF DecodeFails, AtFile
  <2>2. FrameOK'
    BY <1>0, <1>8, <2>1
       DEF DecodeFails, AtFile, AfterFile, procVars, FrameOK, NoScan, BeforeBatches
  <2>3. PartsOK'
    BY <1>0, <1>8, <2>1 DEF DecodeFails, PartsOK, NoScan, Keep
  <2> QED
    BY <2>2, <2>3
<1>9. CASE SkipChunk
  <2>1. FrameOK'
    BY <1>0, <1>9 DEF SkipChunk, procVars, FrameOK, NoScan, BeforeBatches
  <2>2. PartsOK'
    BY <1>0, <1>9, NoRowsType DEF SkipChunk, FrameOK, PartsOK, NoScan, Keep
  <2> QED
    BY <2>1, <2>2
<1>10. CASE CommitChunk
  BY <1>0, <1>10, NoRowsType
     DEF CommitChunk, procVars, FrameOK, PartsOK, NoScan, BeforeBatches
<1>11. CASE PublishProgress \/ SkipProgress \/ PublishFinal
  BY <1>0, <1>11, NoRowsType
     DEF PublishProgress, SkipProgress, PublishFinal, Publish, procVars, FrameOK, PartsOK,
         NoScan, BeforeBatches
<1>12. CASE Finish \/ ScanFails
  BY <1>12, IdleFrame DEF Finish, ScanFails
<1> QED
  BY <1>1, <1>2, <1>3, <1>4, <1>5, <1>6, <1>7, <1>8, <1>9, <1>10, <1>11, <1>12 DEF ScanSteps

-----------------------------------------------------------------------------
(* Which index answers for which row *)

LEMMA CoverInit == Init => CoverOK
<1> SUFFICES ASSUME Init PROVE CoverOK
  OBVIOUS
<1>1. PICK dup \in SUBSET Files :
        /\ rows = [f \in dup |-> [id |-> 1, stat |-> 1]]
        /\ idxFile = IF dup = {} THEN NoIndex
                     ELSE [v \in {[file |-> f, id |-> 1, ver |-> 1] : f \in dup} |-> 2]
  BY DEF Init
<1>2. ASSUME NEW f \in DOMAIN rows PROVE Covered(idxFile, rows, f)
  <2>1. idxFile = [v \in {[file |-> g, id |-> 1, ver |-> 1] : g \in dup} |-> 2]
    BY <1>1, <1>2
  <2>2. IndexOK(idxFile)
    BY <2>1 DEF IndexOK, IsABag, Vector
  <2>3. Vectors(idxFile) = idxFile
    BY <2>2, IndexIsNoMarker DEF Vectors
  <2>4. [file |-> f, id |-> 1, ver |-> 1] \in DOMAIN Vectors(idxFile)
    BY <1>1, <1>2, <2>1, <2>3
  <2> QED
    BY <1>1, <1>2, <2>4 DEF Covered, VectorId
<1> QED
  BY <1>2, NoRowsType
     DEF Init, NoScan, BeforeBatches, CoverOK, WorkingCoversRows, WorkAccounted, RowsAreSearchable,
         FileCoversRows

(* A step that changes neither rows nor indexes.                            *)
LEMMA CoverSame ==
    ASSUME CoverOK, UNCHANGED <<rows, lost, index, idxFile>>, status = "down" <=> status' = "down",
           scan'.working = scan.working, scan'.unpublished = scan.unpublished,
           scan.pc \in BeforeBatches => scan'.pc \in BeforeBatches
    PROVE  WorkingCoversRows' /\ RowsAreSearchable' /\ FileCoversRows'
BY DEF CoverOK, WorkingCoversRows, RowsAreSearchable, FileCoversRows, Covered

(* A step after which the published index and the file are the working copy.*)
LEMMA CoverPublished ==
    ASSUME CoverOK, Publish, UNCHANGED <<rows, lost>>, scan.pc \notin BeforeBatches,
           scan'.working = scan.working
    PROVE  WorkingCoversRows' /\ RowsAreSearchable' /\ FileCoversRows'
BY DEF CoverOK, Publish, WorkingCoversRows, RowsAreSearchable, FileCoversRows, Covered

(* A step that ends the scan.                                               *)
LEMMA CoverEnded ==
    ASSUME CoverOK, UNCHANGED <<rows, idxFile>>, scan' = NoScan,
           lost' = lost \cup scan.unpublished,
           status' = "down" \/ (status # "down" /\ UNCHANGED index)
    PROVE  CoverOK'
BY NoRowsType
   DEF CoverOK, WorkingCoversRows, WorkAccounted, RowsAreSearchable, FileCoversRows, Covered,
       NoScan, BeforeBatches

(* A start of the process that reads the index file.                        *)
LEMMA CoverReconciled ==
    ASSUME TypeOK, FrameOK, CoverOK, BootReconcile
    PROVE  CoverOK'
<1> DEFINE dups    == DuplicateIds(idxFile)
           single  == Without(idxFile, dups)
           table   == Keep(rows, {f \in DOMAIN rows : <<f, rows[f].id>> \notin dups})
           orphans == IdsOf(single) \ RowIds(table)
<1>1. scan = NoScan /\ UNCHANGED <<scan, lost>> /\ IndexOK(idxFile)
  BY DEF BootReconcile, FrameOK, TypeOK, historyVars
<1>2. IndexOK(single)
  BY <1>1, WithoutType, IndexIsNoMarker
<1>3. ASSUME NEW f \in DOMAIN rows' \ lost
      PROVE  f \in DOMAIN rows /\ rows'[f] = rows[f] /\ Covered(index', rows, f)
             /\ Covered(idxFile, rows, f)
  <2>1. f \in DOMAIN table /\ rows'[f] = table[f]
    BY <1>3 DEF BootReconcile, Keep
  <2>2. f \in DOMAIN rows /\ table[f] = rows[f] /\ <<f, rows[f].id>> \notin dups
    BY <2>1 DEF Keep
  <2>3. Covered(idxFile, rows, f)
    BY <1>1, <1>3, <2>2, IndexIsNoMarker DEF CoverOK, FileCoversRows, NoScan
  <2>4. Covered(single, rows, f)
    BY <1>1, <2>2, <2>3, WithoutCovers
  <2>5. <<f, rows[f].id>> \notin orphans
    BY <2>1, <2>2 DEF RowIds
  <2>6. index' = Without(single, orphans)
    BY DEF BootReconcile
  <2>7. Covered(index', rows, f)
    <3> HIDE DEF single, orphans
    <3> QED
      BY <1>2, <2>4, <2>5, <2>6, WithoutCovers
  <2> QED
    BY <2>1, <2>2, <2>3, <2>7
<1>4. \A f \in DOMAIN rows' \ lost : Covered(index', rows', f) /\ Covered(idxFile, rows', f)
  BY <1>3, CoveredSameRow
<1>5. idxFile' = idxFile \/ idxFile' = index'
  BY DEF BootReconcile
<1> QED
  BY <1>1, <1>4, <1>5, NoRowsType
     DEF CoverOK, WorkingCoversRows, WorkAccounted, RowsAreSearchable, FileCoversRows,
         NoScan, BeforeBatches

LEMMA CoverOthers ==
    ASSUME TypeOK, FrameOK, PartsOK, CoverOK, Environment \/ Boot \/ Requests
    PROVE  CoverOK'
<1>1. CASE RecordSnapshot \/ \E f \in Files : Edit(f) \/ Delete(f)
  BY <1>1, CoverSame
     DEF RecordSnapshot, Edit, Delete, dbVars, diskVars, procVars, historyVars,
         CoverOK, WorkAccounted, Covered
<1>2. CASE DamageIndexFile
  BY <1>2 DEF DamageIndexFile, dbVars, procVars, historyVars, CoverOK, WorkingCoversRows,
              WorkAccounted, RowsAreSearchable, FileCoversRows, Covered
<1>3. CASE Crash
  BY <1>3, CoverEnded DEF Crash, dbVars, diskVars
<1>4. CASE BootReconcile
  BY <1>4, CoverReconciled
<1>5. CASE BootWithoutIndex \/ BootCorruptIndex
  BY <1>5, NoRowsType
     DEF BootWithoutIndex, BootCorruptIndex, FrameOK, NoScan, historyVars, BeforeBatches,
         CoverOK, WorkingCoversRows, WorkAccounted, RowsAreSearchable, FileCoversRows
<1>6. ASSUME NEW force \in BOOLEAN, Trigger(force) PROVE CoverOK'
  BY <1>6, NoRowsType
     DEF Trigger, FrameOK, NoScan, dbVars, historyVars, BeforeBatches, CoverOK,
         WorkingCoversRows, WorkAccounted, RowsAreSearchable, FileCoversRows, Covered
<1>7. CASE RequestPause \/ Resume \/ ResumeSetupFails
  BY <1>7, CoverSame
     DEF RequestPause, Resume, ResumeSetupFails, dbVars, diskVars, historyVars,
         CoverOK, WorkAccounted, Covered
<1>8. CASE ResumeFromCheckpoint
  <2>1. PICK disk \in Inventories :
          LET files == checkpoint.remaining \cap DOMAIN disk
          IN  scan' = [NoScan EXCEPT !.pc = "batch", !.known = ResumedKnown(files),
                        !.work = Keep(disk, files), !.left = files,
                        !.working = ResumedIndex]
    BY <1>8 DEF ResumeFromCheckpoint, Inventories
  <2> DEFINE files == checkpoint.remaining \cap DOMAIN disk
  <2>2. DOMAIN Keep(disk, files) = files
    BY DEF Keep
  <2>3. /\ scan'.working = index /\ scan'.unpublished = {} /\ scan'.left = DOMAIN scan'.work
        /\ scan'.pc = "batch"
    BY <2>1, <2>2 DEF NoScan, ResumedIndex
  <2>4. scan.pc = "none" /\ scan.unpublished = {} /\ status # "down"
        /\ UNCHANGED <<rows, lost, index, idxFile>>
    BY <1>8 DEF ResumeFromCheckpoint, FrameOK, BeforeBatches, dbVars, diskVars, historyVars
  <2> QED
    BY <2>3, <2>4
       DEF CoverOK, WorkingCoversRows, WorkAccounted, RowsAreSearchable, FileCoversRows,
           Covered, BeforeBatches
<1> QED
  BY <1>1, <1>2, <1>3, <1>4, <1>5, <1>6, <1>7, <1>8 DEF Environment, Boot, Requests

(* The plan keeps the vectors of the rows that stay.                        *)
LEMMA CoverPlan ==
    ASSUME TypeOK, FrameOK, PartsOK, CoverOK, Plan
    PROVE  CoverOK'
<1>1. PICK disk \in Inventories : PlanFor(disk)
  BY PlanIsPlanFor
<1> DEFINE base == IF scan.force THEN NoRows ELSE rows
           gone == DOMAIN base \ DOMAIN disk
<1>2. rows' = Keep(base, DOMAIN disk)
  BY <1>1 DEF PlanFor
<1>3. /\ scan'.working = PlannedIndex(gone)
      /\ scan'.left = DOMAIN scan'.work
      /\ scan'.unpublished = {}
      /\ scan.unpublished = {}
      /\ scan'.pc = "batch"
      /\ status # "down"
  <2>1. DOMAIN scan = DOMAIN NoScan /\ scan.pc \in {"plan", "walk"}
    BY DEF TypeOK, ScanOK, Plan
  <2> QED
    BY <1>1, <2>1 DEF PlanFor, NoScan, FrameOK, BeforeBatches, Keep
<1>4. UNCHANGED <<lost, index, idxFile, status>>
  BY DEF Plan, diskVars, procVars, historyVars
<1>5. ASSUME NEW f \in DOMAIN rows'
      PROVE  /\ ~ scan.force /\ f \in DOMAIN rows /\ rows'[f] = rows[f]
             /\ f \in DOMAIN disk
  BY <1>2, <1>5, NoRowsType DEF Keep
<1>6. ASSUME NEW f \in DOMAIN rows' \ lost
      PROVE  Covered(index, rows', f) /\ Covered(PlannedIndex(gone), rows', f)
  <2>1. Covered(index, rows, f)
    BY <1>3, <1>5, <1>6 DEF CoverOK, RowsAreSearchable
  <2>2. <<f, rows[f].id>> \notin RowIds(Keep(rows, gone))
    BY <1>5, <1>6 DEF RowIds, Keep
  <2>3. Covered(PlannedIndex(gone), rows, f)
    <3> HIDE DEF gone
    <3> QED
      BY <1>5, <1>6, <2>1, <2>2, WithoutCovers DEF PlannedIndex, TypeOK
  <2> QED
    BY <1>5, <1>6, <2>1, <2>3, CoveredSameRow
<1>7. WorkingCoversRows' /\ RowsAreSearchable'
  <2> HIDE DEF gone, base
  <2> QED
    BY <1>3, <1>4, <1>6 DEF WorkingCoversRows, RowsAreSearchable, Covered
<1>8. FileCoversRows'
  BY <1>3, <1>4, <1>5 DEF CoverOK, FileCoversRows, Covered
<1>9. WorkAccounted'
  BY <1>3 DEF WorkAccounted
<1> QED
  BY <1>7, <1>8, <1>9 DEF CoverOK

(* The transaction and the vectors that go with it.                         *)
LEMMA CoverCommit ==
    ASSUME TypeOK, FrameOK, PartsOK, CoverOK, CommitChunk
    PROVE  CoverOK'
<1> DEFINE done == DOMAIN scan.decoded
           W    == Without(Vectors(scan.working), RowIds(Keep(scan.known, done)))
<1>1. /\ rows' = [f \in DOMAIN rows \cup done |->
                        IF f \in done THEN [id |-> RowIdFor(f), stat |-> scan.work[f]]
                        ELSE rows[f]]
      /\ lost' = lost \ done
      /\ UNCHANGED <<index, idxFile, status>>
      /\ scan.pc = "embed"
  BY DEF CommitChunk, diskVars, procVars
<1>2. /\ scan'.pc = "progress" /\ scan'.decoded = NoRows /\ scan'.working = Reembedded
      /\ scan'.unpublished = scan.unpublished \cup done
      /\ scan'.work = scan.work /\ scan'.left = scan.left /\ scan'.chunk = {} /\ scan.chunk = {}
  BY DEF CommitChunk, TypeOK, ScanOK, NoScan, FrameOK
<1>3. IndexOK(Reembedded) /\ DOMAIN Reembedded = NewVectors \cup DOMAIN W
  BY CommitTypes
<1>4. Vectors(Reembedded) = Reembedded
  BY <1>3, IndexIsNoMarker DEF Vectors
<1>5. ASSUME NEW f \in done
      PROVE  /\ Covered(Reembedded, rows', f)
             /\ f \in DOMAIN rows' /\ rows'[f].stat = scan.work[f]
  <2>1. [file |-> f, id |-> RowIdFor(f), ver |-> scan.decoded[f]] \in NewVectors
    BY <1>5 DEF NewVectors
  <2>2. scan.decoded[f] >= scan.work[f]
    BY <1>5 DEF PartsOK
  <2>3. rows'[f] = [id |-> RowIdFor(f), stat |-> scan.work[f]] /\ f \in DOMAIN rows'
    BY <1>1, <1>5
  <2> HIDE DEF W, done
  <2> QED
    BY <1>3, <1>4, <2>1, <2>2, <2>3 DEF Covered, VectorId
<1>6. ASSUME NEW f \in DOMAIN rows \ done, Covered(scan.working, rows, f)
      PROVE  Covered(Reembedded, rows', f) /\ rows'[f] = rows[f]
  <2>1. <<f, rows[f].id>> \notin RowIds(Keep(scan.known, done))
    BY <1>6 DEF RowIds, Keep
  <2>2. PICK v \in DOMAIN Vectors(scan.working) :
          VectorId(v) = <<f, rows[f].id>> /\ v.ver >= rows[f].stat
    BY <1>6 DEF Covered
  <2>3. Vectors(scan.working) # NoIndex
    BY VectorsType, IndexIsNoMarker DEF TypeOK, ScanOK
  <2>4. v \in DOMAIN W
    BY <2>1, <2>2, <2>3 DEF Without
  <2>5. rows'[f] = rows[f]
    BY <1>1, <1>6
  <2> HIDE DEF W
  <2> QED
    BY <1>3, <1>4, <2>2, <2>4, <2>5 DEF Covered
<1>7. DOMAIN rows' = DOMAIN rows \cup done /\ \A f \in DOMAIN rows \ done : rows'[f] = rows[f]
  BY <1>1
<1> HIDE DEF W, done
<1>8. WorkingCoversRows'
  <2>1. \A f \in DOMAIN rows \ lost : Covered(scan.working, rows, f)
    BY <1>1 DEF CoverOK, WorkingCoversRows, BeforeBatches
  <2> QED
    BY <1>1, <1>2, <1>5, <1>6, <1>7, <2>1 DEF WorkingCoversRows
<1>9. RowsAreSearchable' /\ FileCoversRows'
  BY <1>1, <1>2, <1>7 DEF CoverOK, RowsAreSearchable, FileCoversRows, Covered
<1>10. WorkAccounted'
  <2> SUFFICES ASSUME NEW f \in DOMAIN scan.work \ scan.left
               PROVE  f \in DOMAIN rows' /\ rows'[f].stat = scan.work[f]
                      /\ Covered(Reembedded, rows', f)
    BY <1>2 DEF WorkAccounted
  <2>1. CASE f \in done
    BY <1>5, <2>1
  <2>2. CASE f \notin done
    <3>1. f \in DOMAIN rows /\ rows[f].stat = scan.work[f] /\ Covered(scan.working, rows, f)
      BY <1>2, <2>2 DEF CoverOK, WorkAccounted, done
    <3> QED
      BY <1>6, <1>7, <2>2, <3>1
  <2> QED
    BY <2>1, <2>2
<1> QED
  BY <1>8, <1>9, <1>10 DEF CoverOK

LEMMA CoverScan ==
    ASSUME TypeOK, FrameOK, PartsOK, CoverOK, ScanSteps
    PROVE  CoverOK'
<1>0. /\ DOMAIN scan = DOMAIN NoScan
      /\ scan.pc # "none" => status # "down"
  BY DEF TypeOK, ScanOK, FrameOK, NoScan
<1>1. CASE Plan
  BY <1>1, CoverPlan
<1>2. CASE PausePlan \/ PauseSave \/ Wake \/ TakeChunk \/ SkipProgress
  <2>1. /\ UNCHANGED <<rows, lost, index, idxFile>>
        /\ scan'.working = scan.working /\ scan'.unpublished = scan.unpublished
        /\ scan'.work = scan.work /\ scan'.decoded = scan.decoded
        /\ scan'.left \cup scan'.chunk = scan.left \cup scan.chunk
        /\ scan.pc # "none" /\ status' # "down"
        /\ scan.pc \in BeforeBatches => scan'.pc \in BeforeBatches
    <3>1. CASE PausePlan \/ PauseSave \/ Wake
      BY <1>0, <3>1
         DEF PausePlan, PauseSave, Wake, NoScan, BeforeBatches, storeVars, dbVars, historyVars
    <3>2. CASE TakeChunk
      <4>1. scan.chunk = {} /\ scan.pc \in {"batch", "take"}
        BY <3>2 DEF TakeChunk, FrameOK
      <4> QED
        BY <1>0, <3>2, <4>1
           DEF TakeChunk, NoScan, BeforeBatches, dbVars, diskVars, procVars, historyVars
    <3>3. CASE SkipProgress
      BY <1>0, <3>3
         DEF SkipProgress, NoScan, BeforeBatches, dbVars, diskVars, procVars, historyVars
    <3> QED
      BY <1>2, <3>1, <3>2, <3>3
  <2>2. WorkAccounted'
    BY <2>1 DEF CoverOK, WorkAccounted, Covered
  <2> QED
    BY <1>0, <2>1, <2>2, CoverSame DEF CoverOK
<1>3. CASE PausePublish \/ PublishProgress \/ PublishFinal
  <2>1. /\ Publish /\ UNCHANGED <<rows, lost>>
        /\ scan'.working = scan.working
        /\ scan'.work = scan.work /\ scan'.decoded = scan.decoded
        /\ scan'.left = scan.left /\ scan'.chunk = scan.chunk
        /\ scan.pc \notin BeforeBatches
    BY <1>0, <1>3
       DEF PausePublish, MayPause, PublishProgress, PublishFinal, NoScan, BeforeBatches,
           storeVars, dbVars, historyVars
  <2>2. WorkAccounted'
    BY <2>1 DEF CoverOK, WorkAccounted, Covered
  <2> QED
    BY <2>1, <2>2, CoverPublished DEF CoverOK
<1>4. CASE SkipChunk \/ \E f \in Files : DecodeOk(f) \/ DecodeFails(f)
  <2>1. /\ UNCHANGED <<rows, lost, index, idxFile, status>>
        /\ scan'.working = scan.working /\ scan'.unpublished = scan.unpublished
        /\ scan.pc \notin BeforeBatches
    BY <1>0, <1>4
       DEF SkipChunk, DecodeOk, DecodeFails, AtFile, NoScan, BeforeBatches,
           storeVars, dbVars, diskVars, procVars, historyVars
  <2>2. /\ DOMAIN scan'.work \ (scan'.left \cup scan'.chunk \cup DOMAIN scan'.decoded)
               \subseteq DOMAIN scan.work \ (scan.left \cup scan.chunk \cup DOMAIN scan.decoded)
        /\ \A f \in DOMAIN scan'.work : scan'.work[f] = scan.work[f]
    <3>1. CASE SkipChunk
      BY <1>0, <3>1, NoRowsType DEF SkipChunk, NoScan, Keep, FrameOK
    <3>2. ASSUME NEW f \in Files, DecodeOk(f)
          PROVE  /\ scan'.work = scan.work /\ scan'.left = scan.left
                 /\ scan'.chunk = scan.chunk \ {f}
                 /\ DOMAIN scan'.decoded = DOMAIN scan.decoded \cup {f}
      BY <1>0, <3>2 DEF DecodeOk, NoScan
    <3>3. ASSUME NEW f \in Files, DecodeFails(f)
          PROVE  /\ DOMAIN scan'.work = DOMAIN scan.work \ {f} /\ scan'.left = scan.left
                 /\ scan'.chunk = scan.chunk \ {f} /\ scan'.decoded = scan.decoded
                 /\ \A g \in DOMAIN scan'.work : scan'.work[g] = scan.work[g]
      BY <1>0, <3>3 DEF DecodeFails, NoScan, Keep
    <3> QED
      BY <1>4, <3>1, <3>2, <3>3
  <2>3. WorkAccounted'
    BY <2>1, <2>2 DEF CoverOK, WorkAccounted, Covered
  <2> QED
    BY <2>1, <2>3, CoverSame DEF CoverOK
<1>5. CASE CommitChunk
  BY <1>5, CoverCommit
<1>6. CASE Finish
  <2>1. scan.unpublished = {}
    BY <1>6 DEF Finish, FrameOK
  <2> QED
    BY <1>0, <1>6, <2>1, CoverEnded DEF Finish, dbVars, historyVars
<1>7. CASE ScanFails
  BY <1>0, <1>7, CoverEnded DEF ScanFails, dbVars, diskVars
<1> QED
  BY <1>1, <1>2, <1>3, <1>4, <1>5, <1>6, <1>7 DEF ScanSteps

-----------------------------------------------------------------------------
(* The theorems *)

LEMMA InductiveInit == Init => IInv
BY TypeInit, FrameInit, CoverInit DEF IInv

LEMMA InductiveStep == IInv /\ [Next]_vars => IInv'
<1> SUFFICES ASSUME IInv, [Next]_vars PROVE IInv'
  OBVIOUS
<1>1. TypeOK'
  BY TypeStep DEF IInv
<1>2. CASE Next
  BY <1>1, <1>2, FrameOthers, FrameScan, CoverOthers, CoverScan DEF Next, IInv
<1>3. CASE UNCHANGED vars
  BY <1>1, <1>3
     DEF vars, IInv, FrameOK, PartsOK, CoverOK, WorkingCoversRows, WorkAccounted,
         RowsAreSearchable, FileCoversRows, Covered
<1> QED
  BY <1>2, <1>3

(* Every reachable state of the scan pipeline satisfies the invariant.      *)
THEOREM Inductive == Spec => []IInv
BY InductiveInit, InductiveStep, PTL DEF Spec

(* The variables keep the kinds of values that indexer.py gives them.       *)
THEOREM TypeCorrect == Spec => []TypeOK
<1>1. IInv => TypeOK
  BY DEF IInv
<1> QED
  BY <1>1, Inductive, PTL

(* A row whose vector is missing from the index that searches read, or      *)
(* older than the row, has been committed and not yet published, or its     *)
(* scan died in between.                                                    *)
THEOREM Searchable == Spec => []RowsAreSearchable
<1>1. IInv => RowsAreSearchable
  BY DEF IInv, CoverOK
<1> QED
  BY <1>1, Inductive, PTL

(* The same of index.faiss, from which the recovery after a crash starts.   *)
THEOREM FileSufficient == Spec => []FileCoversRows
<1>1. IInv => FileCoversRows
  BY DEF IInv, CoverOK
<1> QED
  BY <1>1, Inductive, PTL

(* A scan that comes to its end has processed every file that it set out to *)
(* process and that did not fail.                                           *)
THEOREM CompletedScan == Spec => []CompletedScanIndexedItsWork
<1>1. IInv => CompletedScanIndexedItsWork
  <2> SUFFICES ASSUME IInv, scan.pc = "finish", NEW f \in DOMAIN scan.work PROVE Done(f)
    BY DEF CompletedScanIndexedItsWork
  <2>1. scan.left = {} /\ scan.chunk = {} /\ DOMAIN scan.decoded = {} /\ index = scan.working
    BY NoRowsType DEF IInv, FrameOK
  <2> QED
    BY <2>1 DEF IInv, CoverOK, WorkAccounted, Done
<1> QED
  BY <1>1, Inductive, PTL

(* The checkpoint of a paused scan, the published index and the images that *)
(* the thread has decoded account for all of its work.                      *)
THEOREM PausedScan == Spec => []PauseCheckpointAccountsForWork
<1>1. IInv => PauseCheckpointAccountsForWork
  <2> SUFFICES ASSUME IInv, scan.pc = "waiting"
               PROVE  /\ checkpoint.phase = "pending"
                      /\ \A f \in DOMAIN scan.work :
                           f \in checkpoint.remaining \/ f \in DOMAIN scan.decoded \/ Done(f)
    BY DEF PauseCheckpointAccountsForWork
  <2>1. checkpoint = Pending(scan.chunk \cup scan.left) /\ index = scan.working
    BY DEF IInv, FrameOK
  <2>2. checkpoint.phase = "pending" /\ checkpoint.remaining = scan.chunk \cup scan.left
    BY <2>1 DEF Pending
  <2> QED
    BY <2>1, <2>2 DEF IInv, CoverOK, WorkAccounted, Done
<1> QED
  BY <1>1, Inductive, PTL


-----------------------------------------------------------------------------
(***************************************************************************)
(* The ids of the rows and of the vectors.                                 *)
(*                                                                         *)
(* That no id is indexed twice and that table and index agree at rest is   *)
(* not inductive.  IdInv adds that ids in use have been drawn (DrawnIds),  *)
(* so that the id of a new row is in no index yet; that the scan knows the *)
(* rows of the files it has yet to commit (KnownRows), so that their old   *)
(* vectors go; and it says of the working copy, where there is one, what   *)
(* is to hold of the index that is published from it (SameIds,             *)
(* FoundStays).                                                            *)
(***************************************************************************)

(* No id twice.                                                            *)
Unique(B) ==
    B # NoIndex =>
        \A v \in DOMAIN B : B[v] = 1 /\ \A u \in DOMAIN B : VectorId(u) = VectorId(v) => u = v

(* Only ids that the table has given out.                                  *)
Drawn(B) == \A v \in DOMAIN Vectors(B) : v.id <= lastId[v.file]

UniqueIds == Unique(index) /\ Unique(scan.working)

DrawnIds ==
    /\ Drawn(index) /\ Drawn(scan.working)
    /\ idxFile # Corrupt => Drawn(idxFile)
    /\ \A f \in DOMAIN rows : rows[f].id <= lastId[f]

(* Until a file is committed the scan knows its row, if it has one.         *)
KnownRows ==
    \A f \in scan.left \cup scan.chunk \cup DOMAIN scan.decoded :
        /\ f \in DOMAIN rows <=> f \in DOMAIN scan.known
        /\ f \in DOMAIN rows => scan.known[f] = rows[f]

(* What the next publish will show, or what is shown when no scan has one.  *)
Coming == IF scan.pc \in BeforeBatches THEN index ELSE scan.working

SameIds == status # "down" /\ ~ errored => IdsOf(Coming) = RowIds(rows)

(* What searches can find the next publish will not lose.                   *)
FoundStays ==
    \A f \in DOMAIN rows :
        <<f, rows[f].id>> \in IdsOf(index) => <<f, rows[f].id>> \in IdsOf(Coming)

IdInv == UniqueIds /\ DrawnIds /\ KnownRows /\ SameIds /\ FoundStays

-----------------------------------------------------------------------------
(* Indexes *)

LEMMA EmptyIds ==
    /\ Unique(NoIndex) /\ Drawn(NoIndex) /\ IdsOf(NoIndex) = {}
    /\ Vectors(NoIndex) = EmptyBag
BY EmptyIndex DEF Unique, Drawn, IdsOf, Vectors

LEMMA VectorsOf ==
    ASSUME NEW B, IndexOK(B)
    PROVE  Vectors(B) = B /\ B # NoIndex
BY IndexIsNoMarker DEF Vectors

(* Removing ids removes their vectors and no others.                        *)
LEMMA WithoutIds ==
    ASSUME NEW B, B = NoIndex \/ IndexOK(B), NEW ids
    PROVE  /\ IdsOf(Without(B, ids)) = IdsOf(B) \ ids
           /\ Unique(B) => Unique(Without(B, ids))
           /\ Drawn(B) => Drawn(Without(B, ids))
<1>1. CASE B = NoIndex
  BY <1>1, EmptyIds DEF Without
<1>2. CASE IndexOK(B)
  <2>1. Without(B, ids) = [v \in {w \in DOMAIN B : VectorId(w) \notin ids} |-> B[v]]
    BY <1>2, VectorsOf DEF Without
  <2>2. IndexOK(Without(B, ids))
    BY <1>2, WithoutType, VectorsOf
  <2>3. Vectors(B) = B /\ Vectors(Without(B, ids)) = Without(B, ids)
    BY <1>2, <2>2, VectorsOf
  <2> QED
    BY <1>2, <2>1, <2>2, <2>3, VectorsOf DEF IdsOf, Unique, Drawn
<1> QED
  BY <1>1, <1>2

(* What the startup repair keeps of an index has no id twice.               *)
LEMMA SingleIds ==
    ASSUME NEW B, IndexOK(B)
    PROVE  Unique(Without(B, DuplicateIds(B)))
<1> DEFINE S == Without(B, DuplicateIds(B))
<1>1. S = [v \in {w \in DOMAIN B : VectorId(w) \notin DuplicateIds(B)} |-> B[v]]
  BY VectorsOf DEF Without
<1>2. ASSUME NEW v \in DOMAIN S
      PROVE  S[v] = 1 /\ \A u \in DOMAIN S : VectorId(u) = VectorId(v) => u = v
  <2>1. v \in DOMAIN B /\ VectorId(v) \notin DuplicateIds(B) /\ S[v] = B[v]
    BY <1>1, <1>2
  <2>2. ~ (B[v] > 1) /\ ~ \E u \in DOMAIN B : u # v /\ VectorId(u) = VectorId(v)
    BY <2>1 DEF DuplicateIds
  <2>3. B[v] \in Nat /\ B[v] > 0
    BY <2>1 DEF IndexOK, IsABag
  <2>4. DOMAIN S \subseteq DOMAIN B
    BY <1>1
  <2> QED
    BY <2>1, <2>2, <2>3, <2>4
<1> QED
  BY <1>2 DEF Unique

(* New vectors whose ids are new.                                           *)
LEMMA AddedIds ==
    ASSUME NEW B, IndexOK(B), NEW S \in SUBSET Vector,
           \A v \in S : VectorId(v) \notin IdsOf(B),
           \A u, v \in S : VectorId(u) = VectorId(v) => u = v,
           Unique(B)
    PROVE  Unique(B (+) SetToBag(S))
<1> DEFINE C == B (+) SetToBag(S)
<1>1. DOMAIN C = DOMAIN B \cup S
  BY AddedType
<1>2. Vectors(B) = B /\ B # NoIndex
  BY VectorsOf
<1>3. DOMAIN B \cap S = {}
  BY <1>2 DEF IdsOf
<1>4. C = [v \in DOMAIN B \cup S |-> (IF v \in DOMAIN B THEN B[v] ELSE 0)
                                       + (IF v \in S THEN 1 ELSE 0)]
  BY DEF (+), SetToBag
<1>5. ASSUME NEW v \in DOMAIN C PROVE C[v] = 1
  <2>1. CASE v \in DOMAIN B
    BY <1>2, <1>3, <1>4, <2>1 DEF Unique
  <2>2. CASE v \in S
    BY <1>3, <1>4, <2>2
  <2> QED
    BY <1>1, <1>5, <2>1, <2>2
<1>6. ASSUME NEW v \in DOMAIN C, NEW u \in DOMAIN C, VectorId(u) = VectorId(v) PROVE u = v
  <2>1. CASE u \in DOMAIN B /\ v \in DOMAIN B
    BY <1>2, <1>6, <2>1 DEF Unique
  <2>2. CASE u \in S /\ v \in S
    BY <1>6, <2>2
  <2>3. CASE u \in DOMAIN B /\ v \in S
    BY <1>2, <1>6, <2>3 DEF IdsOf
  <2>4. CASE u \in S /\ v \in DOMAIN B
    BY <1>2, <1>6, <2>4 DEF IdsOf
  <2> QED
    BY <1>1, <1>6, <2>1, <2>2, <2>3, <2>4
<1> QED
  BY <1>5, <1>6 DEF Unique

(* A bag without an id that is held twice is what NoDuplicateVectors asks.  *)
LEMMA UniqueMeansNoDuplicates ==
    ASSUME NEW B, B = NoIndex \/ IndexOK(B), Unique(B), B # NoIndex
    PROVE  DuplicateIds(B) = {}
BY DEF Unique, DuplicateIds


-----------------------------------------------------------------------------
(* The invariant holds at the start *)

LEMMA IdInit == Init => IdInv
<1> SUFFICES ASSUME Init PROVE IdInv
  OBVIOUS
<1>1. PICK dup \in SUBSET Files :
        /\ rows = [f \in dup |-> [id |-> 1, stat |-> 1]]
        /\ lastId = [f \in Files |-> IF f \in dup THEN 1 ELSE 0]
        /\ idxFile = IF dup = {} THEN NoIndex
                     ELSE [v \in {[file |-> f, id |-> 1, ver |-> 1] : f \in dup} |-> 2]
  BY DEF Init
<1>2. /\ index = NoIndex /\ scan.working = NoIndex /\ Coming = NoIndex
      /\ scan.left \cup scan.chunk \cup DOMAIN scan.decoded = {}
      /\ status = "down"
  BY NoRowsType DEF Init, NoScan, Coming, BeforeBatches
<1>3. Drawn(idxFile)
  <2>1. CASE dup = {}
    BY <1>1, <2>1, EmptyIds
  <2>2. CASE dup # {}
    <3>1. DOMAIN idxFile = {[file |-> f, id |-> 1, ver |-> 1] : f \in dup}
      BY <1>1, <2>2
    <3>2. Vectors(idxFile) = idxFile
      <4>1. IndexOK(idxFile)
        BY <1>1, <2>2 DEF IndexOK, IsABag, Vector
      <4> QED
        BY <4>1, VectorsOf
    <3>3. ASSUME NEW v \in DOMAIN idxFile PROVE v.id <= lastId[v.file]
      BY <1>1, <3>1, <3>3
    <3> QED
      BY <3>2, <3>3 DEF Drawn
  <2> QED
    BY <2>1, <2>2
<1>4. \A f \in DOMAIN rows : rows[f].id <= lastId[f]
  BY <1>1
<1> QED
  BY <1>2, <1>3, <1>4, EmptyIds
     DEF IdInv, UniqueIds, DrawnIds, KnownRows, SameIds, FoundStays

-----------------------------------------------------------------------------
(* Steps, by what they do to the indexes *)

Unfinished == scan.left \cup scan.chunk \cup DOMAIN scan.decoded

(* Neither the rows nor an index that matters changes.                      *)
LEMMA IdSame ==
    ASSUME IdInv, UNCHANGED <<rows, lastId, index, errored>>,
           idxFile' \in {idxFile, NoIndex, Corrupt},
           status' = "down" <=> status = "down",
           scan'.working = scan.working, scan'.known = scan.known,
           Unfinished' \subseteq Unfinished,
           scan'.pc \in BeforeBatches <=> scan.pc \in BeforeBatches
    PROVE  IdInv'
<1>1. UniqueIds'
  BY DEF IdInv, UniqueIds, Unique
<1>2. DrawnIds'
  BY EmptyIds DEF IdInv, DrawnIds, Drawn
<1>3. KnownRows'
  BY DEF IdInv, KnownRows, Unfinished
<1>4. Coming' = Coming
  BY DEF Coming
<1> QED
  BY <1>1, <1>2, <1>3, <1>4 DEF IdInv, SameIds, FoundStays, IdsOf

(* A step after which no scan has a working copy.                           *)
LEMMA IdNoCopy ==
    ASSUME IdInv, UNCHANGED <<rows, lastId, idxFile>>, index' \in {index, NoIndex},
           scan'.working = NoIndex, Unfinished' = {}, scan'.pc \in BeforeBatches,
           status' = "down" \/ errored' \/
               (UNCHANGED <<index, errored>> /\ status # "down" /\ Coming = index)
    PROVE  IdInv'
<1>1. Coming' = index'
  BY DEF Coming
<1>2. UniqueIds' /\ DrawnIds'
  BY EmptyIds DEF IdInv, UniqueIds, DrawnIds, Unique, Drawn
<1> QED
  BY <1>1, <1>2
     DEF IdInv, KnownRows, Unfinished, SameIds, FoundStays, IdsOf

(* The working copy becomes what searches read.                             *)
LEMMA IdPublished ==
    ASSUME IdInv, Publish, UNCHANGED <<rows, lastId, status, errored>>,
           scan'.working = scan.working, scan'.known = scan.known, Unfinished' = Unfinished,
           scan.pc \notin BeforeBatches, scan'.pc \notin BeforeBatches
    PROVE  IdInv'
<1>1. Coming' = scan.working /\ Coming = scan.working /\ index' = scan.working
      /\ idxFile' = scan.working
  BY DEF Coming, Publish
<1>2. UniqueIds' /\ DrawnIds'
  BY <1>1 DEF IdInv, UniqueIds, DrawnIds, Unique, Drawn
<1>3. KnownRows'
  BY DEF IdInv, KnownRows, Unfinished
<1> QED
  BY <1>1, <1>2, <1>3 DEF IdInv, SameIds, FoundStays, IdsOf

(* The start of the process leaves as many ids on each side.                *)
LEMMA IdReconciled ==
    ASSUME TypeOK, FrameOK, IdInv, BootReconcile
    PROVE  IdInv'
<1> DEFINE dups    == DuplicateIds(idxFile)
           single  == Without(idxFile, dups)
           table   == Keep(rows, {f \in DOMAIN rows : <<f, rows[f].id>> \notin dups})
           orphans == IdsOf(single) \ RowIds(table)
           holes   == Holes(table, single)
<1>1. /\ index' = Without(single, orphans)
      /\ rows' = Keep(table, {f \in DOMAIN table : <<f, table[f].id>> \notin holes})
      /\ idxFile' = idxFile \/ idxFile' = index'
      /\ UNCHANGED <<lastId, scan>>
      /\ status = "down"
  BY DEF BootReconcile
<1>2. IndexOK(idxFile) /\ Drawn(idxFile) /\ idxFile # Corrupt
  BY DEF BootReconcile, TypeOK, IdInv, DrawnIds
<1>3. IndexOK(single) /\ Unique(single) /\ Drawn(single)
  BY <1>2, SingleIds, WithoutIds, WithoutType, VectorsOf
<1>4. DOMAIN table \subseteq DOMAIN rows /\ \A f \in DOMAIN table : table[f] = rows[f]
  BY DEF Keep
<1>5. DOMAIN rows' = {f \in DOMAIN table : <<f, table[f].id>> \notin holes}
      /\ \A f \in DOMAIN rows' : rows'[f] = table[f]
  BY <1>1 DEF Keep
<1> HIDE DEF dups, single, table
<1>6. /\ IdsOf(index') = IdsOf(single) \ orphans
      /\ Unique(index') /\ Drawn(index')
  BY <1>1, <1>3, WithoutIds
<1>7. IdsOf(index') = RowIds(rows')
  <2>1. RowIds(rows') = RowIds(table) \cap IdsOf(single)
    BY <1>5 DEF RowIds, Holes
  <2> QED
    BY <1>6, <2>1
<1> HIDE DEF orphans, holes
<1>8. scan = NoScan
  BY <1>1 DEF FrameOK
<1>9. /\ scan'.working = NoIndex /\ scan'.pc \in BeforeBatches
      /\ scan'.left \cup scan'.chunk \cup DOMAIN scan'.decoded = {}
  BY <1>1, <1>8, NoRowsType DEF NoScan, BeforeBatches
<1>10. Coming' = index'
  BY <1>9 DEF Coming
<1>11. UniqueIds'
  BY <1>6, <1>9, EmptyIds DEF UniqueIds, Unique
<1>12. DrawnIds'
  <2>1. \A f \in DOMAIN rows' : rows'[f].id <= lastId[f]
    BY <1>4, <1>5 DEF IdInv, DrawnIds
  <2> QED
    BY <1>1, <1>2, <1>6, <1>9, <2>1, EmptyIds DEF DrawnIds, Drawn
<1> QED
  BY <1>7, <1>9, <1>10, <1>11, <1>12 DEF IdInv, KnownRows, SameIds, FoundStays, IdsOf

(* A start without a usable index file has no rows either.                  *)
LEMMA IdEmptied ==
    ASSUME TypeOK, FrameOK, IdInv, BootWithoutIndex \/ BootCorruptIndex
    PROVE  IdInv'
<1>1. index' = NoIndex /\ rows' = NoRows /\ idxFile' = NoIndex /\ UNCHANGED <<scan, lastId>>
      /\ status = "down"
  BY DEF BootWithoutIndex, BootCorruptIndex
<1>2. scan = NoScan
  BY <1>1 DEF FrameOK
<1>3. /\ scan'.working = NoIndex /\ scan'.pc \in BeforeBatches
      /\ scan'.left \cup scan'.chunk \cup DOMAIN scan'.decoded = {}
  BY <1>1, <1>2, NoRowsType DEF NoScan, BeforeBatches
<1>4. Coming' = NoIndex
  BY <1>1, <1>3 DEF Coming
<1>5. DOMAIN rows' = {} /\ RowIds(rows') = {}
  BY <1>1, NoRowsType DEF RowIds
<1> QED
  BY <1>1, <1>3, <1>4, <1>5, EmptyIds
     DEF IdInv, UniqueIds, DrawnIds, KnownRows, SameIds, FoundStays, IdsOf, Unique, Drawn

(* A scan resumed from its checkpoint starts from the published index and   *)
(* lists the rows of the files that are left.                               *)
LEMMA IdResumed ==
    ASSUME TypeOK, FrameOK, IdInv, ResumeFromCheckpoint
    PROVE  IdInv'
<1>1. PICK disk \in Inventories :
        LET files == checkpoint.remaining \cap DOMAIN disk
        IN  scan' = [NoScan EXCEPT !.pc = "batch", !.known = ResumedKnown(files),
                      !.work = Keep(disk, files), !.left = files,
                      !.working = ResumedIndex]
  BY DEF ResumeFromCheckpoint, Inventories
<1> DEFINE files == checkpoint.remaining \cap DOMAIN disk
<1>2. /\ scan'.working = index /\ scan'.left = files /\ scan'.chunk = {}
      /\ DOMAIN scan'.decoded = {} /\ scan'.pc = "batch" /\ scan'.known = Keep(rows, files)
  BY <1>1, NoRowsType DEF NoScan, ResumedIndex, ResumedKnown
<1>3. /\ scan.pc = "none" /\ status # "down"
      /\ UNCHANGED <<rows, lastId, index, idxFile, errored>>
  BY DEF ResumeFromCheckpoint, dbVars, diskVars, historyVars
<1> HIDE DEF files
<1>4. Coming' = index' /\ Coming = index
  BY <1>2, <1>3 DEF Coming, BeforeBatches
<1>5. KnownRows'
  BY <1>2, <1>3 DEF KnownRows, Keep
<1>6. UniqueIds' /\ DrawnIds'
  BY <1>2, <1>3 DEF IdInv, UniqueIds, DrawnIds, Unique, Drawn
<1> QED
  BY <1>3, <1>4, <1>5, <1>6 DEF IdInv, SameIds, FoundStays, IdsOf

LEMMA IdOthers ==
    ASSUME TypeOK, FrameOK, IdInv, Environment \/ Boot \/ Requests
    PROVE  IdInv'
<1>0. DOMAIN scan = DOMAIN NoScan /\ status = "down" => scan = NoScan
  BY DEF TypeOK, ScanOK, FrameOK
<1>1. CASE RecordSnapshot \/ DamageIndexFile \/ \E f \in Files : Edit(f) \/ Delete(f)
  BY <1>1, IdSame
     DEF RecordSnapshot, DamageIndexFile, Edit, Delete, storeVars, dbVars, diskVars, procVars,
         historyVars, Unfinished
<1>2. CASE Crash
  <2>1. scan'.working = NoIndex /\ scan'.pc \in BeforeBatches /\ Unfinished' = {}
    BY <1>2, NoRowsType DEF Crash, NoScan, BeforeBatches, Unfinished
  <2> QED
    BY <1>2, <2>1, IdNoCopy DEF Crash, dbVars, diskVars
<1>3. CASE Boot
  BY <1>3, IdReconciled, IdEmptied DEF Boot
<1>4. ASSUME NEW force \in BOOLEAN, Trigger(force) PROVE IdInv'
  <2>1. scan'.working = NoIndex /\ scan'.pc \in BeforeBatches /\ Unfinished' = {}
    BY <1>4, NoRowsType DEF Trigger, NoScan, BeforeBatches, Unfinished
  <2>2. Coming = index
    BY <1>4 DEF Trigger, Coming, BeforeBatches
  <2> QED
    BY <1>4, <2>1, <2>2, IdNoCopy DEF Trigger, dbVars, historyVars
<1>5. CASE RequestPause \/ Resume \/ ResumeSetupFails
  BY <1>5, IdSame
     DEF RequestPause, Resume, ResumeSetupFails, dbVars, diskVars, historyVars, Unfinished
<1>6. CASE ResumeFromCheckpoint
  BY <1>6, IdResumed
<1> QED
  BY <1>1, <1>2, <1>3, <1>4, <1>5, <1>6 DEF Environment, Requests

(* The plan drops the rows and the vectors of the same files.               *)
LEMMA IdPlan ==
    ASSUME TypeOK, FrameOK, IdInv, Plan
    PROVE  IdInv'
<1>1. PICK disk \in Inventories : PlanFor(disk)
  BY PlanIsPlanFor
<1> DEFINE base     == IF scan.force THEN NoRows ELSE rows
           gone     == DOMAIN base \ DOMAIN disk
           toAdd    == DOMAIN disk \ DOMAIN base
           toUpdate == {f \in DOMAIN disk \cap DOMAIN base : base[f].stat # disk[f]}
<1>2. rows' = Keep(base, DOMAIN disk)
  BY <1>1 DEF PlanFor
<1>3. scan.pc \in {"plan", "walk"} /\ DOMAIN scan = DOMAIN NoScan
  BY DEF TypeOK, ScanOK, Plan
<1>4. /\ scan'.working = PlannedIndex(gone)
      /\ scan'.left = toAdd \cup toUpdate
      /\ scan'.known = Keep(base, toUpdate)
      /\ scan'.chunk = scan.chunk /\ scan'.decoded = scan.decoded
      /\ scan'.pc = "batch"
  BY <1>1, <1>3 DEF PlanFor, NoScan
<1>5. scan.chunk = {} /\ DOMAIN scan.decoded = {} /\ status # "down"
  BY <1>3, NoRowsType DEF FrameOK, NoScan
<1>6. UNCHANGED <<lastId, index, idxFile, status, errored>>
  BY DEF Plan, diskVars, procVars, historyVars
<1>7. Coming = index /\ Coming' = PlannedIndex(gone)
  BY <1>3, <1>4 DEF Coming, BeforeBatches
<1>8. /\ DOMAIN rows' = DOMAIN base \cap DOMAIN disk
      /\ \A f \in DOMAIN rows' : rows'[f] = base[f]
  BY <1>2 DEF Keep
<1>9. KnownRows'
  <2>1. ASSUME NEW f \in toAdd \cup toUpdate
        PROVE  /\ f \in DOMAIN rows' <=> f \in toUpdate
               /\ f \in toUpdate => rows'[f] = base[f]
    BY <1>8, <2>1
  <2>2. /\ DOMAIN scan'.known = toUpdate
        /\ \A f \in toUpdate : scan'.known[f] = base[f]
    BY <1>4 DEF Keep
  <2> HIDE DEF toAdd, toUpdate, base
  <2> QED
    BY <1>4, <1>5, <2>1, <2>2 DEF KnownRows
<1>10. /\ Unique(PlannedIndex(gone)) /\ Drawn(PlannedIndex(gone))
       /\ ~ scan.force => IdsOf(PlannedIndex(gone)) = IdsOf(index) \ RowIds(Keep(rows, gone))
       /\ scan.force => IdsOf(PlannedIndex(gone)) = {}
  <2>1. index = NoIndex \/ IndexOK(index)
    BY DEF TypeOK
  <2>2. Unique(index) /\ Drawn(index)
    BY DEF IdInv, UniqueIds, DrawnIds
  <2> HIDE DEF gone
  <2> QED
    BY <2>1, <2>2, WithoutIds, EmptyIds DEF PlannedIndex
<1>11. UniqueIds' /\ DrawnIds'
  <2>1. \A f \in DOMAIN rows' : rows'[f].id <= lastId[f]
    BY <1>8, NoRowsType DEF IdInv, DrawnIds
  <2> HIDE DEF gone, base
  <2> QED
    BY <1>4, <1>6, <1>10, <2>1 DEF IdInv, UniqueIds, DrawnIds, Unique, Drawn
<1>12. CASE scan.force
  <2>1. DOMAIN rows' = {} /\ RowIds(rows') = {}
    BY <1>8, <1>12, NoRowsType DEF RowIds
  <2> HIDE DEF gone, base
  <2> QED
    BY <1>7, <1>9, <1>10, <1>11, <1>12, <2>1 DEF IdInv, SameIds, FoundStays, IdsOf
<1>13. CASE ~ scan.force
  <2>1. base = rows
    BY <1>13
  <2>2. RowIds(Keep(rows, gone)) = {<<f, rows[f].id>> : f \in gone}
    BY <2>1 DEF RowIds, Keep
  <2>3. RowIds(rows') = RowIds(rows) \ RowIds(Keep(rows, gone))
    BY <1>8, <2>1, <2>2 DEF RowIds
  <2>4. SameIds'
    <3> HIDE DEF gone, base
    <3> QED
      BY <1>5, <1>6, <1>7, <1>10, <1>13, <2>3 DEF IdInv, SameIds, IdsOf
  <2>5. FoundStays'
    <3> SUFFICES ASSUME NEW f \in DOMAIN rows', <<f, rows'[f].id>> \in IdsOf(index)
                 PROVE  <<f, rows'[f].id>> \in IdsOf(PlannedIndex(gone))
      BY <1>6, <1>7 DEF FoundStays, IdsOf
    <3>1. <<f, rows'[f].id>> \notin RowIds(Keep(rows, gone))
      BY <1>8, <2>1, <2>2
    <3> QED
      BY <1>10, <1>13, <3>1
  <2> QED
    BY <1>9, <1>11, <2>4, <2>5 DEF IdInv
<1> QED
  BY <1>12, <1>13

(* Ids that have been drawn stay so.                                        *)
LEMMA DrawnGrows ==
    ASSUME TypeOK, NEW B, B = NoIndex \/ IndexOK(B), Drawn(B),
           \A f \in Files : lastId'[f] \in Nat /\ lastId[f] <= lastId'[f]
    PROVE  \A v \in DOMAIN Vectors(B) : v.id <= lastId'[v.file]
<1> SUFFICES ASSUME NEW v \in DOMAIN Vectors(B) PROVE v.id <= lastId'[v.file]
  OBVIOUS
<1>1. v \in Vector
  BY VectorsType DEF IndexOK
<1>2. v.id \in Nat /\ v.file \in Files /\ v.id <= lastId[v.file]
  BY <1>1 DEF Drawn, Vector
<1>3. lastId[v.file] \in Nat /\ lastId'[v.file] \in Nat /\ lastId[v.file] <= lastId'[v.file]
  BY <1>2 DEF TypeOK
<1> QED
  BY <1>2, <1>3

(* A chunk gives every file of it one vector, under the id of its row.      *)
LEMMA IdCommit ==
    ASSUME TypeOK, FrameOK, PartsOK, IdInv, CommitChunk
    PROVE  IdInv'
<1> DEFINE done == DOMAIN scan.decoded
           old  == RowIds(Keep(scan.known, done))
           W    == Without(Vectors(scan.working), old)
<1>1. /\ rows' = [f \in DOMAIN rows \cup done |->
                        IF f \in done THEN [id |-> RowIdFor(f), stat |-> scan.work[f]]
                        ELSE rows[f]]
      /\ lastId' = [f \in Files |-> IF f \in done \ DOMAIN rows THEN lastId[f] + 1
                                    ELSE lastId[f]]
      /\ UNCHANGED <<index, idxFile, status, errored>>
      /\ scan.pc = "embed"
  BY DEF CommitChunk, diskVars, procVars
<1>2. /\ scan'.pc = "progress" /\ scan'.decoded = NoRows /\ scan'.working = Reembedded
      /\ scan'.left = scan.left /\ scan'.chunk = {} /\ scan'.known = scan.known
  BY DEF CommitChunk, TypeOK, ScanOK, NoScan, FrameOK
<1>3. done \subseteq Files /\ scan.left \cap done = {}
  BY DEF TypeOK, ScanOK, PartialFunction, PartsOK
<1>4. old = {<<f, rows[f].id>> : f \in done \cap DOMAIN rows}
  <2>1. \A f \in done : /\ f \in DOMAIN rows <=> f \in DOMAIN scan.known
                        /\ f \in DOMAIN rows => scan.known[f] = rows[f]
    BY DEF IdInv, KnownRows
  <2> HIDE DEF done
  <2>2. old = {<<f, scan.known[f].id>> : f \in done \cap DOMAIN scan.known}
    BY DEF RowIds, Keep
  <2> HIDE DEF old
  <2> QED
    BY <2>1, <2>2
<1>5. IndexOK(Vectors(scan.working)) /\ Unique(Vectors(scan.working)) /\ Drawn(scan.working)
  BY VectorsType, EmptyIndex DEF TypeOK, ScanOK, IdInv, UniqueIds, DrawnIds, Unique, Vectors
<1>6. IdsOf(Vectors(scan.working)) = IdsOf(scan.working) /\ Drawn(Vectors(scan.working))
  <2>1. Vectors(Vectors(scan.working)) = Vectors(scan.working)
    BY <1>5, VectorsOf
  <2> QED
    BY <1>5, <2>1 DEF IdsOf, Drawn
<1>7. /\ IdsOf(W) = IdsOf(scan.working) \ old /\ Unique(W) /\ IndexOK(W) /\ Drawn(W)
  <2> HIDE DEF old
  <2> QED
    BY <1>5, <1>6, WithoutIds, WithoutType, VectorsOf
<1>8. NewVectors \in SUBSET Vector /\ IndexOK(Reembedded)
      /\ DOMAIN Reembedded = NewVectors \cup DOMAIN W
      /\ \A f \in Files : RowIdFor(f) \in Nat
  BY CommitTypes
<1>9. Reembedded = W (+) SetToBag(NewVectors)
  BY DEF Reembedded
<1>10. ASSUME NEW f \in done PROVE <<f, RowIdFor(f)>> \notin IdsOf(W)
  <2>1. CASE f \in DOMAIN rows
    BY <1>4, <1>7, <1>10, <2>1 DEF RowIdFor
  <2>2. CASE f \notin DOMAIN rows
    <3>1. RowIdFor(f) = lastId[f] + 1 /\ lastId[f] \in Nat
      BY <1>3, <1>10, <2>2 DEF RowIdFor, TypeOK
    <3>2. \A v \in DOMAIN Vectors(scan.working) : v.id <= lastId[v.file]
      BY <1>5 DEF Drawn
    <3>3. <<f, RowIdFor(f)>> \notin IdsOf(scan.working)
      <4>1. SUFFICES ASSUME NEW v \in DOMAIN Vectors(scan.working),
                            VectorId(v) = <<f, RowIdFor(f)>>
                     PROVE  FALSE
        BY DEF IdsOf
      <4> QED
        BY <3>1, <3>2, <4>1 DEF VectorId
    <3> QED
      BY <1>7, <3>3
  <2> QED
    BY <2>1, <2>2
<1> HIDE DEF W, old
<1>11. /\ \A v \in NewVectors : v.file \in done /\ VectorId(v) = <<v.file, RowIdFor(v.file)>>
                                /\ v.id = RowIdFor(v.file)
                                /\ v.ver = scan.decoded[v.file]
                                /\ v = [file |-> v.file, id |-> v.id, ver |-> v.ver]
       /\ {VectorId(v) : v \in NewVectors} = {<<f, RowIdFor(f)>> : f \in done}
  <2>1. \A f \in done : [file |-> f, id |-> RowIdFor(f), ver |-> scan.decoded[f]] \in NewVectors
    BY DEF NewVectors
  <2>2. \A v \in NewVectors : \E f \in done :
           v = [file |-> f, id |-> RowIdFor(f), ver |-> scan.decoded[f]]
    BY DEF NewVectors
  <2> HIDE DEF done
  <2>3. \A v \in NewVectors : v.file \in done /\ VectorId(v) = <<v.file, RowIdFor(v.file)>>
                                /\ v.id = RowIdFor(v.file)
                                /\ v.ver = scan.decoded[v.file]
                                /\ v = [file |-> v.file, id |-> v.id, ver |-> v.ver]
    BY <2>2 DEF VectorId
  <2>4. ASSUME NEW f \in done
        PROVE  \E v \in NewVectors : VectorId(v) = <<f, RowIdFor(f)>>
    BY <2>1 DEF VectorId
  <2> QED
    BY <2>3, <2>4
<1> HIDE DEF done
<1>12. Unique(Reembedded)
  <2>1. \A v \in NewVectors : VectorId(v) \notin IdsOf(W)
    BY <1>10, <1>11
  <2>2. \A u, v \in NewVectors : VectorId(u) = VectorId(v) => u = v
    BY <1>11
  <2> QED
    BY <1>7, <1>8, <1>9, <2>1, <2>2, AddedIds
<1>13. IdsOf(Reembedded) = (IdsOf(scan.working) \ old) \cup {<<f, RowIdFor(f)>> : f \in done}
  <2>1. Vectors(Reembedded) = Reembedded /\ Vectors(W) = W
    BY <1>7, <1>8, VectorsOf
  <2> QED
    BY <1>7, <1>8, <1>11, <2>1 DEF IdsOf
<1>14. /\ DOMAIN rows' = DOMAIN rows \cup done
       /\ \A f \in done : rows'[f].id = RowIdFor(f)
       /\ \A f \in DOMAIN rows \ done : rows'[f] = rows[f]
  BY <1>1
<1>15. \A f \in Files : lastId'[f] \in Nat /\ lastId[f] <= lastId'[f]
  BY <1>1 DEF TypeOK
<1>16. ASSUME NEW f \in done PROVE RowIdFor(f) <= lastId'[f]
  <2>1. f \in Files /\ lastId[f] \in Nat
    BY <1>3, <1>16 DEF TypeOK
  <2>2. CASE f \in DOMAIN rows
    BY <1>1, <2>1, <2>2 DEF RowIdFor, IdInv, DrawnIds
  <2>3. CASE f \notin DOMAIN rows
    BY <1>1, <1>16, <2>1, <2>3 DEF RowIdFor
  <2> QED
    BY <2>2, <2>3
<1>17. UniqueIds'
  BY <1>1, <1>2, <1>12 DEF IdInv, UniqueIds, Unique
<1>18. DrawnIds'
  <2>1. Drawn(index)'
    BY <1>1, <1>15, DrawnGrows DEF TypeOK, IdInv, DrawnIds, Drawn
  <2>2. (idxFile # Corrupt => Drawn(idxFile))'
    BY <1>1, <1>15, DrawnGrows DEF TypeOK, IdInv, DrawnIds, Drawn
  <2>3. Drawn(scan.working)'
    <3>1. \A v \in DOMAIN W : v.id <= lastId'[v.file]
      <4>1. Vectors(W) = W /\ DOMAIN W \subseteq Vector
        BY <1>7, VectorsOf DEF IndexOK
      <4> QED
        BY <1>7, <1>15, <4>1 DEF Drawn, Vector, TypeOK
    <3>2. \A v \in NewVectors : v.id <= lastId'[v.file]
      BY <1>11, <1>16
    <3>3. Vectors(Reembedded) = Reembedded
      BY <1>8, VectorsOf
    <3> QED
      BY <1>2, <1>8, <3>1, <3>2, <3>3 DEF Drawn, Vectors
  <2>4. \A f \in DOMAIN rows' : rows'[f].id <= lastId'[f]
    <3>1. ASSUME NEW f \in DOMAIN rows \ done PROVE rows'[f].id <= lastId'[f]
      <4>1. f \in Files /\ rows[f].id \in Nat /\ lastId[f] \in Nat /\ rows[f].id <= lastId[f]
        BY <3>1 DEF TypeOK, PartialFunction, Row, IdInv, DrawnIds
      <4> QED
        BY <1>14, <1>15, <3>1, <4>1
    <3> QED
      BY <1>14, <1>16, <3>1
  <2> QED
    BY <2>1, <2>2, <2>3, <2>4 DEF DrawnIds
<1>19. KnownRows'
  <2>1. ASSUME NEW f \in scan.left
        PROVE  /\ f \in DOMAIN rows' <=> f \in DOMAIN scan.known
               /\ f \in DOMAIN rows' => scan.known[f] = rows'[f]
    BY <1>3, <1>14, <2>1 DEF IdInv, KnownRows
  <2>2. scan'.left \cup scan'.chunk \cup DOMAIN scan'.decoded = scan.left
    BY <1>2, NoRowsType
  <2> QED
    BY <1>2, <2>1, <2>2 DEF KnownRows
<1>20. Coming = scan.working /\ Coming' = Reembedded
  BY <1>1, <1>2 DEF Coming, BeforeBatches
<1>21. RowIds(rows') = (RowIds(rows) \ old) \cup {<<f, RowIdFor(f)>> : f \in done}
  BY <1>4, <1>14 DEF RowIds
<1>22. IdsOf(Coming)' = IdsOf(Reembedded)
  BY <1>20 DEF IdsOf, Vectors
<1>23. SameIds'
  BY <1>1, <1>13, <1>20, <1>21, <1>22 DEF IdInv, SameIds
<1>24. FoundStays'
  <2>1. ASSUME NEW f \in DOMAIN rows', <<f, rows'[f].id>> \in IdsOf(index)
        PROVE  <<f, rows'[f].id>> \in IdsOf(Reembedded)
    <3>1. CASE f \in done
      BY <1>13, <1>14, <3>1
    <3>2. CASE f \notin done
      <4>1. f \in DOMAIN rows /\ rows'[f] = rows[f]
        BY <1>14, <2>1, <3>2
      <4>2. <<f, rows[f].id>> \in IdsOf(scan.working) /\ <<f, rows[f].id>> \notin old
        BY <1>4, <1>20, <2>1, <3>2, <4>1 DEF IdInv, FoundStays
      <4> QED
        BY <1>13, <4>1, <4>2
    <3> QED
      BY <3>1, <3>2
  <2>2. IdsOf(index)' = IdsOf(index)
    BY <1>1 DEF IdsOf, Vectors
  <2> QED
    BY <1>22, <2>1, <2>2 DEF FoundStays
<1> QED
  BY <1>17, <1>18, <1>19, <1>23, <1>24 DEF IdInv

LEMMA IdScan ==
    ASSUME TypeOK, FrameOK, PartsOK, IdInv, ScanSteps
    PROVE  IdInv'
<1>0. /\ DOMAIN scan = DOMAIN NoScan
      /\ scan.pc # "none" => status # "down"
  BY DEF TypeOK, ScanOK, FrameOK, NoScan
<1>1. CASE Plan
  BY <1>1, IdPlan
<1>2. CASE PausePlan \/ PauseSave \/ Wake \/ TakeChunk \/ SkipProgress
  <2>1. CASE PausePlan \/ PauseSave \/ Wake \/ SkipProgress
    BY <1>0, <2>1, IdSame
       DEF PausePlan, PauseSave, Wake, SkipProgress, NoScan, BeforeBatches, Unfinished,
           storeVars, dbVars, diskVars, procVars, historyVars
  <2>2. CASE TakeChunk
    <3>1. scan.chunk = {} /\ scan.pc \in {"batch", "take"}
      BY <2>2 DEF TakeChunk, FrameOK
    <3>2. /\ scan'.left \cup scan'.chunk = scan.left \cup scan.chunk
          /\ scan'.decoded = scan.decoded /\ scan'.working = scan.working
          /\ scan'.known = scan.known /\ scan'.pc = "decode"
      BY <1>0, <2>2, <3>1 DEF TakeChunk, NoScan
    <3> QED
      BY <2>2, <3>1, <3>2, IdSame
         DEF TakeChunk, BeforeBatches, Unfinished, dbVars, diskVars, procVars, historyVars
  <2> QED
    BY <1>2, <2>1, <2>2
<1>3. CASE PausePublish \/ PublishProgress \/ PublishFinal
  <2>1. /\ Publish /\ UNCHANGED <<rows, lastId, status, errored>>
        /\ scan'.working = scan.working /\ scan'.known = scan.known
        /\ scan'.left = scan.left /\ scan'.chunk = scan.chunk /\ scan'.decoded = scan.decoded
        /\ scan.pc \notin BeforeBatches /\ scan'.pc \notin BeforeBatches
    BY <1>0, <1>3
       DEF PausePublish, MayPause, PublishProgress, PublishFinal, NoScan, BeforeBatches,
           dbVars, historyVars
  <2> QED
    BY <2>1, IdPublished DEF Unfinished
<1>4. CASE SkipChunk \/ \E f \in Files : DecodeOk(f) \/ DecodeFails(f)
  <2>1. /\ UNCHANGED <<rows, lastId, index, idxFile, status, errored>>
        /\ scan'.working = scan.working /\ scan'.known = scan.known
        /\ scan.pc \notin BeforeBatches /\ scan'.pc \notin BeforeBatches
    BY <1>0, <1>4
       DEF SkipChunk, DecodeOk, DecodeFails, AtFile, AfterFile, NoScan, BeforeBatches,
           dbVars, diskVars, procVars, historyVars
  <2>2. Unfinished' \subseteq Unfinished
    <3>1. CASE SkipChunk
      BY <1>0, <3>1, NoRowsType DEF SkipChunk, NoScan, Unfinished
    <3>2. ASSUME NEW f \in Files, DecodeOk(f) PROVE Unfinished' \subseteq Unfinished
      <4>1. /\ scan'.left = scan.left /\ scan'.chunk = scan.chunk \ {f}
            /\ DOMAIN scan'.decoded = DOMAIN scan.decoded \cup {f}
            /\ f \in scan.chunk
        BY <1>0, <3>2 DEF DecodeOk, AtFile, NoScan
      <4> QED
        BY <4>1 DEF Unfinished
    <3>3. ASSUME NEW f \in Files, DecodeFails(f) PROVE Unfinished' \subseteq Unfinished
      BY <1>0, <3>3 DEF DecodeFails, NoScan, Unfinished
    <3> QED
      BY <1>4, <3>1, <3>2, <3>3
  <2> QED
    BY <2>1, <2>2, IdSame
<1>5. CASE CommitChunk
  BY <1>5, IdCommit
<1>6. CASE Finish \/ ScanFails
  <2>1. scan'.working = NoIndex /\ scan'.pc \in BeforeBatches /\ Unfinished' = {}
    BY <1>6, NoRowsType DEF Finish, ScanFails, NoScan, BeforeBatches, Unfinished
  <2>2. CASE Finish
    <3>1. Coming = index
      BY <2>2 DEF Finish, FrameOK, Coming
    <3> QED
      BY <1>0, <2>1, <2>2, <3>1, IdNoCopy DEF Finish, dbVars, historyVars
  <2>3. CASE ScanFails
    BY <2>1, <2>3, IdNoCopy DEF ScanFails, dbVars, diskVars
  <2> QED
    BY <1>6, <2>2, <2>3
<1> QED
  BY <1>1, <1>2, <1>3, <1>4, <1>5, <1>6 DEF ScanSteps

-----------------------------------------------------------------------------
(* The theorems *)

LEMMA IdsInit == Init => IInv /\ IdInv
BY InductiveInit, IdInit

LEMMA IdsStep == IInv /\ IdInv /\ [Next]_vars => (IInv /\ IdInv)'
<1> SUFFICES ASSUME IInv, IdInv, [Next]_vars PROVE IInv' /\ IdInv'
  OBVIOUS
<1>1. IInv'
  BY InductiveStep
<1>2. CASE Next
  BY <1>1, <1>2, IdOthers, IdScan DEF Next, IInv
<1>3. CASE UNCHANGED vars
  BY <1>1, <1>3, IdSame DEF vars, Unfinished
<1> QED
  BY <1>1, <1>2, <1>3

(* Every reachable state of the scan pipeline satisfies both invariants.    *)
THEOREM IdsInductive == Spec => [](IInv /\ IdInv)
BY IdsInit, IdsStep, PTL DEF Spec

(* Neither the index that searches read nor the working copy of a scan      *)
(* holds two vectors under one id, whatever a restart replays.              *)
THEOREM NoDuplicates == Spec => []NoDuplicateVectors
<1>1. IInv /\ IdInv => NoDuplicateVectors
  BY UniqueMeansNoDuplicates
     DEF IInv, TypeOK, ScanOK, IdInv, UniqueIds, NoDuplicateVectors
<1> QED
  BY <1>1, IdsInductive, PTL

(* With no scan at work, and none failed since the start, the table and the *)
(* published index list the same ids.                                       *)
THEOREM AgreesAtRest == Spec => []CatalogueAgreesAtRest
<1>1. IInv /\ IdInv => CatalogueAgreesAtRest
  <2> SUFFICES ASSUME IInv, IdInv, status # "down", ~ errored, scan.pc \in {"none", "waiting"}
               PROVE  IdsOf(index) = RowIds(rows)
    BY DEF CatalogueAgreesAtRest
  <2>1. Coming = index
    BY DEF IInv, FrameOK, Coming, BeforeBatches
  <2> QED
    BY <2>1 DEF IdInv, SameIds
<1> QED
  BY <1>1, IdsInductive, PTL

(* No step of the running process takes an image out of the results while   *)
(* it keeps its row: what is published holds all that was found before.     *)
THEOREM SearchKeepsImages == Spec => SearchNeverLosesAnImage
<1>1. IInv /\ IdInv /\ [Next]_vars =>
        [status # "down" /\ status' # "down" =>
            \A f \in DOMAIN rows \cap DOMAIN rows' :
                (rows'[f].id = rows[f].id /\ <<f, rows[f].id>> \in IdsOf(index))
                    => <<f, rows[f].id>> \in IdsOf(index')]_vars
  <2> SUFFICES ASSUME IInv, IdInv, Next, status # "down", status' # "down",
                      NEW f \in DOMAIN rows \cap DOMAIN rows', rows'[f].id = rows[f].id,
                      <<f, rows[f].id>> \in IdsOf(index)
               PROVE  <<f, rows[f].id>> \in IdsOf(index')
    OBVIOUS
  <2>1. CASE UNCHANGED index
    BY <2>1
  <2>2. CASE PausePublish \/ PublishProgress \/ PublishFinal
    <3>1. index' = scan.working /\ Coming = scan.working
      BY <2>2 DEF PausePublish, MayPause, PublishProgress, PublishFinal, Publish, Coming,
                  BeforeBatches
    <3> QED
      BY <3>1 DEF IdInv, FoundStays
  <2>3. UNCHANGED index \/ PausePublish \/ PublishProgress \/ PublishFinal
    BY DEF Next, Environment, Boot, Requests, ScanSteps, Edit, Delete, RecordSnapshot,
           DamageIndexFile, Crash, BootReconcile, BootWithoutIndex, BootCorruptIndex,
           Trigger, RequestPause, Resume, ResumeFromCheckpoint, ResumeSetupFails,
           Plan, PausePlan, PauseSave, Wake, TakeChunk, DecodeOk, DecodeFails, SkipChunk,
           CommitChunk, SkipProgress, Finish, ScanFails, procVars, diskVars
  <2> QED
    BY <2>1, <2>2, <2>3
<1> QED
  BY <1>1, IdsInductive, PTL DEF Spec, SearchNeverLosesAnImage

(* The repair at the start of the process leaves a row with exactly one     *)
(* vector as it was, and its vector in the index.                           *)
THEOREM BootKeepsRows == Spec => BootKeepsIndexedRows
<1>1. IInv /\ IdInv /\ [Next]_vars =>
        [status = "down" /\ status' # "down" /\ idxFile \notin {NoIndex, Corrupt} =>
            \A f \in DOMAIN rows :
                (<<f, rows[f].id>> \in IdsOf(idxFile) \ DuplicateIds(idxFile))
                    => f \in DOMAIN rows' /\ rows'[f] = rows[f]
                        /\ <<f, rows[f].id>> \in IdsOf(index')]_vars
  <2> SUFFICES ASSUME IInv, Next, status = "down", status' # "down",
                      idxFile \notin {NoIndex, Corrupt}, NEW f \in DOMAIN rows,
                      <<f, rows[f].id>> \in IdsOf(idxFile) \ DuplicateIds(idxFile)
               PROVE  /\ f \in DOMAIN rows' /\ rows'[f] = rows[f]
                      /\ <<f, rows[f].id>> \in IdsOf(index')
    OBVIOUS
  <2>1. BootReconcile
    <3>1. scan.pc = "none"
      BY DEF IInv, FrameOK, NoScan
    <3> QED
      BY <3>1
         DEF Next, Environment, Boot, Requests, ScanSteps, Edit, Delete, RecordSnapshot,
             DamageIndexFile, Crash, BootWithoutIndex, BootCorruptIndex,
             Trigger, RequestPause, Resume, ResumeFromCheckpoint, ResumeSetupFails,
             Plan, PausePlan, PausePublish, MayPause, PauseSave, Wake, TakeChunk, DecodeOk,
             DecodeFails, AtFile, SkipChunk, CommitChunk, PublishProgress, PublishFinal,
             SkipProgress, Finish, ScanFails, procVars
  <2> DEFINE dups    == DuplicateIds(idxFile)
             single  == Without(idxFile, dups)
             table   == Keep(rows, {g \in DOMAIN rows : <<g, rows[g].id>> \notin dups})
             orphans == IdsOf(single) \ RowIds(table)
             holes   == Holes(table, single)
  <2>2. /\ index' = Without(single, orphans)
        /\ rows' = Keep(table, {g \in DOMAIN table : <<g, table[g].id>> \notin holes})
    BY <2>1 DEF BootReconcile
  <2>3. IndexOK(idxFile)
    BY DEF IInv, TypeOK
  <2>4. IdsOf(single) = IdsOf(idxFile) \ dups /\ IndexOK(single)
    BY <2>3, WithoutIds, WithoutType, VectorsOf
  <2>5. f \in DOMAIN table /\ table[f] = rows[f]
    BY DEF Keep
  <2> HIDE DEF single, table, dups
  <2>6. <<f, rows[f].id>> \in IdsOf(single) /\ <<f, rows[f].id>> \in RowIds(table)
    BY <2>4, <2>5 DEF RowIds, dups
  <2>7. <<f, table[f].id>> \notin holes /\ <<f, rows[f].id>> \notin orphans
    BY <2>5, <2>6 DEF Holes
  <2>8. IdsOf(index') = IdsOf(single) \ orphans
    BY <2>2, <2>4, WithoutIds
  <2>9. f \in DOMAIN rows' /\ rows'[f] = rows[f]
    BY <2>2, <2>5, <2>7 DEF Keep
  <2> QED
    BY <2>6, <2>7, <2>8, <2>9
<1> QED
  BY <1>1, IdsInductive, PTL DEF Spec, BootKeepsIndexedRows

-----------------------------------------------------------------------------
(* How long a scan lasts                                                    *)
(*                                                                          *)
(* Once the plan is made, each step of the thread brings the scan nearer to *)
(* its end, those that pause it and wake it included. A thread that wakes   *)
(* is past the gate ("take", "read") and deals with a chunk or a file       *)
(* before it looks at the gate again, so no sequence of pauses and resumes  *)
(* keeps it where it is. What a liveness property says with the help of     *)
(* fairness is here a number of steps.                                      *)

Stage(pc) ==
    CASE pc = "embed" -> 9
      [] pc = "progress" -> 8
      [] pc \in {"batch", "decode"} -> 7
      [] pc = "snap" -> 6
      [] pc = "waiting" -> 5
      [] pc \in {"take", "read"} -> 4
      [] pc = "finish" -> 1
      [] OTHER -> 0

Steps(left, chunk, pc) == 20 * Cardinality(left) + 6 * Cardinality(chunk) + Stage(pc)

ToGo == Steps(scan.left, scan.chunk, scan.pc)

(* Whatever changes the frame of a scan that has its plan, a pause and a    *)
(* resume included, leaves less of the scan to go.                          *)
EveryStepCounts == [][scan.pc \notin BeforeBatches => scan' = scan \/ ToGo' < ToGo]_vars

(* A bound on what is to go, whatever the size of a chunk.                  *)
ScanIsShort == ToGo \in 0 .. 20 * Cardinality(Files) + 9

LEMMA SetOfFiles ==
    ASSUME NEW S \in SUBSET Files
    PROVE  /\ IsFiniteSet(S)
           /\ Cardinality(S) \in Nat /\ Cardinality(Files) \in Nat
           /\ Cardinality(S) <= Cardinality(Files)
BY FilesFinite, FS_Subset, FS_CardinalityType

LEMMA Stages ==
    /\ Stage("embed") = 9 /\ Stage("progress") = 8 /\ Stage("batch") = 7
    /\ Stage("decode") = 7 /\ Stage("snap") = 6 /\ Stage("waiting") = 5
    /\ Stage("take") = 4 /\ Stage("read") = 4 /\ Stage("finish") = 1 /\ Stage("none") = 0
    /\ \A pc \in Locations : Stage(pc) \in 0..9 /\ (pc \notin BeforeBatches => Stage(pc) > 0)
BY DEF Stage, Locations, BeforeBatches

(* A step that only moves the program counter.                              *)
LEMMA OnlyMoves ==
    ASSUME TypeOK, NEW pc \in Locations, Stage(pc) < Stage(scan.pc),
           scan'.pc = pc, scan'.left = scan.left, scan'.chunk = scan.chunk
    PROVE  ToGo' < ToGo
<1> DEFINE n == Cardinality(scan.left)
           m == Cardinality(scan.chunk)
<1>1. n \in Nat /\ m \in Nat
    BY SetOfFiles DEF TypeOK, ScanOK
<1>2. Stage(pc) \in Nat /\ Stage(scan.pc) \in Nat
    BY Stages DEF TypeOK, ScanOK
<1>3. ToGo = 20 * n + 6 * m + Stage(scan.pc) /\ ToGo' = 20 * n + 6 * m + Stage(pc)
    BY DEF ToGo, Steps
<1> HIDE DEF n, m
<1> QED
    BY <1>1, <1>2, <1>3

(* The end of a scan, in whatever way.                                      *)
LEMMA EndIsNearest ==
    ASSUME TypeOK, scan.pc \notin BeforeBatches, scan' = NoScan
    PROVE  ToGo' < ToGo
<1> DEFINE n == Cardinality(scan.left)
           m == Cardinality(scan.chunk)
<1>1. n \in Nat /\ m \in Nat
    BY SetOfFiles DEF TypeOK, ScanOK
<1>2. Stage(scan.pc) \in Nat /\ Stage(scan.pc) > 0
    BY Stages DEF TypeOK, ScanOK
<1>3. ToGo = 20 * n + 6 * m + Stage(scan.pc)
    BY DEF ToGo, Steps
<1>4. ToGo' = 0
    <2>1. scan'.left = {} /\ scan'.chunk = {} /\ scan'.pc = "none"
        BY DEF NoScan
    <2>2. Cardinality({}) = 0
        BY FS_EmptySet
    <2> QED
        BY <2>1, <2>2, Stages DEF ToGo, Steps
<1> HIDE DEF n, m
<1> QED
    BY <1>1, <1>2, <1>3, <1>4

LEMMA TakeChunkCounts ==
    ASSUME IInv, TakeChunk
    PROVE  ToGo' < ToGo
<1>1. PICK c \in SUBSET scan.left :
        /\ c # {}
        /\ scan' = [scan EXCEPT !.pc = "decode", !.chunk = c, !.left = @ \ c]
    BY DEF TakeChunk
<1>2. scan'.pc = "decode" /\ scan'.chunk = c /\ scan'.left = scan.left \ c
    BY <1>1 DEF IInv, TypeOK, ScanOK, NoScan
<1>3. scan.chunk = {} /\ Stage(scan.pc) \in {4, 7} /\ Stage("decode") = 7
    BY Stages DEF TakeChunk, IInv, FrameOK
<1> DEFINE n == Cardinality(scan.left)
           k == Cardinality(c)
<1>4. n \in Nat /\ k \in Nat /\ k # 0 /\ IsFiniteSet(scan.left) /\ IsFiniteSet(c)
    BY <1>1, SetOfFiles, FS_EmptySet DEF IInv, TypeOK, ScanOK
<1>5. Cardinality(scan.left \ c) = n - k
    <2>1. scan.left \cap c = c
        OBVIOUS
    <2> QED
        BY <1>4, <2>1, FS_Difference
<1>6. ToGo = 20 * n + 6 * 0 + Stage(scan.pc)
    BY <1>3, FS_EmptySet DEF ToGo, Steps
<1>7. ToGo' = 20 * (n - k) + 6 * k + 7
    BY <1>2, <1>3, <1>5 DEF ToGo, Steps
<1> HIDE DEF n, k
<1> QED
    BY <1>3, <1>4, <1>6, <1>7

LEMMA DecodeCounts ==
    ASSUME IInv, NEW f \in Files, DecodeOk(f) \/ DecodeFails(f)
    PROVE  ToGo' < ToGo
<1>1. /\ scan'.pc = AfterFile(f) /\ scan'.chunk = scan.chunk \ {f} /\ scan'.left = scan.left
      /\ f \in scan.chunk
    BY DEF DecodeOk, DecodeFails, AtFile, IInv, TypeOK, ScanOK, NoScan
<1>2. Stage(scan.pc) \in {4, 7}
    BY Stages DEF DecodeOk, DecodeFails, AtFile
<1> DEFINE n == Cardinality(scan.left)
           m == Cardinality(scan.chunk)
<1>3. n \in Nat /\ m \in Nat /\ IsFiniteSet(scan.chunk)
    BY SetOfFiles DEF IInv, TypeOK, ScanOK
<1>4. Cardinality(scan.chunk \ {f}) = m - 1
    BY <1>1, <1>3, FS_RemoveElement
<1>5. Stage(AfterFile(f)) = IF scan.chunk = {f} THEN 9 ELSE 7
    BY Stages DEF AfterFile
<1>6. scan.chunk = {f} => m = 1
    BY FS_Singleton
<1>7. m # 0
    BY <1>1, <1>3, FS_EmptySet
<1>8. ToGo = 20 * n + 6 * m + Stage(scan.pc)
    BY DEF ToGo, Steps
<1>9. ToGo' = 20 * n + 6 * (m - 1) + Stage(AfterFile(f))
    BY <1>1, <1>4 DEF ToGo, Steps
<1> DEFINE last == scan.chunk = {f}
<1>10. Stage(AfterFile(f)) = IF last THEN 9 ELSE 7
    BY <1>5
<1>11. last => m = 1
    BY <1>6
<1> HIDE DEF n, m, last
<1> QED
    BY <1>2, <1>3, <1>7, <1>8, <1>9, <1>10, <1>11

LEMMA StepCounts ==
    ASSUME IInv, Next, scan.pc \notin BeforeBatches
    PROVE  scan' = scan \/ ToGo' < ToGo
<1>1. TypeOK /\ DOMAIN scan = DOMAIN NoScan /\ scan.pc \notin {"none", "plan", "planWait", "walk"}
    BY DEF IInv, TypeOK, ScanOK, BeforeBatches
<1>2. CASE Environment
    BY <1>1, <1>2, EndIsNearest DEF Environment, Edit, Delete, RecordSnapshot, DamageIndexFile, Crash
<1>3. CASE Boot
    BY <1>3 DEF Boot, BootReconcile, BootWithoutIndex, BootCorruptIndex
<1>4. CASE Requests
    BY <1>1, <1>4 DEF Requests, Trigger, RequestPause, Resume, ResumeFromCheckpoint, ResumeSetupFails
<1>5. CASE ScanSteps
    <2>1. CASE Plan \/ PausePlan
        BY <1>1, <2>1 DEF Plan, PausePlan
    <2>2. CASE PausePublish
        <3>1. /\ scan'.pc = "snap" /\ scan'.left = scan.left /\ scan'.chunk = scan.chunk
              /\ scan.pc \in {"batch", "decode"}
            BY <1>1, <2>2 DEF PausePublish, MayPause, NoScan
        <3> QED
            BY <1>1, <3>1, OnlyMoves, Stages DEF Locations
    <2>3. CASE PauseSave
        <3>1. /\ scan'.pc = "waiting" /\ scan'.left = scan.left /\ scan'.chunk = scan.chunk
              /\ scan.pc = "snap"
            BY <1>1, <2>3 DEF PauseSave, NoScan
        <3> QED
            BY <1>1, <3>1, OnlyMoves, Stages DEF Locations
    <2>4. CASE Wake
        <3>1. /\ scan'.pc \in {"take", "read"} /\ scan'.left = scan.left
              /\ scan'.chunk = scan.chunk /\ scan.pc = "waiting"
            BY <1>1, <2>4 DEF Wake, NoScan
        <3> QED
            BY <1>1, <3>1, OnlyMoves, Stages DEF Locations
    <2>5. CASE TakeChunk
        BY <2>5, TakeChunkCounts
    <2>6. CASE \E f \in Files : DecodeOk(f) \/ DecodeFails(f)
        BY <2>6, DecodeCounts
    <2>7. CASE SkipChunk \/ CommitChunk
        <3>1. /\ scan'.pc \in {"batch", "progress"} /\ scan'.left = scan.left
              /\ scan'.chunk = scan.chunk /\ scan.pc = "embed"
            BY <1>1, <2>7 DEF SkipChunk, CommitChunk, NoScan
        <3> QED
            BY <1>1, <3>1, OnlyMoves, Stages DEF Locations
    <2>8. CASE PublishProgress \/ SkipProgress
        <3>1. /\ scan'.pc = "batch" /\ scan'.left = scan.left
              /\ scan'.chunk = scan.chunk /\ scan.pc = "progress"
            BY <1>1, <2>8 DEF PublishProgress, SkipProgress, NoScan
        <3> QED
            BY <1>1, <3>1, OnlyMoves, Stages DEF Locations
    <2>9. CASE PublishFinal
        <3>1. /\ scan'.pc = "finish" /\ scan'.left = scan.left
              /\ scan'.chunk = scan.chunk /\ scan.pc = "batch"
            BY <1>1, <2>9 DEF PublishFinal, NoScan
        <3> QED
            BY <1>1, <3>1, OnlyMoves, Stages DEF Locations
    <2>10. CASE Finish \/ ScanFails
        BY <1>1, <2>10, EndIsNearest DEF Finish, ScanFails
    <2> QED
        BY <1>5, <2>1, <2>2, <2>3, <2>4, <2>5, <2>6, <2>7, <2>8, <2>9, <2>10 DEF ScanSteps
<1> QED
    BY <1>2, <1>3, <1>4, <1>5 DEF Next

(* Beyond its plan a scan is brought nearer to its end by every step of its *)
(* thread, also by those of a pause: a thread that is paused and resumed    *)
(* for ever does not work for ever.                                         *)
THEOREM StepsCount ==
    Spec => EveryStepCounts
<1>1. IInv /\ [Next]_vars
        => [scan.pc \notin BeforeBatches => scan' = scan \/ ToGo' < ToGo]_vars
    BY StepCounts
<1> QED
    BY <1>1, Inductive, PTL DEF Spec, EveryStepCounts

(* Twenty steps of the thread for each file that there may be, and nine     *)
(* more, are enough after the plan of a scan.                               *)
THEOREM ScansAreShort ==
    Spec => []ScanIsShort
<1>1. IInv => ScanIsShort
    <2> SUFFICES ASSUME IInv PROVE ScanIsShort
        OBVIOUS
    <2> DEFINE n == Cardinality(scan.left)
               m == Cardinality(scan.chunk)
               all == Cardinality(Files)
               stage == Stage(scan.pc)
    <2>1. /\ scan.left \in SUBSET Files /\ scan.chunk \in SUBSET Files
          /\ scan.left \cap scan.chunk = {} /\ stage \in 0..9
        BY Stages DEF IInv, TypeOK, ScanOK, PartsOK
    <2>2. n \in Nat /\ m \in Nat /\ all \in Nat
        BY <2>1, SetOfFiles
    <2>3. n + m <= all
        <3>1. Cardinality(scan.left \cup scan.chunk) = n + m - Cardinality({})
            BY <2>1, SetOfFiles, FS_Union
        <3>2. Cardinality({}) = 0
            BY FS_EmptySet
        <3>3. Cardinality(scan.left \cup scan.chunk) <= all
            BY <2>1, SetOfFiles
        <3> HIDE DEF n, m, all
        <3> QED
            BY <2>2, <3>1, <3>2, <3>3
    <2>4. ToGo = 20 * n + 6 * m + stage
        BY DEF ToGo, Steps
    <2>5. ToGo \in 0 .. 20 * all + 9
        <3> HIDE DEF n, m, all, stage
        <3> QED
            BY <2>1, <2>2, <2>3, <2>4
    <2> QED
        BY <2>5 DEF ScanIsShort
<1> QED
    BY <1>1, Inductive, PTL

=============================================================================
