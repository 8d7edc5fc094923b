------------------------ MODULE DeltaPipelineProofs ------------------------
(***************************************************************************)
(* Proofs about DeltaPipeline for any files, recorders and versions.       *)
(*                                                                         *)
(* That a full and a delta scan do their work needs to be told file by     *)
(* file: what is neither left nor failed is done (FullDone, DeltaDone),    *)
(* and no metadata is ahead of the store (PastOnly), so that the file      *)
(* which is decoded is at least as new as what its row says.               *)
(*                                                                         *)
(* That turns lose nothing is about two parties.  KeptInTurn follows the   *)
(* state of the store which the catalogue and the delta lead to together:  *)
(* the baseline, or, between the writing of a delta and that of the        *)
(* baseline, the state seen by the recorder that writes them.              *)
(***************************************************************************)
EXTENDS DeltaPipeline, TLAPS

(* The frames of the scan and of the recorders have their fields. *)
Shapes ==
    /\ DOMAIN rec = Recorders
    /\ \A r \in Recorders : DOMAIN rec[r] = DOMAIN Idle
    /\ DOMAIN scan = DOMAIN NoScan

(* An inventory that is nowhere ahead of the versions v. *)
Past(i, v) == Inventory(i) /\ \A f \in DOMAIN i : i[f] <= v[f]

PastOnly ==
    /\ baseline # None => Past(baseline, version)
    /\ latest # None => Past(latest, version)
    /\ \A r \in Recorders : rec[r].pc # "none" => Past(rec[r].seen, version)
    /\ \A f \in DOMAIN rows : rows[f].stat <= rows[f].ver /\ rows[f].ver <= version[f]
    /\ Past(scan.work, version)

DeltaOK(d) == Delta(d) /\ d.deleted \cap (d.created \cup d.modified) = {}

DeltasOK ==
    /\ delta # None => DeltaOK(delta)
    /\ \A r \in Recorders : rec[r].pc = "delta" => DeltaOK(rec[r].changes)
    /\ scan.pc # "none" /\ scan.mode = "delta" => DeltaOK(scan.changes)

FullDone ==
    scan.pc = "work" /\ scan.mode = "full" =>
        /\ Past(scan.inventory, version)
        /\ DOMAIN rows \cup DOMAIN scan.work \subseteq DOMAIN scan.inventory
        /\ \A f \in DOMAIN scan.work : scan.work[f] = scan.inventory[f]
        /\ \A f \in DOMAIN scan.inventory \ (scan.failed \cup scan.left) :
            f \in DOMAIN rows /\ Same(f, rows[f].stat, scan.inventory[f])

DeltaDone ==
    scan.pc = "work" /\ scan.mode = "delta" =>
        /\ DOMAIN scan.work \subseteq scan.changes.created \cup scan.changes.modified
        /\ scan.changes.deleted \cap DOMAIN rows = {}
        /\ scan.changes.created \subseteq DOMAIN rows \cup scan.failed \cup scan.left
        /\ \A f \in (scan.changes.created \cup scan.changes.modified) \cap DOMAIN rows :
            \/ f \in scan.failed \cup scan.left
            \/ f \in DOMAIN scan.work /\ rows[f].ver >= scan.work[f]

(* The catalogue has f as b has it, or newer, or takes it for the same.     *)
Synced(f, b) ==
    IF f \in DOMAIN b
    THEN f \in DOMAIN rows /\ (rows[f].ver >= b[f] \/ Same(f, rows[f].stat, b[f]))
    ELSE f \notin DOMAIN rows

(* The catalogue and what is still to be done lead to b. *)
LeadsTo(b) ==
    /\ delta # None => /\ delta.deleted \cap DOMAIN b = {}
                       /\ delta.created \cup delta.modified \subseteq DOMAIN b
    /\ scan.pc # "work" => /\ delta # None => delta.modified \subseteq DOMAIN rows
                           /\ \A f \in Files \ Listed(delta) : Synced(f, b)
    /\ scan.pc = "work" /\ scan.mode = "delta" =>
        /\ scan.failed = {}
        /\ \A f \in Files \ scan.left : Synced(f, b)

KeptInTurn ==
    trust = "kept" =>
        /\ baseline # None
        /\ \A q, r \in Recorders : rec[q].pc # "none" /\ rec[r].pc # "none" => q = r
        /\ \A r \in Recorders : rec[r].pc = "delta" =>
                                    rec[r].changes = Changes(baseline, rec[r].seen)
        /\ scan.pc # "none" /\ scan.mode = "delta" => delta = scan.changes
        /\ (\A r \in Recorders : rec[r].pc # "baseline") => LeadsTo(baseline)
        /\ \A r \in Recorders : rec[r].pc = "baseline" => LeadsTo(rec[r].seen)

IInv ==
    /\ TypeOK /\ Shapes /\ PastOnly /\ DeltasOK
    /\ FullDone /\ DeltaDone /\ KeptInTurn

-----------------------------------------------------------------------------
(* Inventories and deltas *)

LEMMA NoneIsNoInventory == ASSUME NEW i, Inventory(i) PROVE i # None
BY NoneIsNoFile DEF Inventory

LEMMA NoneIsNoDelta == ASSUME NEW d, Delta(d) PROVE d # None
BY NoneIsNoFile DEF Delta

(* What the store holds now is not ahead of it. *)
LEMMA LiveIsPast ==
    ASSUME version \in [Files -> Nat], present \subseteq Files
    PROVE  Past(LiveInventory, version) /\ DOMAIN LiveInventory = present
BY DEF LiveInventory, Keep, Past, Inventory

(* Versions only grow. *)
LEMMA PastStays ==
    ASSUME NEW i, NEW v \in [Files -> Nat], NEW w \in [Files -> Nat],
           \A f \in Files : v[f] <= w[f], Past(i, v)
    PROVE  Past(i, w)
<1> SUFFICES ASSUME NEW f \in DOMAIN i PROVE i[f] <= w[f]
    BY DEF Past
<1> f \in Files /\ i[f] \in Nat /\ i[f] <= v[f]
    BY DEF Past, Inventory
<1> QED
    OBVIOUS

(* A comparison: what it lists, and that it lists nothing as two things. *)
LEMMA ChangesOK ==
    ASSUME NEW old, NEW new, Inventory(old), Inventory(new)
    PROVE  /\ DeltaOK(Changes(old, new))
           /\ Changes(old, new).created = DOMAIN new \ DOMAIN old
           /\ Changes(old, new).deleted = DOMAIN old \ DOMAIN new
           /\ Changes(old, new).modified = {f \in DOMAIN new \cap DOMAIN old : new[f] # old[f]}
BY DEF Changes, DeltaOK, Delta, Inventory

(* An inventory that a scan may choose. *)
LEMMA FoundIsPast ==
    ASSUME IInv, NEW i \in SnapshotInventories
    PROVE  i = None \/ Past(i, version)
BY DEF IInv, PastOnly, SnapshotInventories

(* The metadata that a scan goes by. *)
LEMMA StatIsPast ==
    ASSUME IInv, NEW i \in SnapshotInventories, NEW S \in SUBSET Files
    PROVE  Past([f \in S |-> Stat(i, f)], version)
<1>1. version \in [Files -> Nat]
    BY DEF IInv, TypeOK
<1>2. \A f \in S : Stat(i, f) \in Nat /\ Stat(i, f) <= version[f]
    BY <1>1, FoundIsPast DEF Stat, Past, Inventory
<1> QED
    BY <1>2 DEF Past, Inventory

-----------------------------------------------------------------------------
(* The steps *)

LEMMA InitOK == Init => IInv
<1> SUFFICES ASSUME Init PROVE IInv
    OBVIOUS
<1>1. TypeOK /\ Shapes
    BY DEF Init, TypeOK, Shapes, Idle, NoScan, Nothing, Inventory
<1>2. PastOnly
    BY DEF Init, PastOnly, Idle, NoScan, Nothing, Past, Inventory
<1>3. DeltasOK /\ FullDone /\ DeltaDone /\ KeptInTurn
    BY DEF Init, DeltasOK, FullDone, DeltaDone, KeptInTurn, Idle, NoScan
<1> QED
    BY <1>1, <1>2, <1>3 DEF IInv

(* The store changes under everybody. *)
LEMMA StoreOK ==
    ASSUME IInv, NEW f \in Files, Write(f) \/ Delete(f)
    PROVE  IInv'
<1>1. /\ version' \in [Files -> Nat] /\ present' \subseteq Files
      /\ \A g \in Files : version[g] <= version'[g]
    BY DEF IInv, TypeOK, Write, Delete
<1>2. UNCHANGED <<baseline, latest, delta, rec, rows, scan, trust>>
    BY DEF Write, Delete
<1>3. TypeOK' /\ Shapes'
    BY <1>1, <1>2 DEF IInv, TypeOK, Shapes
<1>4. PastOnly'
    <2>1. \A g \in DOMAIN rows : rows[g].ver <= version'[g]
        BY <1>1 DEF IInv, TypeOK, PastOnly
    <2> QED
        BY <1>1, <1>2, <2>1, PastStays DEF IInv, TypeOK, PastOnly
<1>5. FullDone'
    BY <1>1, <1>2, PastStays DEF IInv, TypeOK, FullDone
<1>6. DeltasOK' /\ DeltaDone'
    BY <1>2 DEF IInv, DeltasOK, DeltaDone
<1>7. KeptInTurn'
    BY <1>2 DEF IInv, KeptInTurn, LeadsTo, Synced
<1> QED
    BY <1>3, <1>4, <1>5, <1>6, <1>7 DEF IInv

(* A recorder leaves catalogue and scan alone.  What it may disturb are the *)
(* frames, the delta, and what the catalogue and the delta lead to.         *)
LEMMA RecorderOK ==
    ASSUME IInv, UNCHANGED <<store, rows, scan>>, NEW r \in Recorders,
           TypeOK', Shapes',
           baseline' # None => Past(baseline', version),
           latest' # None => Past(latest', version),
           delta' # None => DeltaOK(delta'),
           rec'[r].pc # "none" => Past(rec'[r].seen, version),
           rec'[r].pc = "delta" => DeltaOK(rec'[r].changes),
           \A q \in Recorders \ {r} : rec'[q] = rec[q],
           KeptInTurn'
    PROVE  IInv'
<1>1. PastOnly' /\ DeltasOK'
    BY DEF IInv, PastOnly, DeltasOK, store
<1>2. FullDone' /\ DeltaDone'
    BY DEF IInv, FullDone, DeltaDone, store
<1> QED
    BY <1>1, <1>2 DEF IInv

LEMMA WalkOK ==
    ASSUME IInv, NEW r \in Recorders, Walk(r)
    PROVE  IInv'
<1>1. /\ rec'[r] = [pc |-> "compare", seen |-> LiveInventory, changes |-> None]
      /\ \A q \in Recorders \ {r} : rec'[q] = rec[q]
      /\ UNCHANGED <<store, baseline, latest, delta, rows, scan>>
      /\ rec[r].pc = "none"
    BY DEF Walk, IInv, Shapes
<1>2. Past(LiveInventory, version)
    BY LiveIsPast DEF IInv, TypeOK
<1>3. TypeOK' /\ Shapes'
    BY <1>1, <1>2 DEF IInv, TypeOK, Shapes, Walk, Break, Past, Idle, store
<1>4. KeptInTurn'
    <2> SUFFICES ASSUME trust' = "kept" PROVE KeptInTurn'
        BY DEF KeptInTurn
    <2>1. trust = "kept" /\ \A q \in Recorders : rec[q].pc = "none"
        BY <1>1 DEF Walk, Break
    <2> QED
        BY <1>1, <2>1 DEF IInv, KeptInTurn, LeadsTo, Synced
<1> QED
    BY <1>1, <1>2, <1>3, <1>4, RecorderOK DEF IInv, PastOnly, DeltasOK

LEMMA CompareOK ==
    ASSUME IInv, NEW r \in Recorders, Compare(r)
    PROVE  IInv'
<1>1. /\ \A q \in Recorders \ {r} : rec'[q] = rec[q]
      /\ UNCHANGED <<store, baseline, latest, delta, rows, scan, trust>>
      /\ rec[r].pc = "compare" /\ Past(rec[r].seen, version)
    BY DEF Compare, IInv, Shapes, PastOnly
<1>2. /\ DOMAIN rec' = Recorders /\ DOMAIN rec'[r] = DOMAIN Idle
      /\ rec'[r].seen = rec[r].seen
      /\ baseline = None => rec'[r].pc = "baseline" /\ rec'[r].changes = rec[r].changes
      /\ baseline # None => /\ rec'[r].pc = "delta"
                            /\ rec'[r].changes = Changes(baseline, rec[r].seen)
    BY DEF Compare, IInv, Shapes, Idle
<1>3. baseline # None => DeltaOK(rec'[r].changes)
    BY <1>1, <1>2, ChangesOK DEF IInv, PastOnly, Past
<1>4. TypeOK' /\ Shapes'
    BY <1>1, <1>2, <1>3 DEF IInv, TypeOK, Shapes, DeltaOK, store
<1>5. KeptInTurn'
    BY <1>1, <1>2 DEF IInv, KeptInTurn, LeadsTo, Synced
<1> QED
    BY <1>1, <1>2, <1>3, <1>4, <1>5, RecorderOK DEF IInv, PastOnly, DeltasOK

(* Trust that is kept means that there was no delta: the catalogue has what *)
(* the baseline has, and the delta says the rest.                           *)
LEMMA WriteDeltaOK ==
    ASSUME IInv, NEW r \in Recorders, WriteDelta(r)
    PROVE  IInv'
<1>1. /\ \A q \in Recorders \ {r} : rec'[q] = rec[q]
      /\ UNCHANGED <<store, baseline, latest, rows, scan>>
      /\ delta' = rec[r].changes
      /\ rec[r].pc = "delta" /\ Past(rec[r].seen, version) /\ DeltaOK(rec[r].changes)
    BY DEF WriteDelta, IInv, PastOnly, DeltasOK
<1>2. /\ DOMAIN rec' = Recorders /\ DOMAIN rec'[r] = DOMAIN Idle
      /\ rec'[r].pc = "baseline" /\ rec'[r].seen = rec[r].seen
      /\ rec'[r].changes = rec[r].changes
    BY DEF WriteDelta, IInv, Shapes, Idle
<1>3. TypeOK' /\ Shapes'
    BY <1>1, <1>2 DEF IInv, TypeOK, Shapes, DeltaOK, store, WriteDelta, Break
<1>4. ASSUME trust' = "kept" PROVE KeptInTurn'
    <2> DEFINE new == rec[r].seen
    <2>1. trust = "kept" /\ delta = None
        BY <1>4 DEF WriteDelta, Break
    <2>2. /\ baseline # None /\ delta' = Changes(baseline, new)
          /\ \A q \in Recorders : rec[q].pc # "none" => q = r
          /\ scan.pc # "none" => scan.mode # "delta"
        BY <1>1, <2>1, NoneIsNoDelta DEF IInv, KeptInTurn, DeltasOK, DeltaOK
    <2>3. LeadsTo(baseline)
        BY <1>1, <2>1, <2>2 DEF IInv, KeptInTurn
    <2>4. Inventory(baseline) /\ Inventory(new)
        BY <1>1, <2>2 DEF IInv, PastOnly, Past
    <2>5. /\ delta'.created = DOMAIN new \ DOMAIN baseline
          /\ delta'.deleted = DOMAIN baseline \ DOMAIN new
          /\ delta'.modified = {f \in DOMAIN new \cap DOMAIN baseline : new[f] # baseline[f]}
          /\ delta' # None
        BY <2>2, <2>4, ChangesOK, NoneIsNoDelta DEF DeltaOK
    <2>6. ASSUME scan.pc # "work"
          PROVE  /\ delta'.modified \subseteq DOMAIN rows
                 /\ \A f \in Files \ Listed(delta') : Synced(f, new)
        <3>1. \A f \in Files : Synced(f, baseline)
            BY <2>1, <2>3, <2>6 DEF LeadsTo, Listed
        <3> QED
            BY <2>4, <2>5, <3>1 DEF Synced, Listed, Inventory
    <2>7. LeadsTo(new)'
        BY <1>1, <1>2, <2>2, <2>5, <2>6 DEF LeadsTo, Synced
    <2> QED
        BY <1>1, <1>2, <2>2, <2>7 DEF KeptInTurn, LeadsTo, Synced
<1>5. KeptInTurn'
    BY <1>4 DEF KeptInTurn
<1> QED
    BY <1>1, <1>2, <1>3, <1>5, RecorderOK DEF IInv, PastOnly, DeltasOK

LEMMA WriteBaselineOK ==
    ASSUME IInv, NEW r \in Recorders, WriteBaseline(r)
    PROVE  IInv'
<1>1. /\ \A q \in Recorders \ {r} : rec'[q] = rec[q]
      /\ UNCHANGED <<store, latest, delta, rows, scan, trust>>
      /\ baseline' = rec[r].seen
      /\ rec[r].pc = "baseline" /\ Past(rec[r].seen, version)
    BY DEF WriteBaseline, IInv, PastOnly
<1>2. /\ DOMAIN rec' = Recorders /\ DOMAIN rec'[r] = DOMAIN Idle
      /\ rec'[r].pc = "latest" /\ rec'[r].seen = rec[r].seen
      /\ rec'[r].changes = rec[r].changes
    BY DEF WriteBaseline, IInv, Shapes, Idle
<1>3. TypeOK' /\ Shapes'
    BY <1>1, <1>2 DEF IInv, TypeOK, Shapes, Past, store
<1>4. KeptInTurn'
    <2> SUFFICES ASSUME trust = "kept" PROVE KeptInTurn'
        BY <1>1 DEF KeptInTurn
    <2>1. /\ LeadsTo(rec[r].seen)
          /\ \A q \in Recorders : rec[q].pc # "none" => q = r
          /\ scan.pc # "none" /\ scan.mode = "delta" => delta = scan.changes
        BY <1>1 DEF IInv, KeptInTurn
    <2>2. baseline' # None
        BY <1>1, NoneIsNoInventory DEF Past
    <2> QED
        BY <1>1, <1>2, <2>1, <2>2 DEF KeptInTurn, LeadsTo, Synced
<1> QED
    BY <1>1, <1>2, <1>3, <1>4, RecorderOK DEF IInv, PastOnly, DeltasOK

(* The end of a recorder. *)
LEMMA RecorderEndsOK ==
    ASSUME IInv, NEW r \in Recorders, WriteLatest(r) \/ Abort(r)
    PROVE  IInv'
<1>1. /\ \A q \in Recorders \ {r} : rec'[q] = rec[q]
      /\ UNCHANGED <<store, baseline, delta, rows, scan>>
      /\ latest' = latest \/ latest' = rec[r].seen
      /\ rec[r].pc # "none" /\ Past(rec[r].seen, version)
    <2>1. CASE WriteLatest(r)
        BY <2>1 DEF WriteLatest, IInv, PastOnly
    <2>2. CASE Abort(r)
        BY <2>2 DEF Abort, IInv, PastOnly
    <2> QED
        BY <2>1, <2>2
<1>2. /\ DOMAIN rec' = Recorders /\ rec'[r] = Idle
    BY DEF WriteLatest, Abort, IInv, Shapes
<1>3. TypeOK' /\ Shapes'
    BY <1>1, <1>2 DEF IInv, TypeOK, Shapes, Past, store, Idle, WriteLatest, Abort, Break
<1>4. KeptInTurn'
    <2> SUFFICES ASSUME trust' = "kept" PROVE KeptInTurn'
        BY DEF KeptInTurn
    <2>1. trust = "kept" /\ rec[r].pc # "baseline"
        BY DEF WriteLatest, Abort, Break
    <2> QED
        BY <1>1, <1>2, <2>1 DEF IInv, KeptInTurn, LeadsTo, Synced, Idle
<1> QED
    BY <1>1, <1>2, <1>3, <1>4, RecorderOK DEF IInv, PastOnly, DeltasOK, Idle

(* The scan leaves store, snapshots and recorders alone. *)
LEMMA ScanOK ==
    ASSUME IInv, UNCHANGED <<store, baseline, latest, rec>>,
           delta' \in {delta, None}, trust' \in {"none", "kept", "broken"},
           DOMAIN scan' = DOMAIN NoScan,
           scan'.pc \in {"none", "plan", "work"},
           Past(scan'.work, version), scan'.left \subseteq DOMAIN scan'.work,
           rows' \in [DOMAIN rows' -> [stat : Nat, ver : Nat]], DOMAIN rows' \subseteq Files,
           \A f \in DOMAIN rows' : rows'[f].stat <= rows'[f].ver /\ rows'[f].ver <= version[f],
           scan'.pc # "none" /\ scan'.mode = "delta" => DeltaOK(scan'.changes),
           FullDone', DeltaDone', KeptInTurn'
    PROVE  IInv'
<1>1. TypeOK' /\ Shapes'
    BY DEF IInv, TypeOK, Shapes, Past, store
<1>2. PastOnly' /\ DeltasOK'
    BY DEF IInv, PastOnly, DeltasOK, store
<1> QED
    BY <1>1, <1>2 DEF IInv

(* A scan that is over, by whatever way. *)
LEMMA OverOK ==
    ASSUME IInv, UNCHANGED <<store, baseline, latest, rec, rows>>, scan' = NoScan,
           delta' \in {delta, None}, trust' \in {"none", "kept", "broken"}, KeptInTurn'
    PROVE  IInv'
<1>1. /\ Past(scan'.work, version) /\ scan'.left \subseteq DOMAIN scan'.work
      /\ DOMAIN scan' = DOMAIN NoScan /\ scan'.pc = "none"
    BY DEF NoScan, Nothing, Past, Inventory
<1>2. FullDone' /\ DeltaDone'
    BY <1>1 DEF FullDone, DeltaDone
<1> QED
    BY <1>1, <1>2, ScanOK DEF IInv, TypeOK, PastOnly

LEMMA RescanOK ==
    ASSUME IInv, NEW mode \in {"full", "delta"}, NEW force \in BOOLEAN, Rescan(mode, force)
    PROVE  IInv'
<1>1. /\ UNCHANGED <<store, baseline, latest, delta, rec, rows, trust>>
      /\ scan.pc = "none" /\ (mode = "delta" => delta # None)
    BY DEF Rescan
<1>2. /\ DOMAIN scan' = DOMAIN NoScan /\ scan'.pc = "plan" /\ scan'.mode = mode
      /\ scan'.work = Nothing /\ scan'.left = {}
      /\ mode = "delta" => scan'.changes = delta
    BY DEF Rescan, NoScan
<1>3. Past(scan'.work, version)
    BY <1>2 DEF Past, Inventory, Nothing
<1>4. scan'.mode = "delta" => DeltaOK(scan'.changes)
    BY <1>1, <1>2 DEF IInv, DeltasOK
<1>5. FullDone' /\ DeltaDone'
    BY <1>2 DEF FullDone, DeltaDone
<1>6. KeptInTurn'
    BY <1>1, <1>2 DEF IInv, KeptInTurn, LeadsTo, Synced
<1> QED
    BY <1>1, <1>2, <1>3, <1>4, <1>5, <1>6, ScanOK DEF IInv, TypeOK, PastOnly

LEMMA PlanFullOK ==
    ASSUME IInv, PlanFull
    PROVE  IInv'
<1>1. PICK found \in SnapshotInventories :
        LET inventory == IF found = None THEN LiveInventory ELSE found
            kept      == KeptRows(inventory)
            pending   == {f \in DOMAIN inventory :
                            f \notin DOMAIN kept \/ ~ Same(f, kept[f].stat, inventory[f])}
        IN  /\ rows' = kept
            /\ scan' = [Working(Keep(inventory, pending), {}) EXCEPT !.inventory = inventory]
    BY DEF PlanFull
<1> DEFINE inventory == IF found = None THEN LiveInventory ELSE found
           pending == {f \in DOMAIN inventory :
                          f \notin DOMAIN rows' \/ ~ Same(f, rows'[f].stat, inventory[f])}
<1>2. Past(inventory, version)
    BY FoundIsPast, LiveIsPast DEF IInv, TypeOK
<1>3. /\ UNCHANGED <<store, baseline, latest, delta, rec, trust>>
      /\ scan.pc = "plan" /\ scan.mode = "full"
    BY DEF PlanFull
<1>4. /\ DOMAIN rows' \subseteq DOMAIN rows \cap DOMAIN inventory
      /\ \A f \in DOMAIN rows' : rows'[f] = rows[f]
      /\ rows' = [f \in DOMAIN rows' |-> rows'[f]]
    BY <1>1 DEF KeptRows, Keep, Nothing
<1>5. /\ DOMAIN scan' = DOMAIN NoScan /\ scan'.pc = "work" /\ scan'.mode = "full"
      /\ scan'.work = Keep(inventory, pending) /\ scan'.left = DOMAIN scan'.work
      /\ scan'.failed = {} /\ scan'.inventory = inventory
    BY <1>1, <1>3 DEF Working, IInv, Shapes, NoScan
<1> HIDE DEF inventory
<1>6. /\ DOMAIN scan'.work = pending
      /\ \A f \in pending : scan'.work[f] = inventory[f]
      /\ scan'.work = [f \in pending |-> inventory[f]]
    BY <1>5 DEF Keep
<1>7. Past(scan'.work, version)
    BY <1>2, <1>6 DEF Past, Inventory
<1>8. FullDone'
    BY <1>2, <1>3, <1>4, <1>5, <1>6 DEF FullDone, store
<1>9. DeltaDone'
    BY <1>5 DEF DeltaDone
<1>10. KeptInTurn'
    BY <1>3, <1>5 DEF IInv, KeptInTurn, LeadsTo
<1>11. /\ rows' \in [DOMAIN rows' -> [stat : Nat, ver : Nat]] /\ DOMAIN rows' \subseteq Files
       /\ \A f \in DOMAIN rows' : rows'[f].stat <= rows'[f].ver /\ rows'[f].ver <= version[f]
    BY <1>4 DEF IInv, TypeOK, PastOnly
<1> QED
    BY <1>3, <1>5, <1>7, <1>8, <1>9, <1>10, <1>11, ScanOK DEF IInv, TypeOK

(* The deleted files lose their rows, the rest of the delta is to be done.  *)
LEMMA PlanDeltaOK ==
    ASSUME IInv, PlanDelta
    PROVE  IInv'
<1> DEFINE d == scan.changes
<1>1. PICK inventory \in SnapshotInventories :
        LET found == {f \in DeltaFiles : Found(inventory, f)}
        IN  /\ scan' = Working([f \in found |-> Stat(inventory, f)], DeltaFiles \ found)
            /\ trust' = IF DeltaFiles \subseteq found THEN trust ELSE "none"
    BY DEF PlanDelta
<1> DEFINE found == {f \in DeltaFiles : Found(inventory, f)}
<1>2. /\ UNCHANGED <<store, baseline, latest, delta, rec>>
      /\ scan.pc = "plan" /\ scan.mode = "delta" /\ DeltaOK(d)
      /\ rows' = Keep(rows, Files \ d.deleted)
    BY DEF PlanDelta, IInv, DeltasOK
<1>3. /\ DOMAIN scan' = DOMAIN NoScan /\ scan'.pc = "work" /\ scan'.mode = "delta"
      /\ scan'.changes = d
      /\ scan'.work = [f \in found |-> Stat(inventory, f)] /\ scan'.left = DOMAIN scan'.work
      /\ scan'.failed = DeltaFiles \ found
    BY <1>1, <1>2 DEF Working, IInv, Shapes, NoScan
<1>4. /\ DOMAIN rows' = DOMAIN rows \ d.deleted
      /\ \A f \in DOMAIN rows' : rows'[f] = rows[f]
      /\ rows' = [f \in DOMAIN rows' |-> rows[f]]
    BY <1>2 DEF Keep, IInv, TypeOK
<1>5. /\ DeltaFiles = d.created \cup (d.modified \cap DOMAIN rows)
      /\ DeltaFiles \subseteq Files /\ found \subseteq DeltaFiles
    BY <1>2 DEF DeltaFiles, DeltaOK, Delta
<1> HIDE DEF found
<1>6. DOMAIN scan'.work = found /\ Past(scan'.work, version)
    BY <1>3, <1>5, StatIsPast
<1>7. FullDone'
    BY <1>3 DEF FullDone
<1>8. DeltaDone'
    BY <1>2, <1>3, <1>4, <1>5, <1>6 DEF DeltaDone, DeltaOK
<1>9. KeptInTurn'
    <2> SUFFICES ASSUME trust' = "kept" PROVE KeptInTurn'
        BY DEF KeptInTurn
    <2>1. trust = "kept" /\ found = DeltaFiles
        BY <1>1, <1>5 DEF found
    <2>2. delta = d /\ delta # None
        BY <1>2, <2>1, NoneIsNoDelta DEF IInv, KeptInTurn, DeltaOK
    <2>3. ASSUME NEW b, LeadsTo(b) PROVE \A f \in Files \ found : Synced(f, b)'
        <3> SUFFICES ASSUME NEW f \in Files \ found PROVE Synced(f, b)'
            OBVIOUS
        <3>1. CASE f \in d.deleted
            BY <1>2, <1>4, <2>2, <2>3, <3>1 DEF LeadsTo, Synced
        <3>2. CASE f \notin d.deleted
            BY <1>2, <1>4, <1>5, <2>1, <2>2, <2>3, <3>2 DEF LeadsTo, Synced, Listed
        <3> QED
            BY <3>1, <3>2
    <2>4. scan'.failed = {} /\ scan'.left = found
        BY <1>3, <1>6, <2>1
    <2>5. (\A q \in Recorders : rec[q].pc # "baseline") => LeadsTo(baseline)'
        BY <1>2, <1>3, <2>1, <2>2, <2>3, <2>4 DEF IInv, KeptInTurn, LeadsTo, Synced
    <2>6. \A q \in Recorders : rec[q].pc = "baseline" => LeadsTo(rec[q].seen)'
        BY <1>2, <1>3, <2>1, <2>2, <2>3, <2>4 DEF IInv, KeptInTurn, LeadsTo, Synced
    <2> QED
        BY <1>2, <1>3, <2>1, <2>2, <2>5, <2>6 DEF IInv, KeptInTurn
<1>10. /\ rows' \in [DOMAIN rows' -> [stat : Nat, ver : Nat]] /\ DOMAIN rows' \subseteq Files
       /\ \A f \in DOMAIN rows' : rows'[f].stat <= rows'[f].ver /\ rows'[f].ver <= version[f]
    BY <1>4 DEF IInv, TypeOK, PastOnly
<1>11. trust' \in {"none", "kept", "broken"}
    BY <1>1 DEF IInv, TypeOK
<1> QED
    BY <1>2, <1>3, <1>6, <1>7, <1>8, <1>9, <1>10, <1>11, ScanOK

(* The file is at least as new as its metadata and as what the baseline or  *)
(* a recorder has of it.                                                    *)
LEMMA ProcessOK ==
    ASSUME IInv, NEW f \in Files, Process(f)
    PROVE  IInv'
<1>1. /\ UNCHANGED <<store, baseline, latest, delta, rec, trust>>
      /\ scan.pc = "work" /\ f \in scan.left
    BY DEF Process
<1>2. /\ DOMAIN scan' = DOMAIN NoScan /\ scan'.left = scan.left \ {f}
      /\ \A x \in DOMAIN NoScan \ {"left"} : scan'[x] = scan[x]
    BY DEF Process, IInv, Shapes, NoScan
<1>3. /\ scan'.pc = scan.pc /\ scan'.mode = scan.mode /\ scan'.changes = scan.changes
      /\ scan'.inventory = scan.inventory /\ scan'.work = scan.work
      /\ scan'.failed = scan.failed
    BY <1>2 DEF NoScan
<1>4. /\ DOMAIN rows' = DOMAIN rows \cup {f}
      /\ rows' = [g \in DOMAIN rows' |-> rows'[g]]
      /\ rows'[f] = [stat |-> scan.work[f], ver |-> version[f]]
      /\ \A g \in DOMAIN rows' \ {f} : rows'[g] = rows[g]
    BY DEF Process
<1>5. /\ f \in DOMAIN scan.work /\ scan.work[f] \in Nat /\ version[f] \in Nat
      /\ scan.work[f] <= version[f]
    BY <1>1 DEF IInv, TypeOK, PastOnly, Past, Inventory
<1>6. /\ rows' \in [DOMAIN rows' -> [stat : Nat, ver : Nat]] /\ DOMAIN rows' \subseteq Files
      /\ \A g \in DOMAIN rows' : rows'[g].stat <= rows'[g].ver /\ rows'[g].ver <= version[g]
    BY <1>4, <1>5 DEF IInv, TypeOK, PastOnly
<1>7. FullDone'
    <2> SUFFICES ASSUME scan.mode = "full" PROVE FullDone'
        BY <1>3 DEF FullDone
    <2>1. FullDone /\ version' = version
        BY <1>1 DEF IInv, store
    <2>2. \A g \in DOMAIN scan.inventory \ (scan.failed \cup scan'.left) :
            g \in DOMAIN rows' /\ Same(g, rows'[g].stat, scan.inventory[g])
        <3> SUFFICES ASSUME NEW g \in DOMAIN scan.inventory \ (scan.failed \cup scan'.left)
                     PROVE  g \in DOMAIN rows' /\ Same(g, rows'[g].stat, scan.inventory[g])
            OBVIOUS
        <3>1. CASE g = f
            BY <1>1, <1>4, <1>5, <2>1, <3>1 DEF FullDone, Same
        <3>2. CASE g # f
            BY <1>1, <1>2, <1>4, <2>1, <3>2 DEF FullDone
        <3> QED
            BY <3>1, <3>2
    <2>3. DOMAIN rows' \cup DOMAIN scan.work \subseteq DOMAIN scan.inventory
        BY <1>1, <1>4, <1>5, <2>1 DEF FullDone
    <2> QED
        BY <1>1, <1>3, <2>1, <2>2, <2>3 DEF FullDone
<1>8. DeltaDone'
    BY <1>1, <1>2, <1>3, <1>4, <1>5 DEF IInv, DeltaDone, DeltasOK, DeltaOK
<1>9. KeptInTurn'
    <2> SUFFICES ASSUME trust = "kept" PROVE KeptInTurn'
        BY <1>1 DEF KeptInTurn
    <2>1. ASSUME NEW b, Past(b, version), LeadsTo(b),
                 scan.mode = "delta" => delta = scan.changes
          PROVE  /\ scan.mode = "delta" => \A g \in Files \ scan'.left : Synced(g, b)'
                 /\ scan.mode = "delta" => scan'.failed = {}
        <3> SUFFICES ASSUME scan.mode = "delta"
                     PROVE  /\ scan'.failed = {}
                            /\ \A g \in Files \ scan'.left : Synced(g, b)'
            OBVIOUS
        <3>1. f \in DOMAIN b /\ b[f] <= version[f]
            BY <1>1, <1>5, <2>1, NoneIsNoDelta
               DEF IInv, DeltasOK, DeltaDone, DeltaOK, LeadsTo, Past
        <3>2. Synced(f, b)'
            BY <1>4, <1>5, <3>1 DEF Synced
        <3>3. ASSUME NEW g \in Files \ scan'.left, g # f PROVE Synced(g, b)'
            BY <1>1, <1>2, <1>4, <2>1, <3>3 DEF LeadsTo, Synced
        <3> QED
            BY <1>1, <1>3, <2>1, <3>2, <3>3 DEF LeadsTo
    <2>2. (\A q \in Recorders : rec[q].pc # "baseline") => LeadsTo(baseline)'
        BY <1>1, <1>3, <2>1 DEF IInv, KeptInTurn, PastOnly, LeadsTo, Synced
    <2>3. \A q \in Recorders : rec[q].pc = "baseline" => LeadsTo(rec[q].seen)'
        BY <1>1, <1>3, <2>1 DEF IInv, KeptInTurn, PastOnly, LeadsTo, Synced
    <2> QED
        BY <1>1, <1>3, <2>2, <2>3 DEF IInv, KeptInTurn
<1> QED
    BY <1>1, <1>2, <1>3, <1>6, <1>7, <1>8, <1>9, ScanOK DEF IInv, TypeOK, PastOnly, DeltasOK

LEMMA FailOK ==
    ASSUME IInv, NEW f \in Files, Fail(f)
    PROVE  IInv'
<1>1. /\ UNCHANGED <<store, baseline, latest, delta, rec, rows>>
      /\ trust' = "none" /\ f \in scan.left
    BY DEF Fail
<1>2. /\ DOMAIN scan' = DOMAIN NoScan
      /\ scan'.left = scan.left \ {f} /\ scan'.failed = scan.failed \cup {f}
      /\ scan'.pc = scan.pc /\ scan'.mode = scan.mode /\ scan'.changes = scan.changes
      /\ scan'.inventory = scan.inventory /\ scan'.work = scan.work
    BY DEF Fail, IInv, Shapes, NoScan
<1>3. FullDone'
    BY <1>1, <1>2 DEF IInv, FullDone, store
<1>4. DeltaDone'
    BY <1>1, <1>2 DEF IInv, DeltaDone
<1> QED
    BY <1>1, <1>2, <1>3, <1>4, ScanOK
       DEF IInv, TypeOK, PastOnly, DeltasOK, KeptInTurn

LEMMA ResumeOK ==
    ASSUME IInv, ResumeAfterRestart
    PROVE  IInv'
<1>1. PICK inventory \in SnapshotInventories :
        LET found == {f \in scan.left : Found(inventory, f)}
        IN  scan' = [NoScan EXCEPT !.pc = "work", !.mode = "resumed",
                       !.work = [f \in found |-> Stat(inventory, f)],
                       !.left = found, !.failed = scan.left \ found]
    BY DEF ResumeAfterRestart
<1> DEFINE found == {f \in scan.left : Found(inventory, f)}
<1>2. /\ UNCHANGED <<store, baseline, latest, delta, rec, rows>> /\ trust' = "none"
    BY DEF ResumeAfterRestart
<1>3. found \subseteq Files
    BY DEF IInv, TypeOK, Inventory
<1>4. /\ DOMAIN scan' = DOMAIN NoScan /\ scan'.pc = "work" /\ scan'.mode = "resumed"
      /\ scan'.work = [f \in found |-> Stat(inventory, f)] /\ scan'.left = found
    BY <1>1 DEF NoScan
<1>5. Past(scan'.work, version) /\ DOMAIN scan'.work = found
    BY <1>3, <1>4, StatIsPast
<1>6. FullDone' /\ DeltaDone' /\ KeptInTurn'
    BY <1>2, <1>4 DEF FullDone, DeltaDone, KeptInTurn
<1> QED
    BY <1>2, <1>4, <1>5, <1>6, ScanOK DEF IInv, TypeOK, PastOnly

(* Agreement: nothing failed, so the catalogue has what the baseline has,   *)
(* and the delta, if there is one, changes nothing in that.                 *)
LEMMA EndFullOK ==
    ASSUME IInv, EndFull
    PROVE  IInv'
<1>1. /\ UNCHANGED <<store, baseline, latest, delta, rec, rows>> /\ scan' = NoScan
      /\ scan.pc = "work" /\ scan.left = {}
      /\ trust' = IF scan.mode = "full" /\ Agree THEN "kept" ELSE "none"
    BY DEF EndFull
<1>2. ASSUME scan.mode = "full", Agree PROVE KeptInTurn'
    <2>1. \A f \in Files : Synced(f, baseline)
        BY <1>1, <1>2 DEF IInv, FullDone, Agree, Synced, PastOnly, Past, Inventory
    <2>2. baseline # None /\ Inventory(baseline)
        BY <1>1, <1>2, NoneIsNoInventory DEF IInv, FullDone, Agree, Past
    <2>3. delta # None => delta.modified \subseteq DOMAIN rows
        BY <1>2, <2>1, <2>2 DEF Agree, Synced, Inventory
    <2>4. LeadsTo(baseline)'
        BY <1>1, <1>2, <2>1, <2>3 DEF LeadsTo, Agree, NoScan, Synced
    <2> QED
        BY <1>1, <1>2, <2>2, <2>4 DEF KeptInTurn, Agree, NoScan
<1>3. KeptInTurn'
    BY <1>1, <1>2 DEF KeptInTurn
<1> QED
    BY <1>1, <1>3, OverOK

(* The delta that goes is the one that was read. *)
LEMMA EndDeltaOK ==
    ASSUME IInv, EndDelta
    PROVE  IInv'
<1>1. /\ UNCHANGED <<store, baseline, latest, rec, rows>> /\ scan' = NoScan /\ delta' = None
      /\ scan.pc = "work" /\ scan.mode = "delta" /\ scan.left = {}
      /\ trust' = "kept" => trust = "kept"
    BY DEF EndDelta, Break
<1>2. trust' \in {"none", "kept", "broken"}
    BY DEF EndDelta, Break, IInv, TypeOK
<1>3. KeptInTurn'
    BY <1>1 DEF IInv, KeptInTurn, LeadsTo, Synced, NoScan
<1> QED
    BY <1>1, <1>2, <1>3, OverOK

LEMMA DieOK ==
    ASSUME IInv, Die
    PROVE  IInv'
BY OverOK DEF Die, KeptInTurn

-----------------------------------------------------------------------------
(* Theorems *)

(* What the catalogue, the delta, the snapshots, the recorders and the scan *)
(* say of each other in every reachable state.                              *)
THEOREM Inductive == Spec => []IInv
<1>1. Init => IInv
    BY InitOK
<1>2. IInv /\ [Next]_vars => IInv'
    <2> SUFFICES ASSUME IInv, [Next]_vars PROVE IInv'
        OBVIOUS
    <2>1. CASE Store
        BY <2>1, StoreOK DEF Store
    <2>2. CASE Record
        BY <2>2, WalkOK, CompareOK, WriteDeltaOK, WriteBaselineOK, RecorderEndsOK DEF Record
    <2>3. CASE Scan
        BY <2>3, RescanOK, PlanFullOK, PlanDeltaOK, ProcessOK, FailOK, ResumeOK,
           EndFullOK, EndDeltaOK, DieOK DEF Scan
    <2>4. CASE UNCHANGED vars
        BY <2>4 DEF vars, IInv, TypeOK, Shapes, PastOnly, DeltasOK, FullDone, DeltaDone,
                    KeptInTurn, LeadsTo, Synced
    <2> QED
        BY <2>1, <2>2, <2>3, <2>4 DEF Next
<1> QED
    BY <1>1, <1>2, PTL DEF Spec

(* Every variable keeps the kind of value the code gives it. *)
THEOREM TypeCorrect == Spec => []TypeOK
<1>1. IInv => TypeOK
    BY DEF IInv
<1> QED
    BY <1>1, Inductive, PTL

(* A full scan that comes to its end has the catalogue as its inventory has *)
(* it, up to the tolerance, whatever snapshots, deltas and restarts went    *)
(* before.                                                                  *)
THEOREM FullScan == Spec => []FullScanCatchesUp
<1>1. IInv => FullScanCatchesUp
    BY DEF IInv, FullDone, FullScanCatchesUp, Ready, PastOnly
<1> QED
    BY <1>1, Inductive, PTL

(* A delta scan that comes to its end has done what it read. *)
THEOREM DeltaScan == Spec => []DeltaScanAppliesItsDelta
<1>1. IInv => DeltaScanAppliesItsDelta
    BY DEF IInv, DeltaDone, DeltaScanAppliesItsDelta, Ready
<1> QED
    BY <1>1, Inductive, PTL

(* Snapshots and delta rescans that take turns lose no change: the baseline *)
(* never takes in what neither the catalogue nor a delta has, but for what   *)
(* is within the tolerance of a row.                                        *)
THEOREM TurnsLoseNothing == Spec => []DeltasInTurnLoseNothing
<1>1. IInv => DeltasInTurnLoseNothing
    <2> SUFFICES ASSUME IInv, Quiet, trust = "kept", NEW f \in Files,
                        InStore(baseline, f), f \notin Listed(delta)
                 PROVE  InStore([g \in DOMAIN rows |-> rows[g].ver], f) \/ PassedOver(f)
        BY DEF DeltasInTurnLoseNothing, Missed
    <2>1. Synced(f, baseline)
        BY DEF IInv, KeptInTurn, LeadsTo, Quiet
    <2>2. f \in DOMAIN rows => /\ rows[f].ver \in Nat /\ version[f] \in Nat
                              /\ rows[f].ver <= version[f]
        BY DEF IInv, TypeOK, PastOnly
    <2> QED
        BY <2>1, <2>2 DEF Synced, InStore, PassedOver
<1> QED
    BY <1>1, Inductive, PTL

=============================================================================
