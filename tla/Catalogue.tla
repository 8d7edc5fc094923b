------------------------------ MODULE Catalogue ------------------------------
(***************************************************************************)
(* The table images of backend/app/db.py as the requests that read it see  *)
(* it: scans insert, re-index and remove rows at any time.  A row is its   *)
(* rel_path and its indexed_at; both keys are unique.  What a scan does    *)
(* and when is the matter of ScanIndex.                                    *)
(***************************************************************************)
EXTENDS Integers, FiniteSets, FiniteSetsExt, Functions

CONSTANTS
    Paths,      \* relative paths of image files
    MaxId,      \* bound: ids the table ever draws
    MaxTime     \* bound: time stamps are 0..MaxTime

ASSUME TableBounds == MaxId \in Nat /\ MaxTime \in Nat

VARIABLES
    rows,       \* id -> [path, at]
    lastId      \* sqlite_sequence: the highest id ever drawn

catalogue == <<rows, lastId>>

Ids == 1..MaxId
Times == 0..MaxTime
Present == DOMAIN rows

(* Mutant: INTEGER PRIMARY KEY without AUTOINCREMENT. *)
NextIdReused == 1 + Max(Present \cup {0})

(* AUTOINCREMENT *)
NextId == lastId + 1

(* One row of upsert_images_bulk.  The stamp is taken when the statement    *)
(* runs and shows when its transaction commits, so stamps come in any order. *)
Upsert(p, at) ==
    LET known == {i \in Present : rows[i].path = p}
        i == IF known = {} THEN NextId ELSE CHOOSE k \in known : TRUE
    IN /\ i \in Ids
       /\ rows' = [j \in Present \cup {i} |->
                    IF j = i THEN [path |-> p, at |-> at] ELSE rows[j]]
       /\ lastId' = Max({lastId, i})

(* remove_ids; reset, which removes them all, keeps sqlite_sequence too. *)
Remove(S) ==
    /\ S # {} /\ S \subseteq Present
    /\ rows' = Restrict(rows, Present \ S)
    /\ UNCHANGED lastId

CatalogueInit ==
    /\ rows \in {[i \in {} |-> 0]}
    /\ lastId = 0

Commit ==
    \/ \E p \in Paths, at \in Times : Upsert(p, at)
    \/ \E S \in SUBSET Present : Remove(S)
=============================================================================
