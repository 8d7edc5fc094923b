----------------------------- MODULE Thumbnails -----------------------------
(***************************************************************************)
(* GET /api/thumb/{id} of backend/app/api/routes.py and the pruning of its *)
(* cache in backend/app/thumbs.py.  The route is a plain function, so      *)
(* FastAPI runs any number of these requests in threads next to each       *)
(* other and to the scan.                                                  *)
(*                                                                         *)
(* A cached file is named after id and side and replaced atomically; a     *)
(* picture is known by the file it was made from.  The temporary file of a *)
(* request is its own and is removed with it.  Which of the listed files   *)
(* are the oldest is left open, for modification times can be equal.       *)
(***************************************************************************)
EXTENDS Catalogue

CONSTANTS
    Threads,        \* requests that run at one time
    Sides,          \* sides of thumbnails, after clamping to 64..1024
    Cap             \* Settings.thumbs_max_files, 0 for no limit

(* config.py: ge=0 *)
ASSUME CapIsNatural == Cap \in Nat

VARIABLES
    cache,          \* <<id, side>> -> the path whose picture the file shows
    frame,          \* locals of the requests
    newest,         \* observer: the request whose listing is the newest, as a set
    short           \* observer: the pruning of that listing was given up, or
                    \* could not remove a file

thumbnails == <<cache, frame, newest, short>>
pruned     == <<newest, short>>

Keys == Ids \X Sides
Cached == DOMAIN cache

Rest == [step |-> "idle", key |-> <<>>, path |-> "", listed |-> {}]

Goes(r, step) == frame' = [frame EXCEPT ![r].step = step]

(* get_by_id; no row is a 404. *)
AskThumb(r, i, side) ==
    /\ frame[r].step = "idle"
    /\ i \in Present
    /\ frame' = [frame EXCEPT ![r] =
                   [Rest EXCEPT !.step = "look", !.key = <<i, side>>, !.path = rows[i].path]]
    /\ UNCHANGED <<cache, pruned>>

Look(r) ==
    /\ frame[r].step = "look"
    /\ Goes(r, IF frame[r].key \in Cached THEN "open" ELSE "make")
    /\ UNCHANGED <<cache, pruned>>

(* The picture is decoded, scaled, saved under a temporary name and moved   *)
(* over the cached file.  Only the move shows.                             *)
Make(r) ==
    /\ frame[r].step = "make"
    /\ cache' = [k \in Cached \cup {frame[r].key} |->
                    IF k = frame[r].key THEN frame[r].path ELSE cache[k]]
    /\ Goes(r, "list")
    /\ UNCHANGED pruned

(* The source is gone or cannot be decoded, or the disk is full: 404 or 500, *)
(* and the temporary file is removed.                                        *)
MakeFails(r) ==
    /\ frame[r].step = "make"
    /\ frame' = [frame EXCEPT ![r] = Rest]
    /\ UNCHANGED <<cache, pruned>>

(* prune_thumb_cache: the listing. *)
List(r) ==
    /\ frame[r].step = "list"
    /\ IF Cap = 0 \/ Cardinality(Cached) <= Cap
       THEN Goes(r, "open")
       ELSE frame' = [frame EXCEPT ![r].step = "sort", ![r].listed = Cached]
    /\ newest' = {r} /\ short' = FALSE
    /\ UNCHANGED cache

(* Mutant: one file makes room for the one that was added. *)
ExcessOne(listed) == 1

Excess(listed) == Cardinality(listed) - Cap

(* Sorting asks each listed file for its time; one that another request has *)
(* pruned raises, and the whole pruning is given up.                        *)
Sort(r) ==
    /\ frame[r].step = "sort"
    /\ LET listed == frame[r].listed
       IN IF listed \subseteq Cached
          THEN /\ \E oldest \in kSubset(Excess(listed), listed) :
                    frame' = [frame EXCEPT ![r].step = "unlink", ![r].listed = oldest]
               /\ UNCHANGED short
          ELSE /\ frame' = [frame EXCEPT ![r].step = "open", ![r].listed = {}]
               /\ short' = (short \/ r \in newest)
    /\ UNCHANGED <<cache, newest>>

(* One file after the other; of one that cannot be removed, because it is    *)
(* gone already or because the system refuses, no more than the log is told. *)
Unlinked(r, k) ==
    LET left == frame[r].listed \ {k}
    IN  /\ frame[r].step = "unlink" /\ k \in frame[r].listed
        /\ frame' = [frame EXCEPT ![r].listed = left,
                                  ![r].step = IF left = {} THEN "open" ELSE @]
        /\ UNCHANGED newest

Unlink(r, k) ==
    /\ Unlinked(r, k)
    /\ cache' = Restrict(cache, Cached \ {k})
    /\ UNCHANGED short

UnlinkFails(r, k) ==
    /\ Unlinked(r, k) /\ k \in Cached
    /\ short' = (short \/ r \in newest)
    /\ UNCHANGED cache

(* FileResponse opens the file only now; if it was pruned since, the answer *)
(* is an error.                                                             *)
Open(r) ==
    /\ frame[r].step = "open"
    /\ frame' = [frame EXCEPT ![r] = Rest]
    /\ UNCHANGED <<cache, pruned>>

(* The process ends, and starts with a pruning (main.lifespan), of which    *)
(* some removals may fail.                                                  *)
Restart ==
    /\ IF Cap = 0 \/ Cardinality(Cached) <= Cap
       THEN short' = FALSE /\ UNCHANGED cache
       ELSE \E oldest \in kSubset(Excess(Cached), Cached) : \E failed \in SUBSET oldest :
                /\ cache' = Restrict(cache, Cached \ (oldest \ failed))
                /\ short' = (failed # {})
    /\ frame' = [r \in Threads |-> Rest]
    /\ newest' = {}

ThumbnailsInit ==
    /\ cache = [k \in {} |-> ""]
    /\ frame = [r \in Threads |-> Rest]
    /\ newest = {} /\ short = FALSE

Serve(r) ==
    \/ \E i \in Ids, side \in Sides : AskThumb(r, i, side)
    \/ Look(r) \/ Make(r) \/ MakeFails(r) \/ List(r) \/ Sort(r) \/ Open(r)
    \/ \E k \in Keys : Unlink(r, k) \/ UnlinkFails(r, k)

ThumbnailsNext == (\E r \in Threads : Serve(r)) \/ Restart
=============================================================================
