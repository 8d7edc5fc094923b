------------------------------ MODULE ReadSide ------------------------------
(***************************************************************************)
(* Requests that read the catalogue while a scan changes it: thumbnails,   *)
(* walks through the pages of the browser, searches.  They meet in the     *)
(* table only, so a behaviour follows the requests of one kind.            *)
(***************************************************************************)
EXTENDS Thumbnails, BrowsePages, SearchAnswers

VARIABLE kind

vars == <<catalogue, thumbnails, walk, index, query, kind>>

Init ==
    /\ CatalogueInit /\ ThumbnailsInit /\ BrowseInit /\ SearchInit
    /\ kind \in {"thumb", "browse", "search"}

(* A transaction of the scan.  Only walks look at the stamps. *)
ScanCommits ==
    /\ Commit
    /\ kind # "browse" => \A i \in DOMAIN rows' : rows'[i].at = 0
    /\ IF kind = "browse" THEN Observe ELSE UNCHANGED walk
    /\ UNCHANGED <<thumbnails, index, query, kind>>

Thumbs ==
    /\ kind = "thumb" /\ ThumbnailsNext
    /\ UNCHANGED <<catalogue, walk, index, query, kind>>

Browses ==
    /\ kind = "browse" /\ BrowseNext
    /\ UNCHANGED <<catalogue, thumbnails, index, query, kind>>

Searches ==
    /\ kind = "search" /\ SearchNext
    /\ UNCHANGED <<catalogue, thumbnails, walk, kind>>

Next == ScanCommits \/ Thumbs \/ Browses \/ Searches

Spec == Init /\ [][Next]_vars

-----------------------------------------------------------------------------
(* Properties.                                                             *)

(* The file that a request for a thumbnail opens shows the image its row    *)
(* named, whatever rows were removed and inserted since the file was made:  *)
(* files are named after ids, outlive their rows, and ids are not reused.   *)
ThumbShowsItsImage ==
    \A r \in Threads :
        frame[r].step = "open" /\ frame[r].key \in Cached
            => cache[frame[r].key] = frame[r].path

(* r has made a file and not listed the cache yet, or its listing is the    *)
(* newest and its pruning goes on.                                          *)
StillPruning(r) ==
    \/ frame[r].step = "list"
    \/ r \in newest /\ frame[r].step \in {"sort", "unlink"}

(* Whatever prunings gave up or left behind before, and whichever files came *)
(* and went between the listings, sortings and removals of several requests: *)
(* when the pruning of the newest listing went through and no file has been  *)
(* made since, the cache is at its limit.                                    *)
PruningRestoresTheCap ==
    Cap # 0 /\ ~short /\ (\A r \in Threads : ~StillPruning(r))
        => Cardinality(Cached) <= Cap

(* A walk by the cursor shows every row that did not change meanwhile, and  *)
(* shows none of them twice, whatever rows come, go and move in between and *)
(* however many share a stamp.  Two things break it, and are left out: a    *)
(* query that SQLite reads through another index than that of the cursor,   *)
(* and a commit between the COUNT and the SELECT of the first page.         *)
WalkShowsSteadyRows ==
    ~walk.sorted => /\ walk.twice \cap walk.steady = {}
                    /\ walk.step = "over" /\ ~walk.raced => walk.steady \subseteq walk.shown

(* A search gives as many results as were asked for, or all there are, when *)
(* no more rows went missing since the index was captured than were fetched *)
(* in reserve.                                                              *)
SearchFillsItsAnswer ==
    query.step = "done" /\ query.gone <= Slack
        => Cardinality(query.results)
              >= Min({K, Cardinality(query.index) - query.gone})
=============================================================================
