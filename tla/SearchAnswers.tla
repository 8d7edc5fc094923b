---------------------------- MODULE SearchAnswers ----------------------------
(***************************************************************************)
(* POST /api/search as backend/app/search.py answers it: the published     *)
(* index is captured under its lock, ranked after the embedding, and only  *)
(* then are the rows read, which a scan changes before it publishes the    *)
(* index that goes with them.  The index is a set of ids; how it ranks     *)
(* them against a query is left open.                                      *)
(***************************************************************************)
EXTENDS Catalogue

CONSTANTS
    K,          \* results asked for
    Slack       \* what is fetched beyond K: max(3K, K + 10) - K

ASSUME SearchCounts == K \in Nat \ {0} /\ Slack \in Nat

VARIABLES
    index,      \* ids in the published index
    query       \* the search under way

NoQuery == [step |-> "rest", mode |-> "image", index |-> {}, top |-> {},
            image |-> {}, results |-> {}, gone |-> 0]

(* publish_index *)
PublishIds(S) ==
    /\ index' = S
    /\ UNCHANGED query

(* An image alone, or an image and a text combined with "or".  "and" fetches *)
(* up to MAX_SEARCH_FETCH and filters; a text alone does not ask the index.  *)
AskSearch(mode) ==
    /\ query.step \in {"rest", "done"}
    /\ query' = [NoQuery EXCEPT !.step = IF index = {} THEN "read" ELSE "rank",
                                !.mode = mode, !.index = index]
    /\ UNCHANGED index

(* Mutant: as many vectors as results. *)
FetchK(total) == Min({total, K})

Fetch(total) == Min({total, K + Slack})

Rank ==
    /\ query.step = "rank"
    /\ \E top \in kSubset(Fetch(Cardinality(query.index)), query.index) :
        query' = [query EXCEPT !.step = "read", !.top = top]
    /\ UNCHANGED index

(* fetch_by_ids, then [:k]; no row of an id leaves it out. *)
ReadRows ==
    /\ query.step = "read"
    /\ LET found == query.top \cap Present
       IN \E best \in kSubset(Min({K, Cardinality(found)}), found) :
            query' = [query EXCEPT
                        !.step = IF query.mode = "or" THEN "text" ELSE "done",
                        !.image = best, !.results = best,
                        !.gone = Cardinality(query.index \ Present)]
    /\ UNCHANGED index

(* search_by_text: up to K rows that match, whichever those are; merged,    *)
(* what both found first, then what the image found, then the rest.         *)
ReadText ==
    /\ query.step = "text"
    /\ \E matches \in SUBSET Present :
        /\ Cardinality(matches) <= K
        /\ \E rest \in kSubset(Min({K - Cardinality(query.image),
                                    Cardinality(matches \ query.image)}),
                               matches \ query.image) :
            query' = [query EXCEPT !.step = "done", !.results = query.image \cup rest]
    /\ UNCHANGED index

SearchInit ==
    /\ index = {}
    /\ query = NoQuery

SearchNext ==
    \/ \E S \in SUBSET Ids : PublishIds(S)
    \/ \E mode \in {"image", "or"} : AskSearch(mode)
    \/ Rank \/ ReadRows \/ ReadText
=============================================================================
