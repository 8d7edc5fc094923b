----------------------------- MODULE BrowsePages -----------------------------
(***************************************************************************)
(* A client that walks GET /api/images by its cursor: db.browse_images and *)
(* browse_images of backend/app/api/routes.py, sorted by indexed_at, with  *)
(* the filters that select the rows.  COUNT and SELECT are two statements  *)
(* without a transaction around them, and between two pages a scan may     *)
(* change the table.                                                       *)
(*                                                                         *)
(* ORDER BY names indexed_at alone.  Read through idx_images_indexed_at_id *)
(* rows with equal stamps come in the order of their ids; read through     *)
(* another index, which SQLite prefers for a range of sizes, they come in  *)
(* any order.                                                              *)
(***************************************************************************)
EXTENDS Catalogue

CONSTANT Limit      \* rows per page

(* The route: ge=1 *)
ASSUME LimitIsPositive == Limit \in Nat \ {0}

VARIABLE walk

NoCursor == <<>>

NoWalk == [step |-> "rest", order |-> "desc", cursor |-> NoCursor, more |-> FALSE,
           shown |-> {}, steady |-> {}, twice |-> {}, raced |-> FALSE, sorted |-> FALSE]

(* <<at, id>> of a row, and the comparison of SQLite's row values. *)
Position(i) == <<rows[i].at, i>>

Before(x, y) ==
    IF walk.order = "asc" THEN x[1] < y[1] \/ (x[1] = y[1] /\ x[2] < y[2])
                          ELSE x[1] > y[1] \/ (x[1] = y[1] /\ x[2] > y[2])

(* Mutant: the cursor continues after the stamp. *)
BeyondStamp(i, cursor) ==
    cursor = NoCursor \/ Before(<<cursor[1], 0>>, <<rows[i].at, 0>>)

(* The WHERE clause of the cursor. *)
Beyond(i, cursor) == cursor = NoCursor \/ Before(cursor, Position(i))

Candidates == {i \in Present : Beyond(i, walk.cursor)}

(* Whether i must come before j; with "sorted", stamps alone decide. *)
Precedes(i, j, sorted) ==
    IF sorted THEN rows[i].at # rows[j].at /\ Before(Position(i), Position(j))
              ELSE Before(Position(i), Position(j))

(* The pages a query may return, and the rows that may be their last. *)
Pages(sorted) ==
    {P \in kSubset(Min({Limit, Cardinality(Candidates)}), Candidates) :
        \A i \in Candidates \ P, j \in P : ~Precedes(i, j, sorted)}

LastOf(P, sorted) == {j \in P : \A i \in P : ~Precedes(j, i, sorted)}

StartWalk(order) ==
    /\ walk.step \in {"rest", "over"}
    /\ walk' = [NoWalk EXCEPT !.step = "count", !.order = order, !.steady = Present]

(* Without a cursor has_more is offset + limit < total, the offset being 0. *)
CountRows ==
    /\ walk.step = "count"
    /\ walk' = [walk EXCEPT !.step = "select", !.more = Limit < Cardinality(Present)]

(* With one it is whether the page is full. *)
HasMore(P) == IF walk.cursor = NoCursor THEN walk.more ELSE Cardinality(P) = Limit

SelectPage(sorted) ==
    /\ walk.step = "select"
    /\ \E P \in Pages(sorted) :
        LET seen == [walk EXCEPT !.shown = @ \cup P, !.twice = @ \cup (walk.shown \cap P),
                                 !.sorted = @ \/ sorted]
        IN IF P = {} \/ ~HasMore(P)
           THEN walk' = [seen EXCEPT !.step = "over"]
           ELSE \E j \in LastOf(P, sorted) :
                    walk' = [seen EXCEPT !.step = "count", !.cursor = Position(j)]

(* What a commit of the scan means to the walk; nothing to the client. *)
Observe ==
    walk' = [walk EXCEPT
        !.steady = {i \in @ \cap DOMAIN rows' : rows'[i] = rows[i]},
        !.raced = @ \/ (walk.step = "select" /\ walk.cursor = NoCursor)]

BrowseInit == walk = NoWalk

BrowseNext ==
    \/ \E order \in {"asc", "desc"} : StartWalk(order)
    \/ CountRows
    \/ \E sorted \in BOOLEAN : SelectPage(sorted)
=============================================================================
