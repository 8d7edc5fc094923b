--------------------------- MODULE ReadSideProofs ---------------------------
(***************************************************************************)
(* Proofs about ReadSide for any paths, threads, sides and limits and       *)
(* whatever the bounds on ids and stamps.                                  *)
(*                                                                         *)
(* The four properties lean on the table in three ways.  Thumbnails: an id *)
(* that somebody holds, a file of the cache or a request, has been drawn   *)
(* (NamesOK), so that no later row takes it for another path.  Walks: a    *)
(* row that did not change is behind the cursor exactly if it was shown    *)
(* (ShownIsBehind).  Prunings and searches: what Cardinality says of the   *)
(* sets that a step takes its choice from.                                 *)
(***************************************************************************)
EXTENDS ReadSide, FiniteSetTheorems, TLAPS

CatalogueOK ==
    /\ Present \subseteq Ids /\ lastId \in Nat
    /\ \A i \in Present : i <= lastId
    /\ \A i \in Present : rows[i] \in [path : Paths, at : Times]
    /\ rows = [i \in Present |-> rows[i]]

-----------------------------------------------------------------------------
(* The parts of the inductive invariant: thumbnails *)

Busy == {r \in Threads : frame[r].step # "idle"}

FramesOK ==
    /\ DOMAIN frame = Threads
    /\ \A r \in Threads : DOMAIN frame[r] = DOMAIN Rest
    /\ \A r \in Busy : frame[r].key \in Keys
    /\ IsFiniteSet(Cached) /\ Cached \subseteq Keys
    /\ cache = [k \in Cached |-> cache[k]]

(* The id i has been drawn, and belongs to no path but p. *)
Names(i, p) == i <= lastId /\ (i \in Present => rows[i].path = p)

NamesOK ==
    /\ \A k \in Cached : Names(k[1], cache[k])
    /\ \A r \in Busy : Names(frame[r].key[1], frame[r].path)
    /\ \A r \in Busy, k \in Cached : k[1] = frame[r].key[1] => cache[k] = frame[r].path
    /\ \A q, r \in Busy : frame[q].key[1] = frame[r].key[1] => frame[q].path = frame[r].path

(* The files whose makers have not listed the cache yet, and those that the *)
(* pruning of the newest listing is about to remove.                        *)
Unlisted == {k \in Keys : \E r \in Threads : frame[r].step = "list" /\ frame[r].key = k}
Going    == {k \in Keys : \E r \in newest : frame[r].step = "unlink" /\ k \in frame[r].listed}

PruningOK ==
    /\ newest \subseteq Threads /\ (\A q, r \in newest : q = r)
    /\ short \in BOOLEAN
    /\ \A r \in Threads : frame[r].step = "sort" => IsFiniteSet(frame[r].listed)
    /\ Cap # 0 /\ ~short =>
        /\ \A r \in newest : frame[r].step = "sort" => Cached \ Unlisted \subseteq frame[r].listed
        /\ (\A r \in newest : frame[r].step # "sort")
            => Cardinality(Cached \ (Unlisted \cup Going)) <= Cap

ThumbsOK == FramesOK /\ NamesOK /\ PruningOK

-----------------------------------------------------------------------------
(* Walks *)

WalkTyped ==
    /\ DOMAIN walk = DOMAIN NoWalk
    /\ kind # "browse" => walk = NoWalk
    /\ walk.step \in {"rest", "count", "select", "over"}
    /\ walk.cursor = NoCursor \/ walk.cursor \in Times \X Ids
    /\ walk.steady \subseteq Present

(* What the cursor has passed. *)
Behind(i) == walk.cursor # NoCursor /\ ~ Before(walk.cursor, Position(i))

ShownIsBehind ==
    walk.step \in {"count", "select"} => \A i \in walk.steady : i \in walk.shown <=> Behind(i)

(* COUNT speaks of the rows of SELECT, unless a commit came in between. *)
CountStands ==
    walk.step = "select" /\ walk.cursor = NoCursor /\ ~walk.raced
        => walk.more = (Limit < Cardinality(Present))

WalkOK == WalkTyped /\ CountStands /\ (~walk.sorted => ShownIsBehind) /\ WalkShowsSteadyRows

-----------------------------------------------------------------------------
(* Searches *)

SearchOK ==
    /\ DOMAIN query = DOMAIN NoQuery
    /\ index \subseteq Ids /\ query.index \subseteq Ids /\ query.top \subseteq query.index
    /\ query.step = "read" => Cardinality(query.top) = Fetch(Cardinality(query.index))
    /\ query.step \in {"text", "done"} =>
        /\ query.image \subseteq query.results /\ IsFiniteSet(query.results)
        /\ query.gone \in Nat
        /\ query.gone <= Slack =>
            Cardinality(query.image) >= Min({K, Cardinality(query.index) - query.gone})

IInv == CatalogueOK /\ ThumbsOK /\ WalkOK /\ SearchOK

-----------------------------------------------------------------------------
(* Numbers and sets *)

LEMMA MaxOfTwo ==
    ASSUME NEW a \in Int, NEW b \in Int
    PROVE  Max({a, b}) = IF a > b THEN a ELSE b
<1> DEFINE m == IF a > b THEN a ELSE b
<1>1. m \in {a, b} /\ \A y \in {a, b} : m >= y
    OBVIOUS
<1>2. \A x \in {a, b} : (\A y \in {a, b} : x >= y) => x = m
    OBVIOUS
<1> QED
    BY <1>1, <1>2 DEF Max

LEMMA MinOfTwo ==
    ASSUME NEW a \in Int, NEW b \in Int
    PROVE  Min({a, b}) = IF a < b THEN a ELSE b
<1> DEFINE m == IF a < b THEN a ELSE b
<1>1. m \in {a, b} /\ \A y \in {a, b} : m <= y
    OBVIOUS
<1>2. \A x \in {a, b} : (\A y \in {a, b} : x <= y) => x = m
    OBVIOUS
<1> QED
    BY <1>1, <1>2 DEF Min

LEMMA Chosen ==
    ASSUME NEW n, NEW S, NEW T \in kSubset(n, S)
    PROVE  T \subseteq S /\ Cardinality(T) = n
BY DEF kSubset

LEMMA Restricted ==
    ASSUME NEW fn, NEW S, S \subseteq DOMAIN fn
    PROVE  /\ DOMAIN Restrict(fn, S) = S
           /\ \A x \in S : Restrict(fn, S)[x] = fn[x]
           /\ Restrict(fn, S) = [x \in S |-> Restrict(fn, S)[x]]
BY DEF Restrict

LEMMA IdsAreFinite ==
    ASSUME NEW S, S \subseteq Ids
    PROVE  IsFiniteSet(S) /\ Cardinality(S) \in Nat
<1>1. IsFiniteSet(Ids)
    BY FS_Interval, TableBounds DEF Ids
<1> QED
    BY <1>1, FS_Subset, FS_CardinalityType

-----------------------------------------------------------------------------
(* The table *)

(* A commit gives no id that was ever given to another path, takes no row   *)
(* to another path, and lets the counter only grow.                         *)
LEMMA CommitOK ==
    ASSUME CatalogueOK, Commit
    PROVE  /\ CatalogueOK'
           /\ lastId' >= lastId
           /\ \A i \in Present' : IF i \in Present THEN rows'[i].path = rows[i].path
                                                   ELSE i > lastId
<1>1. ASSUME NEW p \in Paths, NEW at \in Times, Upsert(p, at)
      PROVE  /\ CatalogueOK'
             /\ lastId' >= lastId
             /\ \A i \in Present' : IF i \in Present THEN rows'[i].path = rows[i].path
                                                     ELSE i > lastId
    <2> DEFINE known == {i \in Present : rows[i].path = p}
               i == IF known = {} THEN NextId ELSE CHOOSE k \in known : TRUE
    <2>1. /\ i \in Ids /\ lastId' = Max({lastId, i})
          /\ rows' = [j \in Present \cup {i} |->
                        IF j = i THEN [path |-> p, at |-> at] ELSE rows[j]]
        BY <1>1 DEF Upsert
    <2>2. IF known = {} THEN i = lastId + 1 ELSE i \in Present /\ rows[i].path = p
        BY DEF NextId
    <2> HIDE DEF i
    <2>3. i \in Nat /\ lastId \in Nat
        BY <2>1, TableBounds DEF Ids, CatalogueOK
    <2>4. lastId' = IF lastId > i THEN lastId ELSE i
        BY <2>1, <2>3, MaxOfTwo
    <2>5. i \in Present => rows[i].path = p
        BY <2>2, <2>3 DEF CatalogueOK
    <2>6. i \notin Present => i = lastId + 1
        BY <2>2
    <2>7. Present' = Present \cup {i} /\ rows'[i] = [path |-> p, at |-> at]
          /\ \A j \in Present \ {i} : rows'[j] = rows[j]
        BY <2>1 DEF Present
    <2>8. CatalogueOK'
        <3>1. Present' \subseteq Ids /\ lastId' \in Nat
            BY <2>1, <2>3, <2>4, <2>7 DEF CatalogueOK, Ids
        <3>2. \A j \in Present' : j <= lastId'
            <4> SUFFICES ASSUME NEW j \in Present' PROVE j <= lastId'
                OBVIOUS
            <4>1. CASE j = i
                BY <4>1, <2>3, <2>4
            <4>2. CASE j # i
                <5>1. j \in Present /\ j \in Nat /\ j <= lastId
                    BY <4>2, <2>7, TableBounds DEF CatalogueOK, Ids
                <5> QED
                    BY <5>1, <2>3, <2>4
            <4> QED
                BY <4>1, <4>2
        <3>3. \A j \in Present' : rows'[j] \in [path : Paths, at : Times]
            BY <2>7 DEF CatalogueOK
        <3>4. rows' = [j \in Present' |-> rows'[j]]
            BY <2>1, <2>7
        <3> QED
            BY <3>1, <3>2, <3>3, <3>4 DEF CatalogueOK, Ids, Times
    <2> QED
        BY <2>3, <2>4, <2>5, <2>6, <2>7, <2>8
<1>2. ASSUME NEW S \in SUBSET Present, Remove(S)
      PROVE  CatalogueOK' /\ lastId' = lastId
             /\ Present' \subseteq Present /\ \A i \in Present' : rows'[i] = rows[i]
    <2>1. rows' = Restrict(rows, Present \ S) /\ lastId' = lastId
        BY <1>2 DEF Remove
    <2>2. /\ Present' = Present \ S
          /\ \A i \in Present' : rows'[i] = rows[i]
          /\ rows' = [i \in Present' |-> rows'[i]]
        BY <2>1, Restricted, Present \ S \subseteq DOMAIN rows DEF Present
    <2> QED
        BY <2>1, <2>2 DEF CatalogueOK, Ids, Times
<1>3. CASE \E p \in Paths, at \in Times : Upsert(p, at)
    BY <1>1, <1>3
<1>4. CASE \E S \in SUBSET Present : Remove(S)
    <2>1. /\ CatalogueOK' /\ lastId' = lastId
          /\ Present' \subseteq Present /\ \A i \in Present' : rows'[i] = rows[i]
        BY <1>2, <1>4
    <2>2. lastId' >= lastId
        BY <2>1 DEF CatalogueOK
    <2> QED
        BY <2>1, <2>2
<1> QED
    BY <1>3, <1>4 DEF Commit

-----------------------------------------------------------------------------
(* Thumbnails *)

(* What was named stays named, whatever is committed.                       *)
LEMMA NamesStay ==
    ASSUME CatalogueOK, Commit, NEW i \in Ids, NEW p, Names(i, p)
    PROVE  Names(i, p)'
BY CommitOK, TableBounds DEF Names, CatalogueOK, Ids

LEMMA ThumbnailsLeft ==
    ASSUME CatalogueOK, FramesOK, NamesOK, PruningOK, Commit, UNCHANGED thumbnails
    PROVE  FramesOK' /\ NamesOK' /\ PruningOK'
<1>1. FramesOK' /\ PruningOK'
    BY DEF thumbnails, FramesOK, PruningOK, Unlisted, Going, Busy, Cached, Keys, Ids
<1>2. \A k \in Cached : Names(k[1], cache[k])'
    BY NamesStay DEF thumbnails, FramesOK, NamesOK, Keys
<1>3. \A r \in Busy : Names(frame[r].key[1], frame[r].path)'
    BY NamesStay DEF thumbnails, FramesOK, NamesOK, Keys
<1> QED
    BY <1>1, <1>2, <1>3 DEF thumbnails, NamesOK, Busy, Cached, Names, Present

LEMMA Fewer ==
    ASSUME NEW T, IsFiniteSet(T), NEW S, S \subseteq T
    PROVE  /\ IsFiniteSet(S)
           /\ Cardinality(S) \in Nat /\ Cardinality(T) \in Nat
           /\ Cardinality(S) <= Cardinality(T)
BY FS_Subset, FS_CardinalityType

(* A step that makes no file and starts no request keeps the names.         *)
LEMMA NothingNew ==
    ASSUME FramesOK, NamesOK, UNCHANGED catalogue,
           DOMAIN frame' = Threads,
           \A q \in Threads : DOMAIN frame'[q] = DOMAIN Rest,
           \A q \in Busy' : /\ q \in Busy
                            /\ frame'[q].key = frame[q].key /\ frame'[q].path = frame[q].path,
           Cached' \subseteq Cached,
           cache' = [k \in Cached' |-> cache[k]]
    PROVE  FramesOK' /\ NamesOK'
<1>1. \A k \in Cached' : k \in Cached /\ cache'[k] = cache[k]
    OBVIOUS
<1>2. IsFiniteSet(Cached')
    BY Fewer DEF FramesOK
<1>3. FramesOK'
    BY <1>1, <1>2 DEF FramesOK, Keys, Ids
<1>4. \A i, p : Names(i, p) => Names(i, p)'
    BY DEF Names, catalogue, Present
<1>5. NamesOK'
    BY <1>1, <1>4 DEF NamesOK
<1> QED
    BY <1>3, <1>5

(* What was within the limit stays so while files go, and come with a maker *)
(* that lists the cache later.                                              *)
LEMMA StillPruned ==
    ASSUME FramesOK, PruningOK, newest' = newest, short' \in BOOLEAN, short => short',
           \A q \in Threads : frame'[q].step = "sort" =>
                frame[q].step = "sort" /\ frame'[q].listed = frame[q].listed,
           \A q \in newest : ~short' /\ frame[q].step = "sort" => frame'[q].step = "sort",
           ~short' => (Cached \ (Unlisted \cup Going))' \subseteq Cached \ (Unlisted \cup Going)
    PROVE  PruningOK'
<1>1. ASSUME Cap # 0, ~short', NEW r \in newest, frame'[r].step = "sort"
      PROVE  (Cached \ Unlisted)' \subseteq frame'[r].listed
    <2>1. /\ frame[r].step = "sort" /\ frame'[r].listed = frame[r].listed
          /\ \A q \in newest : q = r
        BY <1>1 DEF PruningOK
    <2>2. Going' = {}
        BY <1>1, <2>1 DEF Going
    <2>3. Cached \ Unlisted \subseteq frame[r].listed
        BY <1>1, <2>1 DEF PruningOK
    <2> QED
        BY <1>1, <2>1, <2>2, <2>3
<1>2. ASSUME Cap # 0, ~short', \A r \in newest : frame'[r].step # "sort"
      PROVE  Cardinality((Cached \ (Unlisted \cup Going))') <= Cap
    <2> DEFINE before == Cached \ (Unlisted \cup Going)
    <2>1. \A r \in newest : frame[r].step # "sort"
        BY <1>2
    <2>2. Cardinality(before) <= Cap
        BY <1>2, <2>1 DEF PruningOK
    <2>3. IsFiniteSet(before)
        BY Fewer DEF FramesOK
    <2>4. before' \subseteq before
        BY <1>2
    <2> HIDE DEF before
    <2>5. /\ Cardinality(before') \in Nat /\ Cardinality(before) \in Nat
          /\ Cardinality(before') <= Cardinality(before)
        BY <2>3, <2>4, Fewer
    <2>6. Cardinality(before') <= Cap
        BY <2>2, <2>5, CapIsNatural
    <2> QED
        BY <2>6 DEF before
<1> QED
    BY <1>1, <1>2 DEF PruningOK

(* Requests that do not prune.                                              *)
LEMMA Aside ==
    ASSUME FramesOK, PruningOK, UNCHANGED <<cache, newest, short>>, NEW r \in Threads,
           frame[r].step \notin {"list", "sort", "unlink"},
           frame'[r].step \notin {"list", "sort", "unlink"},
           \A q \in Threads \ {r} : frame'[q] = frame[q]
    PROVE  PruningOK'
<1>1. Unlisted' = Unlisted
    BY DEF Unlisted, Keys, Ids
<1>2. Going' = Going
    BY DEF Going, Keys, Ids, PruningOK
<1>3. Cached' = Cached
    BY DEF Cached
<1>4. short' \in BOOLEAN /\ (short => short')
    BY DEF PruningOK
<1>5. \A q \in Threads : frame'[q].step = "sort" <=> frame[q].step = "sort"
    OBVIOUS
<1>6. \A q \in Threads : frame'[q].step = "sort" => frame'[q].listed = frame[q].listed
    OBVIOUS
<1> QED
    BY <1>1, <1>2, <1>3, <1>4, <1>5, <1>6, StillPruned DEF PruningOK

(* Only the frame of r changes, and no file is made.                        *)
LEMMA OneMoves ==
    ASSUME ThumbsOK, UNCHANGED catalogue, NEW r \in Threads, r \in Busy,
           DOMAIN frame' = Threads,
           \A q \in Threads \ {r} : frame'[q] = frame[q],
           DOMAIN frame'[r] = DOMAIN Rest,
           frame'[r].step # "idle" => /\ frame'[r].key = frame[r].key
                                      /\ frame'[r].path = frame[r].path,
           Cached' \subseteq Cached,
           cache' = [k \in Cached' |-> cache[k]],
           PruningOK'
    PROVE  ThumbsOK'
<1>1. FramesOK' /\ NamesOK'
    <2>1. \A q \in Busy' : /\ q \in Busy
                           /\ frame'[q].key = frame[q].key /\ frame'[q].path = frame[q].path
        BY DEF Busy
    <2>2. \A q \in Threads : DOMAIN frame'[q] = DOMAIN Rest
        BY DEF ThumbsOK, FramesOK
    <2> QED
        BY <2>1, <2>2, NothingNew DEF ThumbsOK
<1> QED
    BY <1>1 DEF ThumbsOK

(* What an EXCEPT leaves of the frames.                                     *)
LEMMA Framed ==
    ASSUME FramesOK, NEW r \in Threads, NEW f, DOMAIN f = DOMAIN Rest,
           frame' = [frame EXCEPT ![r] = f]
    PROVE  /\ DOMAIN frame' = Threads /\ frame'[r] = f
           /\ \A q \in Threads \ {r} : frame'[q] = frame[q]
           /\ \A q \in Threads : DOMAIN frame'[q] = DOMAIN Rest
BY DEF FramesOK

LEMMA CacheLeft ==
    ASSUME FramesOK, UNCHANGED cache
    PROVE  Cached' \subseteq Cached /\ cache' = [k \in Cached' |-> cache[k]]
BY DEF FramesOK, Cached

(* A request goes on, and keeps what it has.                                *)
LEMMA GoesOn ==
    ASSUME ThumbsOK, UNCHANGED catalogue, UNCHANGED cache, NEW r \in Threads, r \in Busy,
           NEW step, Goes(r, step), PruningOK'
    PROVE  ThumbsOK'
<1> DEFINE f == [frame[r] EXCEPT !.step = step]
<1>1. /\ DOMAIN f = DOMAIN Rest /\ frame' = [frame EXCEPT ![r] = f]
      /\ f.step = step /\ f.key = frame[r].key /\ f.path = frame[r].path
    BY DEF Goes, ThumbsOK, FramesOK, Rest
<1> HIDE DEF f
<1>2. /\ DOMAIN frame' = Threads /\ frame'[r] = f
      /\ \A q \in Threads \ {r} : frame'[q] = frame[q]
    BY <1>1, Framed DEF ThumbsOK
<1> QED
    BY <1>1, <1>2, OneMoves, CacheLeft DEF ThumbsOK

(* A request is over.                                                       *)
LEMMA Rests ==
    ASSUME ThumbsOK, UNCHANGED catalogue, UNCHANGED <<cache, newest, short>>,
           NEW r \in Threads, r \in Busy,
           frame[r].step \notin {"list", "sort", "unlink"},
           frame' = [frame EXCEPT ![r] = Rest]
    PROVE  ThumbsOK'
<1>1. /\ DOMAIN frame' = Threads /\ frame'[r] = Rest
      /\ \A q \in Threads \ {r} : frame'[q] = frame[q]
    BY Framed DEF ThumbsOK
<1>2. DOMAIN frame'[r] = DOMAIN Rest /\ frame'[r].step = "idle"
    BY <1>1 DEF Rest
<1>3. PruningOK'
    BY <1>1, <1>2, Aside DEF ThumbsOK
<1>4. Cached' \subseteq Cached /\ cache' = [k \in Cached' |-> cache[k]]
    BY CacheLeft DEF ThumbsOK
<1> QED
    BY <1>1, <1>2, <1>3, <1>4, OneMoves

LEMMA AskThumbStep ==
    ASSUME CatalogueOK, ThumbsOK, UNCHANGED catalogue,
           NEW r \in Threads, NEW i \in Ids, NEW side \in Sides, AskThumb(r, i, side)
    PROVE  ThumbsOK'
<1> DEFINE f == [Rest EXCEPT !.step = "look", !.key = <<i, side>>, !.path = rows[i].path]
<1>1. /\ DOMAIN f = DOMAIN Rest /\ f.step = "look"
      /\ f.key = <<i, side>> /\ f.path = rows[i].path
    BY DEF Rest
<1>2. frame' = [frame EXCEPT ![r] = f] /\ cache' = cache /\ i \in Present
    BY DEF AskThumb
<1> HIDE DEF f
<1>3. /\ DOMAIN frame' = Threads /\ frame'[r] = f
      /\ \A q \in Threads \ {r} : frame'[q] = frame[q]
      /\ \A q \in Threads : DOMAIN frame'[q] = DOMAIN Rest
    BY <1>1, <1>2, Framed DEF ThumbsOK
<1>4. f.key \in Keys /\ f.key[1] = i /\ Names(i, f.path)
    BY <1>1, <1>2 DEF Keys, Names, CatalogueOK
<1>5. \A q \in Busy' : q = r \/ q \in Busy
    BY <1>3 DEF Busy
<1>6. UNCHANGED <<Cached, Present>> /\ \A j, p : Names(j, p)' <=> Names(j, p)
    BY <1>2 DEF Cached, catalogue, Present, Names
<1>7. FramesOK'
    BY <1>2, <1>3, <1>4, <1>5, <1>6 DEF ThumbsOK, FramesOK, Keys, Ids
<1>8. \A p : Names(i, p) => p = rows[i].path
    BY <1>2 DEF Names
<1>9. NamesOK'
    <2>1. \A k \in Cached' : Names(k[1], cache[k])'
        BY <1>2, <1>6 DEF ThumbsOK, NamesOK
    <2>2. \A q \in Busy' : Names(frame[q].key[1], frame[q].path)'
        <3> SUFFICES ASSUME NEW q \in Busy' PROVE Names(frame[q].key[1], frame[q].path)'
            OBVIOUS
        <3>1. CASE q = r
            BY <1>3, <1>4, <1>6, <3>1
        <3>2. CASE q # r
            <4>1. frame'[q] = frame[q] /\ q \in Busy
                BY <1>3, <1>5, <3>2 DEF Busy
            <4> QED
                BY <1>6, <4>1 DEF ThumbsOK, NamesOK
        <3> QED
            BY <3>1, <3>2
    <2>3. ASSUME NEW q \in Busy', NEW k \in Cached', k[1] = frame'[q].key[1]
          PROVE  cache'[k] = frame'[q].path
        <3>1. CASE q = r
            <4>1. Names(i, cache[k])
                BY <1>3, <1>4, <1>6, <2>3, <3>1 DEF ThumbsOK, NamesOK
            <4> QED
                BY <1>1, <1>2, <1>3, <1>8, <3>1, <4>1
        <3>2. CASE q # r
            BY <1>2, <1>3, <1>5, <1>6, <2>3, <3>2 DEF ThumbsOK, NamesOK, Busy
        <3> QED
            BY <3>1, <3>2
    <2>4. ASSUME NEW q \in Busy', q # r, frame'[q].key[1] = i
          PROVE  frame'[q].path = f.path
        <3>1. frame'[q] = frame[q] /\ q \in Busy
            BY <1>3, <1>5, <2>4 DEF Busy
        <3> QED
            BY <1>1, <1>8, <2>4, <3>1 DEF ThumbsOK, NamesOK
    <2>5. ASSUME NEW q \in Busy', NEW s \in Busy', frame'[q].key[1] = frame'[s].key[1]
          PROVE  frame'[q].path = frame'[s].path
        <3>1. CASE q = r \/ s = r
            BY <1>3, <1>4, <2>4, <2>5, <3>1
        <3>2. CASE q # r /\ s # r
            BY <1>3, <1>5, <2>5, <3>2 DEF ThumbsOK, NamesOK, Busy
        <3> QED
            BY <3>1, <3>2
    <2> QED
        BY <2>1, <2>2, <2>3, <2>5 DEF NamesOK
<1>10. PruningOK'
    <2>1. /\ frame[r].step = "idle" /\ frame'[r].step = "look"
          /\ UNCHANGED <<cache, newest, short>>
        BY <1>1, <1>2, <1>3 DEF AskThumb, pruned
    <2> QED
        BY <1>3, <2>1, Aside DEF ThumbsOK
<1> QED
    BY <1>7, <1>9, <1>10 DEF ThumbsOK

LEMMA MakeStep ==
    ASSUME ThumbsOK, UNCHANGED catalogue, NEW r \in Threads, Make(r)
    PROVE  ThumbsOK'
<1> DEFINE key == frame[r].key
           path == frame[r].path
<1>1. /\ cache' = [k \in Cached \cup {key} |-> IF k = key THEN path ELSE cache[k]]
      /\ frame' = [frame EXCEPT ![r] = [frame[r] EXCEPT !.step = "list"]]
      /\ r \in Busy /\ key \in Keys /\ frame[r].step = "make"
      /\ newest' = newest /\ short' = short
    BY DEF Make, Goes, Busy, ThumbsOK, FramesOK, pruned
<1>2. /\ Cached' = Cached \cup {key} /\ cache'[key] = path
      /\ \A k \in Cached \ {key} : cache'[k] = cache[k]
      /\ cache' = [k \in Cached' |-> cache'[k]]
    BY <1>1 DEF Cached
<1>3. ASSUME NEW q \in Threads
      PROVE  /\ DOMAIN frame'[q] = DOMAIN Rest
             /\ frame'[q].key = frame[q].key /\ frame'[q].path = frame[q].path
             /\ frame'[q].listed = frame[q].listed
             /\ frame'[q].step = IF q = r THEN "list" ELSE frame[q].step
    <2>1. DOMAIN frame[q] = {"step", "key", "path", "listed"} /\ DOMAIN frame = Threads
        BY DEF ThumbsOK, FramesOK, Rest
    <2> QED
        BY <1>1, <2>1 DEF Rest
<1>4. DOMAIN frame' = Threads
    BY <1>1 DEF ThumbsOK, FramesOK
<1> HIDE DEF key, path
<1>5. Busy' = Busy
    BY <1>1, <1>3 DEF Busy
<1>6. FramesOK'
    <2>1. IsFiniteSet(Cached') /\ Cached' \subseteq Keys
        BY <1>1, <1>2, FS_AddElement DEF ThumbsOK, FramesOK
    <2>2. \A q \in Busy' : frame'[q].key \in Keys
        BY <1>3, <1>5 DEF Busy, ThumbsOK, FramesOK
    <2> QED
        BY <1>2, <1>3, <1>4, <2>1, <2>2 DEF FramesOK, Keys, Ids
<1>7. \A i, p : Names(i, p)' <=> Names(i, p)
    BY DEF Names, catalogue, Present
<1>8. \A q \in Busy : q \in Threads
    BY DEF Busy
<1>9. NamesOK'
    <2>1. ASSUME NEW k \in Cached' PROVE Names(k[1], cache[k])'
        <3>1. CASE k = key
            BY <1>1, <1>2, <1>7, <3>1 DEF ThumbsOK, NamesOK, key, path
        <3>2. CASE k # key
            BY <1>2, <1>7, <3>2 DEF ThumbsOK, NamesOK
        <3> QED
            BY <3>1, <3>2
    <2>2. ASSUME NEW q \in Busy' PROVE Names(frame[q].key[1], frame[q].path)'
        BY <1>3, <1>5, <1>7, <1>8 DEF ThumbsOK, NamesOK
    <2>3. ASSUME NEW q \in Busy', NEW k \in Cached', k[1] = frame'[q].key[1]
          PROVE  cache'[k] = frame'[q].path
        <3>1. q \in Busy /\ frame'[q].key = frame[q].key /\ frame'[q].path = frame[q].path
            BY <1>3, <1>5, <1>8
        <3>2. CASE k = key
            BY <1>1, <1>2, <2>3, <3>1, <3>2 DEF ThumbsOK, NamesOK, key, path
        <3>3. CASE k # key
            BY <1>2, <2>3, <3>1, <3>3 DEF ThumbsOK, NamesOK
        <3> QED
            BY <3>2, <3>3
    <2>4. \A q, s \in Busy' : frame'[q].key[1] = frame'[s].key[1]
                                => frame'[q].path = frame'[s].path
        BY <1>3, <1>5, <1>8 DEF ThumbsOK, NamesOK
    <2> QED
        BY <2>1, <2>2, <2>3, <2>4 DEF NamesOK
<1>10. PruningOK'
    <2>1. Unlisted' = Unlisted \cup {key}
        <3>1. Keys' = Keys
            BY DEF Keys, Ids
        <3>2. frame'[r].step = "list" /\ frame'[r].key = key
            BY <1>3 DEF key
        <3> QED
            BY <1>1, <1>3, <3>1, <3>2 DEF Unlisted
    <2>2. Going' = Going
        BY <1>1, <1>3 DEF Going, Keys, Ids, ThumbsOK, PruningOK
    <2>3. (Cached \ (Unlisted \cup Going))' \subseteq Cached \ (Unlisted \cup Going)
        BY <1>2, <2>1, <2>2
    <2> QED
        BY <1>1, <1>3, <2>3, StillPruned DEF ThumbsOK, PruningOK
<1> QED
    BY <1>6, <1>9, <1>10 DEF ThumbsOK

(* Whoever lists last sees every file.                                      *)
LEMMA ListStep ==
    ASSUME ThumbsOK, UNCHANGED catalogue, NEW r \in Threads, List(r)
    PROVE  ThumbsOK'
<1>1. /\ r \in Busy /\ cache' = cache /\ newest' = {r} /\ short' = FALSE
      /\ IsFiniteSet(Cached) /\ Cached' = Cached
    BY DEF List, Busy, ThumbsOK, FramesOK, Cached
<1>2. CASE Goes(r, "open") /\ (Cap # 0 => Cardinality(Cached) <= Cap)
    <2>1. /\ frame'[r].step = "open"
          /\ \A q \in Threads \ {r} : frame'[q] = frame[q]
        BY <1>2 DEF Goes, ThumbsOK, FramesOK, Rest
    <2> DEFINE over == Cached \ (Unlisted \cup Going)'
    <2>2. /\ Cardinality(over) \in Nat /\ Cardinality(Cached) \in Nat
          /\ Cardinality(over) <= Cardinality(Cached)
        BY <1>1, Fewer
    <2> HIDE DEF over
    <2>3. Cap # 0 => Cardinality(over) <= Cap
        BY <1>2, <2>2, CapIsNatural
    <2>4. PruningOK'
        BY <1>1, <2>1, <2>3 DEF ThumbsOK, PruningOK, over
    <2> QED
        BY <1>1, <1>2, <2>4, GoesOn
<1>3. CASE frame' = [frame EXCEPT ![r].step = "sort", ![r].listed = Cached]
    <2> DEFINE f == [frame[r] EXCEPT !.step = "sort", !.listed = Cached]
    <2>1. /\ DOMAIN f = DOMAIN Rest /\ frame' = [frame EXCEPT ![r] = f]
          /\ f.key = frame[r].key /\ f.path = frame[r].path
          /\ f.step = "sort" /\ f.listed = Cached
        BY <1>3 DEF ThumbsOK, FramesOK, Rest
    <2> HIDE DEF f
    <2>2. /\ DOMAIN frame' = Threads /\ frame'[r] = f
          /\ \A q \in Threads \ {r} : frame'[q] = frame[q]
        BY <2>1, Framed DEF ThumbsOK
    <2>3. PruningOK'
        BY <1>1, <2>1, <2>2 DEF ThumbsOK, PruningOK
    <2>4. Cached' \subseteq Cached /\ cache' = [k \in Cached' |-> cache[k]]
        BY <1>1, CacheLeft DEF ThumbsOK
    <2> QED
        BY <1>1, <2>1, <2>2, <2>3, <2>4, OneMoves
<1> QED
    BY <1>2, <1>3, CapIsNatural DEF List, ThumbsOK, FramesOK

(* Oldest files as many as there are too many, and the limit remains.       *)
LEMMA ExcessGone ==
    ASSUME NEW listed, IsFiniteSet(listed),
           NEW oldest \in kSubset(Excess(listed), listed)
    PROVE  Cardinality(listed \ oldest) = Cap
<1>1. oldest \subseteq listed /\ Cardinality(oldest) = Cardinality(listed) - Cap
    BY Chosen DEF Excess
<1>2. listed \cap oldest = oldest /\ Cardinality(listed) \in Nat
    BY <1>1, FS_CardinalityType
<1>3. Cardinality(listed \ oldest) = Cardinality(listed) - Cardinality(oldest)
    BY <1>2, FS_Difference
<1> DEFINE all == Cardinality(listed)
           old == Cardinality(oldest)
<1>4. all - old = Cap
    <2>1. all \in Nat /\ old = all - Cap
        BY <1>1, <1>2
    <2> HIDE DEF all, old
    <2> QED
        BY <2>1, CapIsNatural
<1> QED
    BY <1>3, <1>4

LEMMA SortStep ==
    ASSUME ThumbsOK, UNCHANGED catalogue, NEW r \in Threads, Sort(r)
    PROVE  ThumbsOK'
<1>1. /\ r \in Busy /\ cache' = cache /\ frame[r].step = "sort" /\ newest' = newest
      /\ Cached' \subseteq Cached /\ cache' = [k \in Cached' |-> cache[k]]
    BY CacheLeft DEF Sort, Busy, ThumbsOK
<1>2. ASSUME NEW step \in {"open", "unlink"}, NEW listed,
             frame' = [frame EXCEPT ![r].step = step, ![r].listed = listed]
      PROVE  /\ DOMAIN frame' = Threads /\ DOMAIN frame'[r] = DOMAIN Rest
             /\ frame'[r].key = frame[r].key /\ frame'[r].path = frame[r].path
             /\ frame'[r].step = step /\ frame'[r].listed = listed
             /\ \A q \in Threads \ {r} : frame'[q] = frame[q]
             /\ Unlisted' = Unlisted
             /\ r \notin newest => Going' = Going
    <2>1. /\ DOMAIN frame' = Threads /\ DOMAIN frame'[r] = DOMAIN Rest
          /\ frame'[r].key = frame[r].key /\ frame'[r].path = frame[r].path
          /\ frame'[r].step = step /\ frame'[r].listed = listed
          /\ \A q \in Threads \ {r} : frame'[q] = frame[q]
        BY <1>2 DEF ThumbsOK, FramesOK, Rest
    <2>2. Unlisted' = Unlisted
        BY <1>1, <1>2, <2>1 DEF Unlisted, Keys, Ids
    <2>3. r \notin newest => Going' = Going
        BY <1>1, <2>1 DEF Going, Keys, Ids, ThumbsOK, PruningOK
    <2> QED
        BY <2>1, <2>2, <2>3
<1>3. ASSUME frame' = [frame EXCEPT ![r].step = "open", ![r].listed = {}],
             short' = (short \/ r \in newest)
      PROVE  ThumbsOK'
    <2>1. short' \in BOOLEAN /\ (short => short') /\ (~short' => r \notin newest)
        BY <1>3 DEF ThumbsOK, PruningOK
    <2>2. /\ frame'[r].step = "open" /\ Unlisted' = Unlisted /\ Cached' = Cached
          /\ r \notin newest => Going' = Going
          /\ \A q \in Threads \ {r} : frame'[q] = frame[q]
        BY <1>1, <1>2, <1>3 DEF Cached
    <2>3. ~short' => (Cached \ (Unlisted \cup Going))' \subseteq Cached \ (Unlisted \cup Going)
        BY <2>1, <2>2
    <2>4. PruningOK'
        BY <1>1, <2>1, <2>2, <2>3, StillPruned DEF ThumbsOK, PruningOK
    <2> QED
        BY <1>1, <1>2, <1>3, <2>4, OneMoves
<1>4. ASSUME NEW oldest \in kSubset(Excess(frame[r].listed), frame[r].listed),
             frame' = [frame EXCEPT ![r].step = "unlink", ![r].listed = oldest],
             short' = short
      PROVE  ThumbsOK'
    <2>1. CASE r \notin newest
        <3>1. PruningOK'
            BY <1>1, <1>2, <1>4, <2>1, StillPruned DEF ThumbsOK, PruningOK, Cached
        <3> QED
            BY <1>1, <1>2, <1>4, <3>1, OneMoves
    <2>2. CASE r \in newest
        <3>1. IsFiniteSet(frame[r].listed) /\ \A q \in newest : q = r
            BY <1>1, <2>2 DEF ThumbsOK, PruningOK
        <3>2. Cardinality(frame[r].listed \ oldest) = Cap /\ IsFiniteSet(frame[r].listed \ oldest)
            BY <3>1, ExcessGone, Fewer
        <3> DEFINE over == Cached \ (Unlisted \cup oldest)
        <3>3. Cap # 0 /\ ~short => Cardinality(over) <= Cap
            <4> SUFFICES ASSUME Cap # 0, ~short PROVE Cardinality(over) <= Cap
                OBVIOUS
            <4>1. over \subseteq frame[r].listed \ oldest
                BY <1>1, <2>2 DEF ThumbsOK, PruningOK
            <4> QED
                BY <3>2, <4>1, Fewer
        <3>4. /\ frame'[r].step = "unlink" /\ frame'[r].listed = oldest /\ Unlisted' = Unlisted
              /\ \A q \in Threads \ {r} : frame'[q] = frame[q]
            BY <1>2, <1>4
        <3>5. Cached' \ (Unlisted \cup Going)' \subseteq over /\ Cached' = Cached
            <4>1. Cached \subseteq Keys /\ Keys' = Keys
                BY DEF ThumbsOK, FramesOK, Keys, Ids
            <4>2. Going' = {k \in Keys : k \in oldest}
                BY <1>1, <2>2, <3>1, <3>4, <4>1 DEF Going
            <4> QED
                BY <1>1, <3>4, <4>1, <4>2 DEF Cached
        <3>6. IsFiniteSet(over)
            BY Fewer DEF ThumbsOK, FramesOK
        <3>7. Cap # 0 /\ ~short' => Cardinality((Cached \ (Unlisted \cup Going))') <= Cap
            <4> DEFINE after == (Cached \ (Unlisted \cup Going))'
            <4>1. /\ Cardinality(after) \in Nat /\ Cardinality(over) \in Nat
                  /\ Cardinality(after) <= Cardinality(over)
                BY <3>5, <3>6, Fewer
            <4> HIDE DEF after, over
            <4>2. Cap # 0 /\ ~short' => Cardinality(after) <= Cap
                BY <1>4, <3>3, <4>1, CapIsNatural
            <4> QED
                BY <4>2 DEF after
        <3>8. PruningOK'
            BY <1>1, <1>4, <2>2, <3>1, <3>4, <3>7 DEF ThumbsOK, PruningOK
        <3> QED
            BY <1>1, <1>2, <1>4, <3>8, OneMoves
    <2> QED
        BY <2>1, <2>2
<1> QED
    BY <1>3, <1>4 DEF Sort

LEMMA UnlinkStep ==
    ASSUME ThumbsOK, UNCHANGED catalogue, NEW r \in Threads, NEW k \in Keys,
           Unlink(r, k) \/ UnlinkFails(r, k)
    PROVE  ThumbsOK'
<1> DEFINE left == frame[r].listed \ {k}
           f == [frame[r] EXCEPT !.listed = left,
                                 !.step = IF left = {} THEN "open" ELSE @]
<1>1. /\ r \in Busy /\ frame[r].step = "unlink" /\ k \in frame[r].listed
      /\ newest' = newest
    BY DEF Unlink, UnlinkFails, Unlinked, Busy
<1>2. Cached' \subseteq Cached /\ cache' = [j \in Cached' |-> cache[j]]
    <2>1. CASE Unlink(r, k)
        BY <2>1 DEF Unlink, Restrict, Cached
    <2>2. CASE UnlinkFails(r, k)
        BY <2>2, CacheLeft DEF UnlinkFails, ThumbsOK
    <2> QED
        BY <2>1, <2>2
<1>3. /\ DOMAIN f = DOMAIN Rest /\ frame' = [frame EXCEPT ![r] = f]
      /\ f.key = frame[r].key /\ f.path = frame[r].path /\ f.listed = left
      /\ f.step = IF left = {} THEN "open" ELSE "unlink"
    BY <1>1 DEF Unlink, UnlinkFails, Unlinked, ThumbsOK, FramesOK, Rest
<1> HIDE DEF f
<1>4. /\ DOMAIN frame' = Threads /\ frame'[r] = f
      /\ \A q \in Threads \ {r} : frame'[q] = frame[q]
    BY <1>3, Framed DEF ThumbsOK
<1>5. Unlisted' = Unlisted /\ Keys' = Keys
    BY <1>1, <1>3, <1>4 DEF Unlisted, Keys, Ids
<1>6. /\ short' \in BOOLEAN /\ (short => short')
      /\ ~short' /\ r \in newest => k \notin Cached'
    <2>1. CASE Unlink(r, k)
        BY <2>1 DEF Unlink, Restrict, Cached, ThumbsOK, PruningOK
    <2>2. CASE UnlinkFails(r, k)
        BY <2>2 DEF UnlinkFails, ThumbsOK, PruningOK
    <2> QED
        BY <2>1, <2>2
<1>7. IF r \in newest THEN Going \ {k} \subseteq Going' ELSE Going' = Going
    <2>1. CASE r \in newest
        <3>1. \A q \in newest : q = r
            BY <2>1 DEF ThumbsOK, PruningOK
        <3>2. \A j \in frame[r].listed \ {k} : j \in f.listed /\ f.step = "unlink"
            BY <1>3
        <3> QED
            BY <1>1, <1>4, <1>5, <2>1, <3>1, <3>2 DEF Going
    <2>2. CASE r \notin newest
        BY <1>1, <1>4, <1>5, <2>2 DEF Going, ThumbsOK, PruningOK
    <2> QED
        BY <2>1, <2>2
<1>8. ~short' => (Cached \ (Unlisted \cup Going))' \subseteq Cached \ (Unlisted \cup Going)
    BY <1>2, <1>5, <1>6, <1>7
<1>9. \A q \in Threads : frame'[q].step = "sort" <=> frame[q].step = "sort"
    BY <1>1, <1>3, <1>4
<1>10. \A q \in Threads : frame'[q].step = "sort" => frame'[q].listed = frame[q].listed
    BY <1>1, <1>3, <1>4
<1>11. PruningOK'
    BY <1>1, <1>6, <1>8, <1>9, <1>10, StillPruned DEF ThumbsOK, PruningOK
<1> QED
    BY <1>1, <1>2, <1>3, <1>4, <1>11, OneMoves

LEMMA RestartStep ==
    ASSUME ThumbsOK, UNCHANGED catalogue, Restart
    PROVE  ThumbsOK'
<1>1. /\ frame' = [r \in Threads |-> Rest] /\ Rest.step = "idle"
      /\ newest' = {} /\ Busy' = {}
    BY DEF Restart, Rest, Busy
<1>2. IsFiniteSet(Cached)
    BY DEF ThumbsOK, FramesOK
<1>3. ASSUME Cached' \subseteq Cached, short' \in BOOLEAN,
             cache' = [k \in Cached' |-> cache[k]],
             Cap # 0 /\ ~short' => Cardinality(Cached') <= Cap
      PROVE  ThumbsOK'
    <2>1. FramesOK' /\ NamesOK'
        BY <1>1, <1>3, NothingNew DEF ThumbsOK
    <2>2. Unlisted' = {} /\ Going' = {}
        BY <1>1 DEF Unlisted, Going
    <2>3. PruningOK'
        BY <1>1, <1>3, <2>2 DEF PruningOK
    <2> QED
        BY <2>1, <2>3 DEF ThumbsOK
<1>4. CASE Cap = 0 \/ Cardinality(Cached) <= Cap
    <2>1. short' = FALSE /\ cache' = cache
        BY <1>4 DEF Restart
    <2>2. Cached' = Cached /\ cache' = [k \in Cached' |-> cache[k]]
        BY <2>1 DEF Cached, ThumbsOK, FramesOK
    <2> QED
        BY <1>3, <1>4, <2>1, <2>2
<1>5. CASE ~(Cap = 0 \/ Cardinality(Cached) <= Cap)
    <2>1. PICK oldest \in kSubset(Excess(Cached), Cached) : \E failed \in SUBSET oldest :
            /\ cache' = Restrict(cache, Cached \ (oldest \ failed))
            /\ short' = (failed # {})
        BY <1>5 DEF Restart
    <2>2. PICK failed \in SUBSET oldest :
            /\ cache' = Restrict(cache, Cached \ (oldest \ failed))
            /\ short' = (failed # {})
        BY <2>1
    <2>3. /\ Cached' = Cached \ (oldest \ failed)
          /\ cache' = [k \in Cached' |-> cache[k]]
        BY <2>2 DEF Restrict, Cached
    <2>4. Cardinality(Cached \ oldest) = Cap
        BY <1>2, ExcessGone
    <2>5. ~short' => Cardinality(Cached') <= Cap
        <3> SUFFICES ASSUME failed = {} PROVE Cardinality(Cached') <= Cap
            BY <2>2
        <3>1. Cached' = Cached \ oldest
            BY <2>3
        <3> QED
            BY <2>4, <3>1, CapIsNatural
    <2> QED
        BY <1>3, <2>2, <2>3, <2>5
<1> QED
    BY <1>4, <1>5

LEMMA ThumbnailsSteps ==
    ASSUME CatalogueOK, ThumbsOK, UNCHANGED catalogue, ThumbnailsNext
    PROVE  ThumbsOK'
<1>1. ASSUME NEW r \in Threads, Look(r) PROVE ThumbsOK'
    <2>1. /\ frame[r].step = "look" /\ frame'[r].step \in {"open", "make"} /\ r \in Busy
          /\ UNCHANGED <<cache, newest, short>>
          /\ \A q \in Threads \ {r} : frame'[q] = frame[q]
        BY <1>1 DEF Look, Goes, Busy, pruned, ThumbsOK, FramesOK, Rest
    <2>2. PruningOK'
        BY <2>1, Aside DEF ThumbsOK
    <2> QED
        BY <1>1, <2>1, <2>2, GoesOn DEF Look
<1>2. ASSUME NEW r \in Threads, MakeFails(r) PROVE ThumbsOK'
    BY <1>2, Rests DEF MakeFails, Busy, pruned
<1>3. ASSUME NEW r \in Threads, Open(r) PROVE ThumbsOK'
    BY <1>3, Rests DEF Open, Busy, pruned
<1> QED
    BY <1>1, <1>2, <1>3, AskThumbStep, MakeStep, ListStep, SortStep, UnlinkStep, RestartStep
       DEF ThumbnailsNext, Serve

-----------------------------------------------------------------------------
(* Walks *)

(* Stamps and ids order the rows in a line, in either direction.            *)
LEMMA BeforeIsLinear ==
    ASSUME NEW x \in Int \X Int, NEW y \in Int \X Int, NEW z \in Int \X Int
    PROVE  /\ Before(x, y) => ~Before(y, x)
           /\ Before(x, y) /\ Before(y, z) => Before(x, z)
           /\ x # y => Before(x, y) \/ Before(y, x)
BY DEF Before

LEMMA Positions ==
    ASSUME CatalogueOK, NEW i \in Present
    PROVE  /\ Position(i) \in Times \X Ids /\ Position(i) \in Int \X Int
           /\ Position(i) # NoCursor
           /\ \A j \in Present : Position(i) = Position(j) => i = j
<1>1. Position(i) \in Times \X Ids
    BY DEF CatalogueOK, Position
<1>2. Position(i) \in Int \X Int
    BY <1>1, TableBounds DEF Times, Ids
<1>3. Position(i) # NoCursor
    BY DEF Position, NoCursor
<1>4. \A j \in Present : Position(i) = Position(j) => i = j
    BY DEF Position
<1> QED
    BY <1>1, <1>2, <1>3, <1>4

LEMMA Cursors ==
    ASSUME WalkTyped, walk.cursor # NoCursor
    PROVE  walk.cursor \in Int \X Int
BY TableBounds DEF WalkTyped, Times, Ids

(* The query takes up exactly what the cursor has not passed.               *)
LEMMA CandidatesAreAhead ==
    Candidates = {i \in Present : ~Behind(i)}
BY DEF Candidates, Beyond, Behind

LEMMA StartWalkStep ==
    ASSUME WalkOK, UNCHANGED catalogue, NEW order, StartWalk(order), kind = "browse", kind' = kind
    PROVE  WalkOK'
<1>1. walk' = [NoWalk EXCEPT !.step = "count", !.order = order, !.steady = Present]
    BY DEF StartWalk
<1>2. /\ DOMAIN walk' = DOMAIN NoWalk /\ walk'.step = "count" /\ walk'.cursor = NoCursor
      /\ walk'.steady = Present /\ walk'.shown = {} /\ walk'.twice = {}
    BY <1>1 DEF NoWalk
<1>3. WalkTyped'
    BY <1>2 DEF WalkTyped, catalogue, Present, NoWalk, NoCursor, Times, Ids
<1>4. CountStands' /\ ShownIsBehind' /\ WalkShowsSteadyRows'
    BY <1>2 DEF CountStands, ShownIsBehind, Behind, WalkShowsSteadyRows, NoCursor
<1> QED
    BY <1>3, <1>4 DEF WalkOK

LEMMA CountRowsStep ==
    ASSUME WalkOK, UNCHANGED catalogue, CountRows, kind = "browse", kind' = kind
    PROVE  WalkOK'
<1>1. /\ walk.step = "count" /\ walk'.step = "select"
      /\ walk'.more = (Limit < Cardinality(Present))
      /\ DOMAIN walk' = DOMAIN NoWalk /\ walk'.cursor = walk.cursor
      /\ walk'.order = walk.order /\ walk'.steady = walk.steady
      /\ walk'.shown = walk.shown /\ walk'.twice = walk.twice
      /\ walk'.sorted = walk.sorted
    BY DEF CountRows, WalkOK, WalkTyped, NoWalk
<1>2. Present' = Present /\ \A i : Position(i)' = Position(i)
    BY DEF catalogue, Present, Position
<1>3. WalkTyped'
    BY <1>1, <1>2 DEF WalkOK, WalkTyped, NoWalk, NoCursor, Times, Ids
<1>4. CountStands' /\ WalkShowsSteadyRows'
    BY <1>1, <1>2 DEF CountStands, WalkOK, WalkShowsSteadyRows
<1>5. \A i : Behind(i)' <=> Behind(i)
    BY <1>1, <1>2 DEF Behind, Before, NoCursor
<1>6. ShownIsBehind => ShownIsBehind'
    BY <1>1, <1>5 DEF ShownIsBehind
<1> QED
    BY <1>1, <1>3, <1>4, <1>6 DEF WalkOK

(* A page that is not full holds all that the query could give.             *)
LEMMA ShortPage ==
    ASSUME CatalogueOK,
           NEW P \in kSubset(Min({Limit, Cardinality(Candidates)}), Candidates),
           \/ P = {}
           \/ Cardinality(P) # Limit
           \/ Cardinality(Candidates) <= Limit
    PROVE  P = Candidates
<1> DEFINE all == Cardinality(Candidates)
<1>1. IsFiniteSet(Candidates) /\ all \in Nat
    BY IdsAreFinite DEF Candidates, CatalogueOK
<1>2. P \subseteq Candidates /\ Cardinality(P) = IF Limit < all THEN Limit ELSE all
    <2>1. Min({Limit, all}) = IF Limit < all THEN Limit ELSE all
        BY <1>1, LimitIsPositive, MinOfTwo
    <2> QED
        BY <2>1, Chosen
<1>3. P = {} => Cardinality(P) = 0
    BY FS_EmptySet
<1>4. Cardinality(P) = all
    <2>1. Cardinality(P) = 0 \/ Cardinality(P) # Limit \/ all <= Limit
        BY <1>3
    <2> HIDE DEF all
    <2> QED
        BY <1>1, <1>2, <2>1, LimitIsPositive
<1> QED
    BY <1>1, <1>2, <1>4, FS_Subset

(* In the order of the index, the cursor passes exactly the rows of the page. *)
LEMMA CursorPassesPage ==
    ASSUME CatalogueOK, WalkTyped,
           NEW P \in Pages(FALSE), NEW j \in LastOf(P, FALSE), NEW i \in Present
    PROVE  ~Before(Position(j), Position(i)) <=> i \in P \/ Behind(i)
<1>1. /\ P \subseteq Candidates /\ j \in P /\ j \in Present
      /\ \A k \in P : ~Before(Position(j), Position(k))
      /\ \A k \in Candidates \ P : ~Before(Position(k), Position(j))
    BY Chosen DEF Pages, LastOf, Precedes, Candidates
<1>2. /\ Position(i) \in Int \X Int /\ Position(j) \in Int \X Int
      /\ Position(i) = Position(j) => i = j
    BY <1>1, Positions
<1>3. CASE i \in P
    BY <1>1, <1>3
<1>4. CASE i \in Candidates \ P
    <2>1. Before(Position(j), Position(i))
        BY <1>1, <1>2, <1>4, BeforeIsLinear
    <2> QED
        BY <1>4, <2>1, CandidatesAreAhead
<1>5. CASE i \notin Candidates
    <2>1. Behind(i) /\ walk.cursor # NoCursor /\ ~Before(walk.cursor, Position(i))
        BY <1>5, CandidatesAreAhead DEF Behind
    <2>2. Before(walk.cursor, Position(j))
        BY <1>1, <2>1 DEF Candidates, Beyond
    <2>3. walk.cursor \in Int \X Int
        BY <2>1, Cursors
    <2>4. ~Before(Position(j), Position(i))
        BY <1>2, <2>1, <2>2, <2>3, BeforeIsLinear
    <2> QED
        BY <2>1, <2>4
<1> QED
    BY <1>3, <1>4, <1>5

LEMMA SelectPageStep ==
    ASSUME CatalogueOK, WalkOK, UNCHANGED catalogue, NEW sorted \in BOOLEAN, SelectPage(sorted),
           kind = "browse", kind' = kind
    PROVE  WalkOK'
<1> DEFINE seen(P) == [walk EXCEPT !.shown = @ \cup P, !.twice = @ \cup (walk.shown \cap P),
                                   !.sorted = @ \/ sorted]
<1>1. PICK P \in Pages(sorted) :
        IF P = {} \/ ~HasMore(P)
        THEN walk' = [seen(P) EXCEPT !.step = "over"]
        ELSE \E j \in LastOf(P, sorted) :
                walk' = [seen(P) EXCEPT !.step = "count", !.cursor = Position(j)]
    BY DEF SelectPage
<1>2. walk.step = "select" /\ DOMAIN walk = DOMAIN NoWalk
    BY DEF SelectPage, WalkOK, WalkTyped
<1>3. /\ DOMAIN walk' = DOMAIN NoWalk
      /\ walk'.step \in {"over", "count"}
      /\ walk'.shown = walk.shown \cup P /\ walk'.twice = walk.twice \cup (walk.shown \cap P)
      /\ walk'.steady = walk.steady /\ walk'.order = walk.order /\ walk'.raced = walk.raced
      /\ walk'.sorted = (walk.sorted \/ sorted)
    BY <1>1, <1>2 DEF NoWalk
<1>4. walk'.step = "over" => (P = {} \/ ~HasMore(P)) /\ walk'.cursor = walk.cursor
    BY <1>1, <1>2 DEF NoWalk
<1>5. walk'.step = "count" => \E j \in LastOf(P, sorted) : walk'.cursor = Position(j)
    BY <1>1, <1>2 DEF NoWalk
<1>6. P \subseteq Candidates /\ P \subseteq Present
    BY Chosen DEF Pages, Candidates
<1>7. Present' = Present /\ \A i : Position(i)' = Position(i)
    BY DEF catalogue, Present, Position
<1>8. WalkTyped'
    <2>1. walk'.cursor = NoCursor \/ walk'.cursor \in Times \X Ids
        <3>1. CASE walk'.step = "over"
            BY <1>4, <3>1 DEF WalkOK, WalkTyped
        <3>2. CASE walk'.step = "count"
            BY <1>5, <1>6, <3>2, Positions DEF LastOf
        <3> QED
            BY <1>3, <3>1, <3>2
    <2> QED
        BY <1>3, <1>7, <2>1 DEF WalkOK, WalkTyped, NoWalk, NoCursor, Times, Ids
<1>9. CountStands'
    BY <1>3 DEF CountStands
<1>10. ASSUME ~walk'.sorted PROVE ShownIsBehind' /\ WalkShowsSteadyRows'
    <2>1. ~walk.sorted /\ ~sorted /\ P \in Pages(FALSE)
        BY <1>3, <1>10
    <2>2. /\ \A i \in walk.steady : i \in walk.shown <=> Behind(i)
          /\ walk.steady \subseteq Present /\ walk.twice \cap walk.steady = {}
        BY <1>2, <2>1 DEF WalkOK, WalkTyped, ShownIsBehind, WalkShowsSteadyRows
    <2>3. ShownIsBehind'
        <3> SUFFICES ASSUME walk'.step = "count", NEW i \in walk.steady
                     PROVE  i \in walk'.shown <=> Behind(i)'
            BY <1>3 DEF ShownIsBehind
        <3>1. PICK j \in LastOf(P, FALSE) : walk'.cursor = Position(j)
            BY <1>5, <2>1
        <3>2. walk'.cursor # NoCursor
            BY <1>6, <3>1, Positions DEF LastOf
        <3>3. Behind(i)' <=> ~Before(Position(j), Position(i))
            BY <1>3, <1>7, <3>1, <3>2 DEF Behind, Before, NoCursor
        <3>4. Behind(i)' <=> i \in P \/ Behind(i)
            BY <2>1, <2>2, <3>3, CursorPassesPage DEF WalkOK
        <3> QED
            BY <1>3, <2>2, <3>4
    <2>4. walk'.twice \cap walk'.steady = {}
        BY <1>3, <1>6, <2>2, CandidatesAreAhead
    <2>5. ASSUME walk'.step = "over", ~walk'.raced PROVE walk'.steady \subseteq walk'.shown
        <3>1. P \in kSubset(Min({Limit, Cardinality(Candidates)}), Candidates)
            BY <2>1 DEF Pages
        <3>2. P = {} \/ Cardinality(P) # Limit \/ Cardinality(Candidates) <= Limit
            <4>1. CASE P = {}
                BY <4>1
            <4>2. CASE ~HasMore(P) /\ walk.cursor # NoCursor
                BY <4>2 DEF HasMore
            <4>3. CASE ~HasMore(P) /\ walk.cursor = NoCursor
                <5>1. Candidates = Present
                    BY <4>3 DEF Candidates, Beyond
                <5>2. ~(Limit < Cardinality(Present))
                    BY <1>2, <1>3, <2>5, <4>3 DEF HasMore, WalkOK, CountStands
                <5>3. Cardinality(Present) \in Nat
                    BY IdsAreFinite DEF CatalogueOK
                <5> QED
                    BY <5>1, <5>2, <5>3, LimitIsPositive
            <4> QED
                BY <1>4, <2>5, <4>1, <4>2, <4>3
        <3>3. P = Candidates
            BY <3>1, <3>2, ShortPage
        <3> QED
            BY <1>3, <2>2, <3>3, CandidatesAreAhead
    <2> QED
        BY <2>3, <2>4, <2>5 DEF WalkShowsSteadyRows
<1>11. walk'.sorted => WalkShowsSteadyRows'
    BY DEF WalkShowsSteadyRows
<1> QED
    BY <1>8, <1>9, <1>10, <1>11 DEF WalkOK

(* A commit moves no steady row, for one that moves is steady no longer.    *)
LEMMA ObserveStep ==
    ASSUME CatalogueOK, WalkOK, Commit, Observe, kind = "browse", kind' = kind
    PROVE  WalkOK'
<1>1. /\ DOMAIN walk' = DOMAIN NoWalk /\ walk'.step = walk.step
      /\ walk'.cursor = walk.cursor /\ walk'.order = walk.order /\ walk'.more = walk.more
      /\ walk'.shown = walk.shown /\ walk'.twice = walk.twice
      /\ walk'.sorted = walk.sorted
      /\ walk'.steady = {i \in walk.steady \cap Present' : rows'[i] = rows[i]}
      /\ walk'.raced = (walk.raced \/ (walk.step = "select" /\ walk.cursor = NoCursor))
    BY DEF Observe, WalkOK, WalkTyped, NoWalk, Present
<1>2. WalkTyped'
    BY <1>1 DEF WalkOK, WalkTyped, NoWalk, NoCursor, Times, Ids
<1>3. CountStands'
    BY <1>1 DEF CountStands, NoCursor
<1>4. WalkShowsSteadyRows'
    BY <1>1 DEF WalkOK, WalkShowsSteadyRows
<1>5. ASSUME ~walk'.sorted PROVE ShownIsBehind'
    <2> SUFFICES ASSUME walk'.step \in {"count", "select"}, NEW i \in walk'.steady
                 PROVE  i \in walk'.shown <=> Behind(i)'
        BY DEF ShownIsBehind
    <2>1. i \in walk.steady /\ rows'[i] = rows[i]
        BY <1>1
    <2>2. Behind(i)' <=> Behind(i)
        BY <1>1, <2>1 DEF Behind, Before, Position, NoCursor
    <2> QED
        BY <1>1, <1>5, <2>1, <2>2 DEF WalkOK, ShownIsBehind
<1> QED
    BY <1>2, <1>3, <1>4, <1>5 DEF WalkOK

(* Nothing walks while requests of another kind are followed.               *)
LEMMA NobodyWalks ==
    ASSUME WalkOK, kind # "browse", walk' = walk, kind' = kind
    PROVE  WalkOK'
<1>1. walk' = NoWalk
    BY DEF WalkOK, WalkTyped
<1>2. /\ walk'.step = "rest" /\ walk'.cursor = NoCursor
      /\ walk'.steady = {} /\ walk'.twice = {}
    BY <1>1 DEF NoWalk
<1>3. WalkTyped'
    BY <1>1, <1>2 DEF WalkTyped, NoWalk, NoCursor, Times, Ids
<1>4. CountStands' /\ ShownIsBehind' /\ WalkShowsSteadyRows'
    BY <1>2 DEF CountStands, ShownIsBehind, WalkShowsSteadyRows
<1> QED
    BY <1>3, <1>4 DEF WalkOK

LEMMA WalkRests ==
    ASSUME WalkOK, UNCHANGED <<catalogue, walk, kind>>
    PROVE  WalkOK'
<1>1. Present' = Present /\ \A i : Behind(i)' <=> Behind(i)
    BY DEF catalogue, Present, Behind, Before, Position, NoCursor
<1>2. WalkTyped' /\ CountStands'
    BY <1>1 DEF WalkOK, WalkTyped, CountStands, NoWalk, NoCursor, Times, Ids
<1>3. (ShownIsBehind => ShownIsBehind') /\ WalkShowsSteadyRows'
    BY <1>1 DEF WalkOK, ShownIsBehind, WalkShowsSteadyRows
<1> QED
    BY <1>2, <1>3 DEF WalkOK

-----------------------------------------------------------------------------
(* Searches *)

LEMMA SearchRests ==
    ASSUME SearchOK, UNCHANGED <<index, query>>
    PROVE  SearchOK'
BY DEF SearchOK, NoQuery, Ids, Fetch

LEMMA PublishStep ==
    ASSUME SearchOK, NEW S \in SUBSET Ids, PublishIds(S)
    PROVE  SearchOK'
BY DEF PublishIds, SearchOK, NoQuery, Ids, Fetch

LEMMA AskSearchStep ==
    ASSUME SearchOK, NEW mode, AskSearch(mode)
    PROVE  SearchOK'
<1>1. /\ DOMAIN query' = DOMAIN NoQuery /\ query'.index = index /\ query'.top = {}
      /\ query'.step = IF index = {} THEN "read" ELSE "rank"
      /\ index' = index
    BY DEF AskSearch, NoQuery
<1>2. query'.step = "read" => Cardinality(query'.top) = Fetch(Cardinality(query'.index))
    <2>1. Cardinality({}) = 0
        BY FS_EmptySet
    <2>2. Fetch(0) = 0
        BY MinOfTwo, SearchCounts DEF Fetch
    <2> QED
        BY <1>1, <2>1, <2>2
<1> QED
    BY <1>1, <1>2 DEF SearchOK, NoQuery, Ids, Fetch

LEMMA RankStep ==
    ASSUME SearchOK, Rank
    PROVE  SearchOK'
<1>1. PICK top \in kSubset(Fetch(Cardinality(query.index)), query.index) :
        query' = [query EXCEPT !.step = "read", !.top = top]
    BY DEF Rank
<1>2. top \subseteq query.index /\ Cardinality(top) = Fetch(Cardinality(query.index))
    BY Chosen
<1>3. /\ DOMAIN query' = DOMAIN NoQuery /\ query'.index = query.index
      /\ query'.top = top /\ query'.step = "read" /\ index' = index
    BY <1>1 DEF Rank, SearchOK, NoQuery
<1> QED
    BY <1>2, <1>3 DEF SearchOK, NoQuery, Ids, Fetch

(* What was fetched in reserve makes up for the rows that went missing.     *)
LEMMA ReserveSuffices ==
    ASSUME NEW n \in Nat, NEW gone \in Nat, gone <= Slack,
           NEW found \in Nat, found >= Fetch(n) - gone
    PROVE  Min({K, found}) >= Min({K, n - gone})
<1>1. Fetch(n) = IF n < K + Slack THEN n ELSE K + Slack
    BY MinOfTwo, SearchCounts DEF Fetch
<1>2. Min({K, found}) = IF K < found THEN K ELSE found
    BY MinOfTwo, SearchCounts
<1>3. Min({K, n - gone}) = IF K < n - gone THEN K ELSE n - gone
    BY MinOfTwo, SearchCounts
<1> QED
    BY <1>1, <1>2, <1>3, SearchCounts

LEMMA ReadRowsStep ==
    ASSUME CatalogueOK, SearchOK, ReadRows
    PROVE  SearchOK'
<1> DEFINE found == query.top \cap Present
           lost == query.index \ Present
<1>1. PICK best \in kSubset(Min({K, Cardinality(found)}), found) :
        query' = [query EXCEPT
                    !.step = IF query.mode = "or" THEN "text" ELSE "done",
                    !.image = best, !.results = best, !.gone = Cardinality(lost)]
    BY DEF ReadRows
<1>2. /\ DOMAIN query' = DOMAIN NoQuery /\ query'.index = query.index
      /\ query'.top = query.top /\ query'.image = best /\ query'.results = best
      /\ query'.gone = Cardinality(lost) /\ query'.step \in {"text", "done"}
      /\ index' = index
    BY <1>1 DEF ReadRows, SearchOK, NoQuery
<1>3. /\ query.top \subseteq query.index /\ query.index \subseteq Ids
      /\ Cardinality(query.top) = Fetch(Cardinality(query.index))
    BY DEF ReadRows, SearchOK
<1>4. best \subseteq found /\ Cardinality(best) = Min({K, Cardinality(found)})
    BY Chosen
<1>5. /\ IsFiniteSet(best) /\ IsFiniteSet(lost) /\ IsFiniteSet(query.top)
      /\ Cardinality(lost) \in Nat /\ Cardinality(found) \in Nat
      /\ Cardinality(query.top) \in Nat /\ Cardinality(query.index) \in Nat
    <2>1. best \subseteq Ids /\ lost \subseteq Ids /\ found \subseteq Ids
        BY <1>3, <1>4
    <2> QED
        BY <1>3, <2>1, IdsAreFinite
<1>6. Cardinality(found) >= Fetch(Cardinality(query.index)) - Cardinality(lost)
    <2>1. Cardinality(query.top \ Present) = Cardinality(query.top) - Cardinality(found)
        BY <1>5, FS_Difference
    <2>2. Cardinality(query.top \ Present) <= Cardinality(lost)
        BY <1>3, <1>5, Fewer
    <2> DEFINE t == Cardinality(query.top)
               u == Cardinality(found)
               v == Cardinality(lost)
               w == Fetch(Cardinality(query.index))
    <2>3. t = w /\ t - u <= v /\ t \in Nat /\ u \in Nat /\ v \in Nat
        BY <1>3, <1>5, <2>1, <2>2
    <2>4. u >= w - v
        <3> HIDE DEF t, u, v, w
        <3> QED
            BY <2>3
    <2> QED
        BY <2>4
<1>7. Cardinality(lost) <= Slack =>
        Cardinality(best) >= Min({K, Cardinality(query.index) - Cardinality(lost)})
    BY <1>4, <1>5, <1>6, ReserveSuffices
<1> HIDE DEF found, lost
<1> QED
    BY <1>2, <1>5, <1>7 DEF SearchOK, NoQuery, Ids, Fetch

LEMMA ReadTextStep ==
    ASSUME CatalogueOK, SearchOK, ReadText
    PROVE  SearchOK'
<1>1. PICK matches \in SUBSET Present :
        \E rest \in kSubset(Min({K - Cardinality(query.image),
                                 Cardinality(matches \ query.image)}),
                            matches \ query.image) :
            query' = [query EXCEPT !.step = "done", !.results = query.image \cup rest]
    BY DEF ReadText
<1>2. PICK rest \in kSubset(Min({K - Cardinality(query.image),
                                 Cardinality(matches \ query.image)}),
                            matches \ query.image) :
        query' = [query EXCEPT !.step = "done", !.results = query.image \cup rest]
    BY <1>1
<1>3. /\ DOMAIN query' = DOMAIN NoQuery /\ query'.index = query.index
      /\ query'.top = query.top /\ query'.image = query.image
      /\ query'.results = query.image \cup rest
      /\ query'.gone = query.gone /\ query'.step = "done" /\ query.step = "text"
      /\ index' = index
    BY <1>2 DEF ReadText, SearchOK, NoQuery
<1>4. IsFiniteSet(query'.results)
    <2>1. IsFiniteSet(query.image)
        BY <1>3, Fewer DEF SearchOK
    <2>2. IsFiniteSet(rest)
        <3>1. rest \subseteq Present
            BY <1>2, Chosen
        <3> QED
            BY <3>1, IdsAreFinite DEF CatalogueOK
    <2> QED
        BY <1>3, <2>1, <2>2, FS_Union
<1> QED
    BY <1>3, <1>4 DEF SearchOK, NoQuery, Ids, Fetch

LEMMA SearchSteps ==
    ASSUME CatalogueOK, SearchOK, SearchNext
    PROVE  SearchOK'
BY PublishStep, AskSearchStep, RankStep, ReadRowsStep, ReadTextStep DEF SearchNext

-----------------------------------------------------------------------------
(* The invariant, and the properties that follow from it *)

LEMMA CatalogueRests ==
    ASSUME CatalogueOK, UNCHANGED catalogue
    PROVE  CatalogueOK'
BY DEF CatalogueOK, catalogue, Present, Ids, Times

LEMMA ThumbsRest ==
    ASSUME ThumbsOK, UNCHANGED <<catalogue, thumbnails>>
    PROVE  ThumbsOK'
BY DEF ThumbsOK, FramesOK, NamesOK, PruningOK, Unlisted, Going, Names, Busy, Cached,
       Keys, Ids, catalogue, thumbnails, Present

LEMMA Starts ==
    Init => IInv
<1> SUFFICES ASSUME Init PROVE IInv
    OBVIOUS
<1> USE DEF Init
<1>1. CatalogueOK
    <2>1. Present = {} /\ lastId = 0 /\ rows = [i \in {} |-> 0]
        BY DEF CatalogueInit, Present
    <2> QED
        BY <2>1 DEF CatalogueOK
<1>2. ThumbsOK
    <2>1. Rest.step = "idle" /\ Cached = {} /\ cache = [k \in {} |-> ""]
        BY DEF ThumbnailsInit, Rest, Cached
    <2>2. Busy = {} /\ frame = [r \in Threads |-> Rest]
        BY <2>1 DEF ThumbnailsInit, Busy
    <2>3. IsFiniteSet(Cached)
        BY <2>1, FS_EmptySet
    <2>4. FramesOK /\ NamesOK
        BY <2>1, <2>2, <2>3 DEF FramesOK, NamesOK
    <2>5. PruningOK
        <3>1. newest = {} /\ short = FALSE /\ \A r \in Threads : frame[r].step = "idle"
            BY <2>1, <2>2 DEF ThumbnailsInit
        <3>2. Cached \ (Unlisted \cup Going) = {}
            BY <2>1
        <3>3. Cardinality(Cached \ (Unlisted \cup Going)) <= Cap
            BY <3>2, FS_EmptySet, CapIsNatural
        <3> QED
            BY <3>1, <3>3 DEF PruningOK
    <2> QED
        BY <2>4, <2>5 DEF ThumbsOK
<1>3. WalkOK
    <2>1. /\ walk = NoWalk /\ walk.step = "rest" /\ walk.cursor = NoCursor
          /\ walk.steady = {} /\ walk.twice = {}
        BY DEF BrowseInit, NoWalk
    <2> QED
        BY <2>1 DEF WalkOK, WalkTyped, CountStands, ShownIsBehind, WalkShowsSteadyRows
<1>4. SearchOK
    BY DEF SearchInit, SearchOK, NoQuery
<1> QED
    BY <1>1, <1>2, <1>3, <1>4 DEF IInv

LEMMA Keeps ==
    IInv /\ [Next]_vars => IInv'
<1> SUFFICES ASSUME IInv, [Next]_vars PROVE IInv'
    OBVIOUS
<1>1. CatalogueOK /\ ThumbsOK /\ WalkOK /\ SearchOK
    BY DEF IInv
<1>2. CASE ScanCommits
    <2>1. CatalogueOK'
        BY <1>1, <1>2, CommitOK DEF ScanCommits
    <2>2. ThumbsOK'
        BY <1>1, <1>2, ThumbnailsLeft DEF ScanCommits, ThumbsOK
    <2>3. WalkOK'
        BY <1>1, <1>2, ObserveStep, NobodyWalks DEF ScanCommits
    <2>4. SearchOK'
        BY <1>1, <1>2, SearchRests DEF ScanCommits
    <2> QED
        BY <2>1, <2>2, <2>3, <2>4 DEF IInv
<1>3. CASE Thumbs
    BY <1>1, <1>3, CatalogueRests, ThumbnailsSteps, WalkRests, SearchRests
       DEF Thumbs, IInv
<1>4. CASE Browses
    <2>1. WalkOK'
        BY <1>1, <1>4, StartWalkStep, CountRowsStep, SelectPageStep DEF Browses, BrowseNext
    <2> QED
        BY <1>1, <1>4, <2>1, CatalogueRests, ThumbsRest, SearchRests DEF Browses, IInv
<1>5. CASE Searches
    BY <1>1, <1>5, CatalogueRests, ThumbsRest, WalkRests, SearchSteps
       DEF Searches, IInv
<1>6. CASE UNCHANGED vars
    BY <1>1, <1>6, CatalogueRests, ThumbsRest, WalkRests, SearchRests DEF vars, IInv
<1> QED
    BY <1>2, <1>3, <1>4, <1>5, <1>6 DEF Next

(* Nothing that reads the catalogue, scans it or prunes the cache leaves    *)
(* the inductive invariant.                                                 *)
THEOREM Inductive ==
    Spec => []IInv
BY Starts, Keeps, PTL DEF Spec

(* GET /api/thumb/{id} opens a file of the image that the row named when    *)
(* the request read it, whatever number of requests, prunings and scans     *)
(* work at the same time: files outlive rows, and ids are drawn once.       *)
THEOREM ThumbShows ==
    Spec => []ThumbShowsItsImage
<1>1. IInv => ThumbShowsItsImage
    <2> SUFFICES ASSUME IInv, NEW r \in Threads,
                        frame[r].step = "open", frame[r].key \in Cached
                 PROVE  cache[frame[r].key] = frame[r].path
        BY DEF ThumbShowsItsImage
    <2>1. r \in Busy
        BY DEF Busy
    <2> QED
        BY <2>1 DEF IInv, ThumbsOK, NamesOK
<1> QED
    BY <1>1, Inductive, PTL

(* Once the prune_thumb_cache that listed last went through, the cache is    *)
(* within thumbs_max_files, however many requests make and prune next to it  *)
(* and whatever prunings before it gave up or could not remove.              *)
THEOREM PruningRestores ==
    Spec => []PruningRestoresTheCap
<1>1. IInv => PruningRestoresTheCap
    <2> SUFFICES ASSUME IInv, Cap # 0, ~short, \A r \in Threads : ~StillPruning(r)
                 PROVE  Cardinality(Cached) <= Cap
        BY DEF PruningRestoresTheCap
    <2>1. PruningOK
        BY DEF IInv, ThumbsOK
    <2>2. \A r \in newest : r \in Threads /\ frame[r].step \notin {"sort", "unlink"}
        BY <2>1 DEF PruningOK, StillPruning
    <2>3. Unlisted = {} /\ Going = {}
        BY <2>2 DEF Unlisted, Going, StillPruning
    <2>4. Cached \ (Unlisted \cup Going) = Cached
        BY <2>3
    <2> QED
        BY <2>1, <2>2, <2>4 DEF PruningOK
<1> QED
    BY <1>1, Inductive, PTL

(* Walking GET /api/images by its cursor shows each row that a scan left    *)
(* alone once, for every size of the page and of the table.                 *)
THEOREM WalkShows ==
    Spec => []WalkShowsSteadyRows
<1>1. IInv => WalkShowsSteadyRows
    BY DEF IInv, WalkOK
<1> QED
    BY <1>1, Inductive, PTL

(* POST /api/search answers in full as long as no more rows vanish during   *)
(* the search than were fetched in reserve, for every k and reserve.        *)
THEOREM SearchFills ==
    Spec => []SearchFillsItsAnswer
<1>1. IInv => SearchFillsItsAnswer
    <2> SUFFICES ASSUME IInv, query.step = "done", query.gone <= Slack
                 PROVE  Cardinality(query.results)
                            >= Min({K, Cardinality(query.index) - query.gone})
        BY DEF SearchFillsItsAnswer
    <2> DEFINE least == Min({K, Cardinality(query.index) - query.gone})
    <2>1. /\ query.image \subseteq query.results /\ IsFiniteSet(query.results)
          /\ query.gone \in Nat /\ query.index \subseteq Ids
          /\ Cardinality(query.image) >= least
        BY DEF IInv, SearchOK
    <2>2. least \in Int
        BY <2>1, IdsAreFinite, MinOfTwo, SearchCounts
    <2>3. /\ Cardinality(query.image) <= Cardinality(query.results)
          /\ Cardinality(query.image) \in Nat /\ Cardinality(query.results) \in Nat
        BY <2>1, Fewer
    <2> HIDE DEF least
    <2>4. Cardinality(query.results) >= least
        BY <2>1, <2>2, <2>3
    <2> QED
        BY <2>4 DEF least
<1> QED
    BY <1>1, Inductive, PTL

(* What everything that keeps an id goes by: an id never passes to another  *)
(* path, and those that are drawn are above all that were. Thumbnails,      *)
(* vectors and links of results are named after ids.                        *)
IdsKeepTheirPath ==
    [][\A i \in Present' : IF i \in Present THEN rows'[i].path = rows[i].path
                                            ELSE i > lastId]_vars

(* No commit and no request ever gives an id of the table images to another *)
(* path, nor draws one that had been drawn before.                          *)
THEOREM IdsKeep ==
    Spec => IdsKeepTheirPath
<1>1. IInv /\ [Next]_vars
        => [\A i \in Present' : IF i \in Present THEN rows'[i].path = rows[i].path
                                                 ELSE i > lastId]_vars
    <2> SUFFICES ASSUME IInv, Next
                 PROVE  \A i \in Present' : IF i \in Present THEN rows'[i].path = rows[i].path
                                                              ELSE i > lastId
        OBVIOUS
    <2>1. CASE Commit
        BY <2>1, CommitOK DEF IInv
    <2>2. CASE UNCHANGED catalogue
        BY <2>2 DEF catalogue, Present
    <2> QED
        BY <2>1, <2>2 DEF Next, ScanCommits, Thumbs, Browses, Searches
<1> QED
    BY <1>1, Inductive, PTL DEF Spec, IdsKeepTheirPath

=============================================================================
