# MetaTrace in TLA+

MetaTrace is a reverse image search service: one FastAPI process (a single uvicorn
worker) indexes the image files of a store into SQLite rows and FAISS vectors, answers
searches, and serves a web client with accounts and sessions; a tool beside it mirrors a network folder into the store. This directory models the parts of it whose
correctness depends on order, failure and concurrency, checks the models with TLC and
proves what can be proved with TLAPS. Everything is translated from the code; paths
below are relative to the repository (`src/`).

`PROJECT.json` lists the components, the runs, the lines each definition models
(`map`), the divergences found (`findings`), the hazards, and the theorems.

## 1. Inventory

| Component | State | Operations | Interacts with |
|---|---|---|---|
| Scan pipeline: `backend/app/indexer.py`, `scanner.py` | status, pause gate, scan lock, working copy of the index, chunk of decoded images | full, delta and resumed scan, startup repair, pause points | everything below |
| Scan checkpoint: `checkpoint.py` | `scan_checkpoint.json`: phase, remaining paths | save planning / pending, clear, load at start | indexer |
| Vector store: `faiss_store.py` | published index, `index.faiss`, time of the last publish | clone, publish, throttled publish, quarantine | indexer, search, stats |
| Catalogue: `db.py` | tables images, users, refresh tokens, audit log | bulk upsert, remove, reset, browse with a cursor | indexer, routes, auth |
| Scheduler: `scheduler.py` | busy lock | trigger, pause, resume; one thread per scan | routes, indexer |
| Snapshots and deltas: `store_snapshot.py` | baseline, latest snapshot, `rescan_delta_latest.json` | detect changes, save, load and validate | scanner, rescan route |
| Sessions: `auth.py`, `api/auth.py` | table of refresh tokens with their families, failed-login counters | login, refresh (rotation, reuse), logout, change of password | db, client |
| Users: `api/users.py`, `dependencies.py` | roles, active flag, last-administrator rule | create, update, delete, reset password, request gates | db |
| Thumbnails: `thumbs.py`, thumb route | files `<id>_<size>.png` | serve or make, prune, clean up | db, store |
| Search: `search.py` | none | embed the query, read index, read rows, merge | vector store, db |
| Web client: `frontend/src` | access token, in-flight refresh, poll timers, abort handles | boot, refresh, retry, polling, search | routes |
| Mirror tool: `scripts/archive/network_to_local_copy.py`, `network_to_local_menu.py` | snapshot of the source, presets, the mirror | walk, compare, ask, copy by several processes | store |
| Other scripts: `sync_images.py`, `sync_menu.py`, `cleanup_report.py` | none between two runs | copy, delete, report | store |

How they interact. Routes declared with `def` run in a pool of threads, so rescan, pause,
resume, snapshot, thumbnail and browse requests overlap; the handlers of `api/auth.py` and
`api/users.py` are `async` without an `await` and run one at a time. A scan runs in a thread
of its own and shares with the requests the status dictionary, the pause gate, two locks, the
published index (swapped by reference under a lock) and SQLite. Rows are committed by SQLite,
the index is a file replaced by rename, the checkpoint a third file: three stores with no
transaction around them.

What is hard: interleavings of check and act in the scheduler; a crash, an exception or a pause
between the commit of the rows and the publishing of their vectors; a checkpoint that outlives
the scan or the rows it speaks of; inventories older than the files; token rotation when an
answer is lost or two tabs refresh at once; caches keyed by less than what they cache. The
hazards in `PROJECT.json` name each at its line.

What makes each component correct, in one line each:

* pipeline: rows, published index, index file and checkpoint stay related; no work is silently lost, no image indexed twice;
* scheduler: scans never overlap; a paused scan can be resumed and nothing replaces it; what the state says is true;
* snapshots and deltas: every change of the store reaches a scan sooner or later;
* sessions: of a family only the newest token works, reuse ends the family, logout and change of password end sessions;
* users: an active administrator always remains; a gate decides on the current user;
* thumbnails: the picture served is of the row's content; search and browse: every match once, in order;
* client: one refresh at a time, newest answer shown, no session lost by its own concurrency;
* mirror: what a completed run listed is at the target, until the source changes again.

## 2. Modules

| Module | Models | Role |
|---|---|---|
| `ScanIndex` | indexer, scanner, checkpoint, vector store, table images | a scan and what survives it |
| `ScanIndexProofs` | | theorems: what the indexes cover; which ids they hold; how long a scan lasts |
| `ScanService` | promise of `scheduler.py` | abstract specification |
| `ScanControl` | scheduler, pause gate, locks, rescan routes | who starts, pauses, resumes a scan; implements `ScanService` |
| `ScanControlProofs` | | theorems and refinement |
| `DeltaPipeline` | store snapshots, delta files, full and delta scans | how a change of the store reaches the catalogue |
| `DeltaPipelineProofs` | | theorems |
| `TokenFamilies` | what a session promises | abstract specification |
| `RefreshTokens` | table refresh_tokens and its statements | extended by the next two |
| `TokenServer` | `rotate_refresh_token`, one step per access to the table | implements `TokenFamilies` with any number of workers |
| `Accounts` | handlers of `api/auth.py` and `api/users.py` | sign-in, lock-out, rotation, administration; implements `TokenFamilies` |
| `WebClient` | `AuthContext.tsx`, `authStorage.ts`, `features/auth/api.ts` | the tabs of a browser, composed with `TokenServer` |
| `RefreshTokensProofs`, `AccountsProofs`, `WebClientProofs` | | lemmas on the statements, theorems, refinements; `WebClientProofs` has those of `TokenServer` first |
| `Catalogue` | table images as readers see it | extended by the next three |
| `Thumbnails` | thumbnail route, `thumbs.py` | requests in threads, the cache and its pruning |
| `BrowsePages` | `db.browse_images`, browse route | a walk by the cursor |
| `SearchAnswers` | `search.py` | a search between index and rows |
| `ReadSide` | the three, next to a scan | composition and properties |
| `ReadSideProofs` | | theorems |
| `MirrorCopy` | mirror tool | runs, copy processes, the source changing meanwhile |
| `MirrorCopyProofs` | | theorems |
| `MCScanIndex`, `MCScanControl`, `MCDeltaPipeline`, `MCAccounts`, `MCWebClient`, `MCReadAndMirror` | | bounds and symmetry for TLC |

`ScanIndex` and `ScanControl` split the same code by concern. In `ScanIndex` a request is one step
and a scan is many; in `ScanControl` a scan is reduced to the points where it touches the shared
control state, and a request is as many steps as it makes accesses. `ScanControl` shows that
there is one scan thread at a time, which `ScanIndex` takes for granted.

`TokenServer` and `Accounts` split in the same way. The container runs one uvicorn process
(`Dockerfile:53`) and the handlers are coroutines without an `await`, so in `Accounts` a handler is one step,
which may stop after any of its transactions (`done`, `flag`). The comments of `rotate_refresh_token` claim more:
that requests of several workers may interleave. `TokenServer` checks that claim, each access a step.

### ScanIndex

* A file's content is a version number. A row keeps the version that the inventory saw (`stat`, for
  size and mtime), a vector the version that was decoded (`ver`), so both "row without vector"
  and "row newer than its vector" are visible. The versions are those that a full scan tells apart; that it takes
  files of one size whose mtimes are within two seconds for the same (`indexer.py:531-537`) is left to `DeltaPipeline`,
  since no property here depends on it.
* An index is a bag of vectors `[file, id, ver]`: `IndexIDMap2` accepts an id twice. `rows` is
  the table, `lastId` the AUTOINCREMENT counter, numbered per file.
* `scan` is the frame of the scan thread: `pc`, the rows known at the start, the pending files
  (`work`, `left`, `chunk`), the images of the current chunk (`decoded`), the working copy
  and the files committed since the last publish (`unpublished`).
* Actions: the store (`Edit`, `Delete`), `RecordSnapshot`, `DamageIndexFile`, `Crash`; `Boot`
  (three forms: index readable, missing, corrupt); `Trigger`, `RequestPause`, `Resume`,
  `ResumeFromCheckpoint`, `ResumeSetupFails`; and the thread: `Plan` (inventory, removals, choice
  of the working copy), `PausePlan`, `TakeChunk`, `DecodeOk`, `DecodeFails`, `SkipChunk`,
  `CommitChunk`, `PublishProgress` / `SkipProgress` (the 30-second throttle is a choice),
  `PausePublish`, `PauseSave`, `Wake`, `PublishFinal`, `Finish`, `ScanFails`.
* A decode of the pool may finish in any order; the file that is decoded next is any of the chunk.
* `lost` and `errored` are history: the files whose rows a dying scan left unpublished, and
  whether a scan failed since the start. They make the properties exact and affect no guard.

### DeltaPipeline

* A scan here is the metadata it goes by (`work`), the files left, and those it reported as failed; rows keep
  `stat` and `ver` as above. Index, checkpoint file and pauses are in `ScanIndex`.
* A full scan leaves a row as it is when size and mtime are the `Same`: equal, or of one size and within
  `MTIME_TOLERANCE_SEC` (`scanner.py:19`). Which versions are that near is the constant `Near`; being near is not
  transitive, so two near changes can add up to one that is not. A recorder compares exactly (`store_snapshot.py:231`).
* Each recorder (a run of `detect_changes`) is one step to walk the store, one to compare, and one per file it
  replaces; `Abort` ends it anywhere. Several may run at once: the route has no lock and the script is another process.
* `Rescan` reads the delta when the request comes; `PlanFull`, `PlanDelta` take an inventory, the latest
  snapshot or the live store; `Process`, `Fail`; `ResumeAfterRestart` keeps only the remaining files
  of the checkpoint, and its end (`indexer.py:324-330`) leaves the delta file in place; `EndDelta` removes
  whatever delta file is there.
* `trust` is history: `kept` from a full scan that ends with catalogue and baseline in agreement, as long as
  nobody acts out of turn and nothing fails; `broken` once somebody acts out of turn; `none` otherwise.

### ScanControl and ScanService

* `call[c]` says where a request stands between its checks and its act; `at[t]` where a scan
  thread stands. Each action is one access to `status["state"]`, the gate, a lock or the
  checkpoint.
* `checkpoint` is its phase. The copy that the indexer holds in memory and the file agree where
  the two are read here, so one variable stands for both.
* `promised` and `setupFailed` are history: a pause was answered 202 to a scan that has yet to look
  at the gate; a resumed scan died between taking the lock and its `try`.
* The scan itself is `work`: from there it may see the gate closed, end, or fail.
* `ScanService` is the promise in the first line of `scheduler.py`, "Background manual rescans that never overlap":
  a set of active threads of at most one, and whether it is on hold. `Start` needs no active
  thread, `End` none on hold.

### Sessions: TokenFamilies, RefreshTokens, TokenServer, Accounts

* A row of `tokens` is a refresh token: free, live, expired or revoked, with its user and its family, which is named
  by the id of its first row. Rows are never deleted; `ON DELETE CASCADE` stands in the schema, but no
  connection enforces foreign keys.
* `TokenFamilies` is the promise: a family is new, open, then closed for ever; several may close at once.
* `TokenServer!job` is where a refresh stands in `rotate_refresh_token`: SELECT, conditional UPDATE, INSERT, or the
  revocation of the family. A request may die at any step (`Leave`). A family counts as open, too, while a
  rotation is past its UPDATE (`Holds`): the INSERT looks at nothing any more.
* `Accounts!users` is the table, with role, active flag, temporary password, a version of the password, the count of
  failed logins and the lock (on, or over and not yet cleared). `access` are the holders of access tokens, which are
  signed and not stored: a gate looks up the row of the caller on each request, so role and active
  flag are the current ones.
* `born`, `unsettled` and `tries` are history: the password a family was opened with, the users whose last revocation
  was cut short, the wrong passwords since the last success or lock-out.

### WebClient

* The tabs share `jar`, the refresh cookie; a request carries it as it was when it left (`Send`), an answer replaces it
  when it arrives (`Granted`). `memory`, `ui` and `flight` are per tab: the access token, the state on screen, the one
  refresh that calls which met a 401 wait for.
* `Drop` is a fetch that fails, whatever the reason; the server may still serve it, and `Forget` is its end. `Reload`
  forgets all but the cookie. A boot that is superseded keeps its request (`cancelled`).
* The 401 that follows a committed rotation when the user was deactivated meanwhile (`api/auth.py:436-439`) is no step
  of its own: users do not change in this module, and `Drop` loses the answer to a committed rotation as well.
* `excused` is history: the tokens that the browser really presented twice, or whose replacement it never received.

### ReadSide

* `Catalogue` has the table: ids of AUTOINCREMENT, paths, time stamps that commit in any order. A scan is any
  sequence of its transactions.
* `Thumbnails`: a request is the read of the row, the look at the cache, the making, the listing, sorting and
  unlinking of the pruning, the opening of the file. The route is a plain function, so requests overlap. A file may
  refuse to be removed (`UnlinkFails`): the code logs it and goes on with the next. `newest` and `short` are history:
  whose listing is the newest, and whether its pruning left a surplus behind.
* `BrowsePages`: COUNT and SELECT are two statements; a page is any that the ORDER BY allows.
* `SearchAnswers`: index captured, ranked, rows read, text matches merged.
* The three meet in the table only, so a behaviour follows the requests of one kind (`kind`).

### MirrorCopy

* `Walk` (a file whose stat fails is missing from it), `SaveSnapshot` (comparison, and the new snapshot replaces the
  old one before anything is copied), `PlanCopy` (extensions, folders, size limit, long sequences, files already
  at the target), `Confirm` or `Decline`, `StartCopy`, `CopyEnds`, `CopyFails`, `Interrupt`; `Change` and
  `ChoosePreset` around it. Copy processes of a failed run live on in `loose`.
* `trust` is history: since a run without a usable snapshot all runs were of one preset and went through; `skipped` are
  files left out as part of a long sequence.

## 3. Runs

| Run | Instance | Shows |
|---|---|---|
| `scan_two_files` | 2 files, one chunk of 2, 2 versions each | the relation of rows, published index, file and checkpoint, and the two action properties, through pauses inside a chunk, failures, crashes, starts |
| `scan_liveness` | 2 files in two chunks, 1 version, 2 ids, store snapshots that files disappear from | scans end or wait; a closed gate stops a scan before the files it has not come to |
| `scan_control` | 2 requests under way, 2 threads | scheduler properties, refinement of `ScanService`, started scans settle |
| `delta_pipeline` | 2 files (versions up to 3, of which neighbours are near, and 1), 1 recorder | full scans catch up, delta scans apply their delta, turns lose nothing |
| `accounts` | 2 users, 2 tokens, 1 change of password each, 2 attempts | lock-out, last administrator, sessions that end with password or account, refinement of `TokenFamilies` |
| `web_client` | 2 tabs, 2 requests, 2 tokens, 1 user | one refresh per tab, reuse only for a cause, refinement of `TokenFamilies`, waiting calls end |
| `read_and_mirror` | 3 paths, 2 threads; 2 files, 3 presets, 2 processes | thumbnails, walks and searches next to a scan; or runs of the mirror tool |
| `delta_missed` | 1 file, 3 versions, 2 recorders | finding 5 |
| `paused_work` | 2 files, 1 version | finding 1 |
| `stale_vector` | 1 file, 2 versions | finding 2 |
| `lost_index` | 2 files, 1 version | finding 3 |
| `pause_undone` | 3 requests, 2 threads, no fairness | finding 4 |

`read_and_mirror` holds two systems that share no state; a behaviour is one of the one or of the other (`side`).

Properties of `ScanIndex`:

* `NoDuplicateVectors`: neither the published index nor the working copy has an id twice.
* `RowsAreSearchable`, `FileCoversRows`: a row without an adequate vector in the published index,
  or in the file, was committed by the running scan since it last published, or by one that died then.
* `CatalogueAgreesAtRest`: ids of rows and of the index agree whenever no scan is moving, up
  to a failed scan of the same process (nothing reconciles before the next start).
* `CompletedScanIndexedItsWork`: a scan reaches its end only with its work done.
* `PauseCheckpointAccountsForWork`: checkpoint, published index and the decoded images in memory
  together account for all the work of a paused scan.
* `SearchNeverLosesAnImage`: while the process runs, a found image that keeps its row stays found.
* `BootKeepsIndexedRows`: the startup repair leaves rows that have their one vector alone.
* `ScanEnds`: a scan ends or comes to wait at the gate.
* `PauseTakesEffect`: a file that the scan has not come to when the gate is closed is found in the checkpoint of the paused
  scan, and is not processed, unless somebody opens the gate, the scan fails or the process dies first. A scan that
  runs on to its end, or that pauses and forgets the file, violates it.

Properties of `ScanControl`: `LocksTellTheTruth` (one scan, locks held exactly while it lives),
`WaitingCanBeResumed`, `PausedIsNoPhantom` (the concern in the comment of `checkpoint.py:144-148`),
`ScanningMeansBusy`, `PausedScanIsNotReplaced` (the check in `trigger_now` is made before the lock is
taken and may be stale; it is still enough), `ServiceSpec`, `StartedScanSettles`.

Properties of `DeltaPipeline`: `FullScanCatchesUp` (whatever deltas and restarts went before, each row is within the tolerance of what the inventory
shows, also after several changes that are each within it of the one before),
`DeltaScanAppliesItsDelta` (deleted files have no rows, the others are as new as the metadata the scan went by,
or reported as failed, or never had a row), `DeltasInTurnLoseNothing` (record, rescan, record, rescan: every
change is in the catalogue, in the delta, not yet recorded, or `PassedOver` by a full scan too). The last one had to be weakened several times before TLC
accepted it, and each condition in `trust` is one way to lose a change: two recordings in a row, two recorders at once, one that
dies between the delta and the baseline, a delta that is replaced while it is applied, a full scan from a
snapshot while a delta of an earlier state is waiting, a file that failed to decode and is later listed as
modified, which a delta scan skips as unknown (`indexer.py:623`). The tolerance is one more way, within the turns: a
change of the same size within two seconds of the row is taken into the baseline by the recorder, and neither a full
scan nor a later delta brings it into the catalogue. TLC finds it when `PassedOver` is left out.

Properties of `Accounts`: `AdminRemains` (no sequence of demotions, deactivations and deletions leaves no active
administrator), `SessionsFollowPassword` and `SessionsHaveActiveOwners` (a session that can still be refreshed was
opened with the current password by an active user, unless a handler failed between its transactions),
`LockoutBoundsGuesses`, `SessionsStayEnded` (refinement of `TokenFamilies`).

Properties of `WebClient` with its server: `OneLiveToken` (a family never has two good tokens), `SessionsEndForGood`
(refinement), `FlightIsUnderWay` (a tab waits only for its own refresh, which is under way), `ReplayHasACause` (the server
ends a session for reuse only when an answer was lost or came late, or a boot or another tab presented the same
token), `WaitingCallsEnd` (every call that met a 401 is let go).

Properties of `ReadSide`: `ThumbShowsItsImage` (files are named after id and size only and outlive their rows; ids are
not reused, so this is enough for the path; its content is another matter, below), `PruningRestoresTheCap`
(whatever earlier prunings gave up on or could not remove, and whichever overlap, the cache is at the limit when the one with
the newest listing went through and no file has been made since),
`WalkShowsSteadyRows` (a walk by the cursor shows what did not change, once), `SearchFillsItsAnswer`.

Property of `MirrorCopy`: `MirrorKeepsUp`. The target has what the snapshot shows, under conditions each of which
is a loss that the tool does not make good.

### Bounds

* `MaxVersion`: how often a file changes. Two versions give a stale row or vector. In `scan_liveness` files are
  deleted only: what makes a snapshot outdated there is a file that is gone, and the progress of the thread does not depend
  on a version.
* `MaxId` (`ScanIndex`): a scan starts only while no file has used that many ids. Two ids are a removal followed by
  a new row, which is what replays and repairs can confuse.
* Two files: one done and one not, inside a chunk (batch 2) or in two chunks (`scan_liveness`, batch 1). Files only meet
  in the chunk and in the remaining list, so a third adds no new relation; the proofs depend neither on it nor on the
  size of the batch.
* `DeltaPipeline!MaxVersion`, `Near`: a bound for each file. Three versions of which 1 and 2, and 2 and 3, are near are
  the fewest in which changes within the tolerance add up to one beyond it. With one file an empty snapshot is never taken as
  an inventory, so a second file that only comes and goes makes snapshots that lack the first one usable. Files
  do not meet otherwise, so the walk of the store may be one step. Two recorders are in `delta_missed`; for the passing
  properties they are either excluded by the condition (`trust`) or irrelevant.
* Callers: two are enough for a stale check against a finished act, three for finding 4 (two
  resumes and a pause). Two threads: a scan that is to be refused, or to overlap, needs a second one.
* `MaxTokens` 2: a session and its rotation, or two sessions of which one ends. `MaxAttempts` 2 and `MaxPassword` 1: an
  attempt below the limit and one at it; one password and its successor. `OpenAdmin` is FALSE in the run, so that only
  administrators administer. The theorems hold for all of these.
* `Tabs`, `Requests` 2: two tabs with one refresh each, or a tab whose first request is still with the server
  while it sends another. The proof holds for any number; its invariant was also checked with 3 tokens.
* Read side: `Cap`, `Limit`, `K` and `Slack` 1 with three rows put every bound in reach: two files over the limit, two
  pages and a third, one result and one in reserve. Stamps 0 and 1 give equal and unequal ones. Two threads: one
  prunes while the other makes or prunes.
* Mirror: two files, one of them a frame; sizes 0 and 1 against a limit of 0 or 1; each file changes once; the
  presets differ in filters or in what they walk. Files do not meet, so the walk is one step; two processes
  are enough for one that fails beside one that runs on. In the run both files exist at first; every initial store and two
  targets were checked apart (3.4 million states), and the proof covers all.

### Fairness

`ScanIndex!FairSpec` is weak fairness of the steps of the scan thread (`ThreadSteps`), and
`ScanControl!FairSpec` weak fairness of each thread's steps: the operating system runs a thread
that can run, and the locks and the gate are released by threads that can. Nothing is assumed of
requests, users, the store, crashes or failures; that is why a scan may wait at the gate forever.
`WebClient!FairSpec` says that a fetch settles (`Settles`): it is answered or the connection fails, which
browsers guarantee. Nothing is assumed of the server, the users or the order of answers.
The other modules have safety properties only.

### Findings

1. `paused_work`: a pause inside a chunk saves `chunk[offset:]` and the later chunks
   (`indexer.py:691-693`). The images decoded before the pause live only in the waiting thread; after
   a restart the resumed scan ends without them. A later full scan finds them again.
2. `stale_vector`: a changed file's row is committed with its new stat before the new vector is
   published. After a crash in between, the repair compares ids only, and later scans see the stat
   as current: the old vector answers for the new picture until the file changes again.
3. `lost_index`: with `index.faiss` missing and a pending checkpoint, the start empties the table
   and then comes up paused; the resume embeds only the files the checkpoint lists.
4. `pause_undone`: a resume checks state and lock, then opens the gate with nothing held around the
   two. A second resume can open the gate that a newer accepted pause has closed.
5. `delta_missed`: the settings page shows the delta as "Changes since last scan", but a delta has the changes since
   the last snapshot. A second snapshot before the rescan replaces the delta and moves the baseline on: what the
   first one found is shown no more, and only a full scan will index it.

The design copes with the rest of what was feared: the stale check of `trigger_now`, resumes that race,
replays over rows that already exist, repairs, concurrent rotations of a token and administrators that demote
each other keep their properties.

### Known behaviours

Modelled as they are. No line of the repository promises otherwise, so they are conditions of the
properties and not findings.

* The refresh cookie has the path `/api/auth/refresh`, so a browser does not send it to `/api/auth/logout`. A logout
  clears cookie and memory, but leaves the token good on the server. A client that sends the cookie along, as
  the tests do, revokes it (`Accounts!Logout`). A refresh that is under way during a logout brings token and cookie back.
* Two tabs that refresh at once, or Retry during a slow boot, present one token twice: the server sees reuse and ends the
  session. So does a lost answer.
* A change of password, a reset and a deactivation are several transactions: a failure in between leaves the old
  sessions open until they are ended otherwise (`unsettled`).
* A thumbnail is made once per id and size: a file that is re-embedded under its id keeps its old thumbnail until that
  is pruned or cleaned up.
* A full scan passes over a file that keeps its size and whose mtime moves by two seconds or less (`indexer.py:531-537`); the
  next recording takes it into the baseline all the same, so its old vector stays until it changes again.
* An exception while a resumed scan is set up (`indexer.py:307`) leaves the state "scanning" without a scan, until the next
  trigger (`ResumeSetupFails`; `ScanningMeansBusy` excepts it by `setupFailed`). A file whose decode failed, and a delta
  scan that is resumed after a restart, can each cost a change that only a full scan finds (`trust`).
* The cursor compares stamp and id, ORDER BY names the stamp alone (`db.py:492`). Read through the index on sizes, which
  SQLite prefers for a range of sizes, rows with equal stamps come in no order, and the walk skips or
  repeats some (`walk.sorted`). A commit between COUNT and SELECT of the first page can end the walk early (`walk.raced`).
  The browser view itself pages by offset.
* A pruning that meets another one's removals raises in `stat` and gives up (`thumbs.py:39`), and one that cannot remove a
  file leaves it (`:46`): the cache is above `THUMBS_MAX_FILES` until one goes through. The order is by modification, that is by making, not by use.
  A file that is pruned between the look and the opening is an error to its request.
* The mirror tool saves its snapshot before it asks (`network_to_local_copy.py:566`): what a run found that was declined,
  failed or was broken off is not looked at again. Nor are listed files when the target or the filters change
  (`:136-149`). A file that changes and keeps its size is not copied again (`:376-379`), frames of a sequence that
  shrinks below the limit stay away, and nothing is ever deleted at the target. Copy processes outlive a failed run.

## 4. Proofs

TLC checks the instances above; the theorems hold for every finite set of files, every batch size and
bound, and any number of callers, threads, users, tabs and requests.

`ScanIndexProofs`. Assumptions: the named ASSUMEs of `ScanIndex` (positive batch size, natural bounds,
a finite set of files, markers that are no bags). The properties are not inductive: what is published
came from the working copy, and why that was good depends on where the scan stands. `IInv` adds

* `FrameOK`: which fields of the frame are empty where, and that at the wait the published index is the
  working copy and the checkpoint lists chunk and rest;
* `PartsOK`: left, chunk and decoded files are disjoint parts of the work, decoded versions are not
  older than the inventory's;
* `WorkingCoversRows` and `WorkAccounted`: the working copy answers for every row but the lost ones,
  and a file that is in no part is done in it.

Theorems: `Inductive`, `TypeCorrect`, `Searchable`, `FileSufficient`, `CompletedScan`, `PausedScan`.
One lemma per action, over lemmas about `Keep`, `Without`, bag addition and `Covered`.

Its second part goes on from `IInv`. `IdInv` adds that ids in use have been drawn (`DrawnIds`), so a new row's id is in no
index; that the scan knows the rows of the files it has yet to commit (`KnownRows`), so their old vectors are
removed; and that the index to be published next holds the ids of the rows (`SameIds`) and all that searches find now
(`FoundStays`). Theorems: `IdsInductive`, `NoDuplicates`, `AgreesAtRest`, `SearchKeepsImages`, `BootKeepsRows`. With these
every safety property of `ScanIndex` that the passing runs check is proved.

Its third part is the half of `ScanEnds` that does not need fairness. `ToGo` weighs the files left, those of the chunk and the
place of the thread. `StepsCount`: once the plan is made, every step of the thread lowers it, pauses and wakings included,
because a thread that wakes deals with a chunk or a file before it looks at the gate again. `ScansAreShort` bounds it. So a
scan can be held up only at the closed gate or in its plan: how far the walk of the store has come is not modelled, so pauses
in it are not counted. TLC confirmed both on the instance of `scan_two_files`.

`ScanControlProofs`. No assumptions on callers and threads. `IInv` adds to the locks `PlaceOK` (what the
state is at each place of the thread) and `RestOK` (without a scan, paused means a pending checkpoint and no
trigger past its check: only so is the stale check harmless). Lemma `Moved` says that the thread
that moves is the only one, which reduces each step to that thread. Theorems: `Inductive`, `TypeCorrect`,
`NoOverlap`, `Resumable`, `NoPhantom`, `ScanningBusy`, `NotReplaced`, `Refinement`
(`Spec => ServiceSpec`).

`WebClientProofs`, the server, over the lemmas of `RefreshTokensProofs`. `SInv` adds to `OneLiveToken` that a family is named by a
row of its own (`RowsOK`), that a request works on a row that exists (`JobsOK`), and that a request about to
insert is alone in its family and has left no good token in it (`InsertsOK`): the conditional UPDATE is
what makes it so. Theorems: `ServerInductive`, `ServerTyped`, `Rotation`, `SessionsEnd`.

`AccountsProofs`. Assumptions: finitely many users, positive `MaxAttempts`. `IInv` adds `LocksOK` (what lock, count and
`tries` say of each other) and `SessionsOK` (rows, owners, and what a live token says of its owner). `AdminRemains` needs no
invariant, but the cardinality of the active administrators. Theorems: `Inductive`, `TypeCorrect`, `Lockout`,
`PasswordEndsSessions`, `AccountEndsSessions`, `AdministratorRemains`, `SessionsEndForGood`.

`WebClientProofs`, the client. Assumptions: markers are no tabs and no requests, requests are numbers. Every step of the
composition is one of `TokenServer` or leaves it alone (`ClientDrivesServer`), so the server's theorems hold under
it (`ClientRotation`, `ClientSessionsEnd`). `CInv` adds what makes reuse impossible without a cause: a token that is in
the cookie or in a request, and is not excused, is in one request only, and nothing else of its family is
good. Theorems also: `ClientInductive`, `ClientTypeCorrect`, `OneFlight`, `ReplayCause`.

`MirrorCopyProofs`. Assumption: `MirrorAssumption`. `MInv` says which files of the snapshot are good at each step of a run
(all that did not change; then all that need not be copied; then all that are neither waiting nor in
copying), and that no snapshot is ahead of the source, so a file that is good stays so. Theorems: `MirrorInductive`,
`MirrorIsKeptUp`.

`DeltaPipelineProofs`. Assumptions: natural bounds, a switch that is a Boolean, and a marker for "no such file" that is neither
an inventory nor a delta (`NoneIsNoFile`). Nothing is assumed of the number of files or recorders. `IInv` adds

* `Shapes`, `PastOnly` and `DeltasOK`: frames have their fields; no record of a file is ahead of the store, so what is decoded
  later is at least as new; a delta lists nothing as deleted that it lists as created or modified;
* `FullDone` and `DeltaDone`: what a scan has neither left nor failed is done;
* `KeptInTurn`: while everyone acts in turn, one state of the store is what the catalogue becomes when the waiting delta, or
  the rest of the running delta scan, is applied (`LeadsTo`), file by file (`Synced`): the row's vector is as new as that
  state, or the tolerance takes its metadata for that state's. It is the baseline, except between the writing of a delta and of
  the baseline, when it is what that recorder saw. `DeltasInTurnLoseNothing` looks at quiet states only; it is
  this bridge over the recorder's three replaces and the scan's steps that makes it inductive.

Theorems: `Inductive`, `TypeCorrect`, `FullScan`, `DeltaScan`, `TurnsLoseNothing`.

`ReadSideProofs`. Assumptions: natural bounds on ids and stamps (`TableBounds`), `thumbs_max_files` not negative (`CapIsNatural`),
`limit` and `k` at least 1 (`LimitIsPositive`, `SearchCounts`), all of which the code validates, and a reserve that is not negative.
The table is kept by `CatalogueOK` and lemma `CommitOK`: whatever is committed, no id changes its path and each new one is
above all that were drawn. `IInv` adds

* `NamesOK`: an id that a file of the cache or a request holds has been drawn (`Names`), and all who hold an id hold the
  same path. The property speaks of one request that is about to open a file; that no other request, still making
  another file of the same id, can put a different picture there is what has to be carried along;
* `PruningOK`, about the newest listing as long as its pruning leaves no surplus: until it is sorted, each file of the cache
  is in it or belongs to a request that has yet to list (`Unlisted`); afterwards, the files that are neither `Unlisted` nor
  still to be removed (`Going`) are within the limit. Lemma `ExcessGone` counts, `StillPruned` says that the steps of other
  prunings, failed removals included, do no harm;
* `ShownIsBehind`: a row that did not change was shown exactly if the cursor is past it. `BeforeIsLinear` (stamps and ids order
  the rows in a line, both ways) gives `CursorPassesPage`: a page in the order of the index moves the cursor
  past exactly its own rows. `ShortPage` and `CountStands` are why a walk does not end early;
* `SearchOK`: what was fetched, and that at least `min(k, rows left)` of it was found. `ReserveSuffices` is the arithmetic of the
  reserve.

Theorems: `Inductive`, `ThumbShows`, `PruningRestores`, `WalkShows`, `SearchFills`, and `IdsKeep`, which states what all of them take
from the table: no id passes to another path, and none is drawn twice. They hold for any number of paths and
requests, any page size, limit, `k` and reserve, and whatever the bounds of the table.

The inductive invariants of `ScanIndex`, `WebClient`, `Accounts`, `DeltaPipeline` and `ReadSide` were checked by TLC before they were proved.

Model-checked only: the liveness properties `ScanEnds`, `PauseTakesEffect`, `StartedScanSettles`, `WaitingCallsEnd` (fairness
and ENABLED are beyond this prover). Every invariant and every action property of the passing runs is proved.

## 5. Not modelled, and what is left

Abstracted on purpose: pixels, embeddings, XMP and hashes (a decode succeeds or fails), progress reports and
counters, logging, rate limits, the audit log, the version and path checks of a checkpoint file, `snapshot_max_age_hours`
(any existing snapshot may be taken or refused), names and addresses of users, filters of the browser beyond the
order of rows, terminal output and the editing of presets. Delta scans are in `DeltaPipeline`, without their index.

Not modelled, and why:

* a change of the embedding model between two processes: a delta scan does not look at it (`indexer.py:569`), so an
  index could hold vectors of two models; the models have no notion of a model yet;
* configuration and start-up beyond the repair and the seeding of an administrator: read once, no concurrency;
* views, menus, polling and the search page: presentation over the requests that are modelled;
* offset paging, statistics, originals and signed links: each is one read of current state;
* the legacy sync and report scripts: run by hand, without state between two runs; to the service they are
  changes of the store, which the models leave free.

Left to do: the embedding model as a field of rows, vectors and checkpoint, with the delta scan that ignores it; the
index of a delta scan in `ScanIndex`; the search page's aborted and superseded requests.

## 6. Running

    tlc -config ScanTwoFiles.cfg MCScanIndex.tla      # likewise ScanLiveness, PausedWork, StaleVector, LostIndex
    tlc -config ScanControl.cfg MCScanControl.tla     # and PauseUndone
    tlc -config DeltaPipeline.cfg MCDeltaPipeline.tla # and DeltaMissed
    tlc -config Accounts.cfg MCAccounts.tla
    tlc -config WebClient.cfg MCWebClient.tla
    tlc -config ReadAndMirror.cfg MCReadAndMirror.tla
    tlapm ScanIndexProofs.tla                         # likewise the other modules named *Proofs

The `.cfg` of each run gives its constants; deadlock is checked where the `.cfg` does not say otherwise. The definitions
marked "Mutant" in the modules are variants of the code with a plausible bug; each property is violated when one of them
replaces the definition it stands before (`mutants` in `PROJECT.json`).
