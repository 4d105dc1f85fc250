# Second-Order: TLA+ models, checks and proofs

Second-Order takes news headlines, pays a language model for an analysis of each, keeps the analyses in
SQLite and follows what the market did afterwards. It is one FastAPI process: handlers run in a thread
pool, daemon threads refresh prices and revisit old analyses, and everything meets in one database file
and a few process-wide caches. This directory models the parts where that concurrency decides whether an
operator pays twice, loses what was paid for, or reads something that was never recorded. Five state machines cover it:

- `AnalyzePipeline`: from a request to its stored analysis and its candidate link;
- `EventRevisit`: the writers that later update the market evidence of a stored analysis;
- `MoversCache`: the persisted and in-memory caches computed from the stored events, and what clears them;
- `NewsRefresh`: the refresh of the news, its lock, the incremental cluster store and the payload caches;
- `PriceCache`: the daily bars kept from the market data provider, and the memo in front of them.

## Inventory

| Part | State it keeps | Operations | What is hard | What makes it correct |
|---|---|---|---|---|
| Analysis store (`db.py`) | `events`, `analysis_provenance`, `analysis_result_snapshot`, `analysis_request_cache` | one write transaction per bundle, delete, three kinds of lookup | crash or failure between inserts, deletes that leave sidecars, the duplicate window | whole bundles only; request hash and analysis 1:1; append-only; ids never reused |
| Analyze routes (`routes/analyze.py`, `api.py`) | the handler's locals | `/analyze`, `/analyze/stream` | look up, pay, save and link are separate sessions; two requests for the same thing; clients that leave | pay only for a confirmed miss; report only what was committed; always answer |
| Headline registry (`db.py`, `headline_registry.py`) | `headline_registry` | news upsert, backfill stamps, candidate link, expiry | three writers in any order; the link reads in one session and updates in another | lifecycle only advances; a stored link never moves; it points at a committed analysis |
| Movers backfill (`routes/movers.py`) | – | save without sidecars, registry stamps, item ranking, budgets | shares the duplicate window, the registry and the events table with the routes | as above |
| News refresh (`routes/news.py`, `api.py`, `news_cluster_store.py`) | clusters, assignments, two payload caches, a refresh lock | fetch, cluster, upsert, publish, save; cache-only reads | separate sessions for clusters, assignments and registry; rows rewritten from a copy; waiting refreshes | refreshes do not overlap; a headline counted as clustered is in its cluster; readers do not go back |
| Auto-backfill scheduler (`auto_backfill_*.py`) | lock, run state and ledger in memory | tick: policy, acquire, plan, complete, release | a dry run in this commit: it plans and records, spends nothing, and one scheduler job with `max_instances=1` runs it | – |
| Revisit capture and market refresh (`auto_revisit.py`, `market_check_freshness.py`, `db.py`) | `revisit_snapshots`, verdict columns | capture due anchors, in-place refresh | two writers recompute the same verdict from different inputs | no captured anchor is lost; the verdict reflects the stored tickers |
| Background daemons (`market_snapshots.py`, `auto_revisit.py`) | thread handle, stop event | loop, start, stop | a pass that raises; the application's lifespan starts and stops each once | the loop goes on |
| Movers caches (`movers_cache.py`, `api.py`) | persisted slices, in-memory list of the day | look up, compute, serve, invalidate | a fill racing a writer, an invalidation that fails, a restart on newer code | an outdated value is served for at most its TTL |
| Ticker memo, price cache (`market_check.py`, `price_cache.py`) | bounded memo, bars by ticker, date and adjustment | get, set, evict; plan gaps, fetch, write, read | cache-only passes next to fetching callers; only the ends of what is cached are looked at; bars of an open session | bounded; a lookup pass leaves no trace; what counts as complete lacks only what answers left out; provisional bars become final |
| Event inbox, curated candidates, telegram bot, saved studies | read models, staging rows | – | little | – |
| Overlay, statistics and research engines, frontend, scripts, tools | none shared | – | numerical and presentational | – |

How they meet: the routes, the backfill, the revisit daemon and the news refresh all write the same SQLite
file, one writer at a time (`BEGIN IMMEDIATE`, or an implicit transaction), with a busy timeout. Foreign keys are
declared and not enforced. Caches are cleared by the writers and filled by readers without a common lock.

`PROJECT.json` lists the hazards line by line, with the properties that watch each, and says of every part
whether it is modelled.

## Modules

| Module | Models | State | Actions |
|---|---|---|---|
| `AnalysisStore` | the four tables, as values | none: operators over a `Store` | – |
| `HeadlineRegistry` (extends it) | the registry | `registry` | `UpsertSeen`, `AdvanceState`, `LinkRows`, the read `LinkStatus` |
| `AnalyzePipeline` (extends it) | the two analyze routes and what runs beside them | `db`, `work`, `lock`, `now`, `pc`, `req`, `run` | one per session or external call of the handler, and the environment |
| `AnalyzeProperties` | the properties and the refinement mapping | – | – |
| `DurableAnalyses` | what the request cache promises | `analyses`, `erased`, `answer` | `Save`, `Erase`, `Answer`, `Forget` |
| `MCAnalyze` | finite instances | – | – |
| `AnalyzeProofs` | theorems about the store and the transaction | – | – |
| `ResponseProofs` (extends it) | theorems about the response, the registry and the refinement | – | – |
| `EventEvidence` | the market evidence of one event row: tickers, check stamp, snapshots, verdict | none: operators over a row | – |
| `EventRevisit` (extends it) | the writers of that evidence | `rows`, `lastId`, `writer`, `now`, `refresh`, `capture`, `due`, `visited`, `log`, `faults` | refreshes, manual revisits, the daemon's pass, and the environment |
| `RevisitProperties` | its properties | – | – |
| `MCRevisit` | finite instances | – | – |
| `AtomicEvidence` (extends `EventEvidence`) | what those writers promise each other: every write at once, a check on the tickers only, a capture on one day only | `rows`, `lastId`, `now` | `Save`, `Erase`, `Check`, `Capture`, `Wait` |
| `RevisitProofs` | theorems | – | – |
| `AtomicEvidenceProofs` (extends it) | that nothing is early, and the refinement of `AtomicEvidence` | – | – |
| `MoversCache` | persisted slices and the list of the day | `events`, `lastId`, `writes`, `past`, `unsettled`, `cache`, `today`, `now`, `version`, `pc`, `job` | reads, fills, the writers of events and what they clear |
| `NewsRefresh` | refresh, cluster store, payload caches | `clusters`, `live`, `lastRow`, `assigned`, `registry`, `unregistered`, `hot`, `stored`, `unsaved`, `shown`, `lock`, `last`, `started`, `pc`, `job` | the route, the store's sessions, the readers |
| `HeadlinePlacement` | what a refresh promises about headlines | `members`, `placed`, `listed`, `batch` | `Gather`, `Place`, `List`, `GiveUp` |
| `PriceCache` | bars and memo | `bars`, `late`, `omitted`, `memo`, `today`, `trading`, `pc`, `job` | fetching, cache-only and lookup callers, the trading day |
| `MoversProperties`, `NewsProperties`, `PriceProperties` | their properties | – | – |
| `MCMovers`, `MCNews`, `MCPrices` | finite instances | – | – |
| `MoversProofs`, `NewsProofs`, `PriceProofs` | theorems | – | – |
| `MemoProofs` (extends `PriceProofs`) | theorems about the memo | – | – |

**Store.** A table is a set of rows and a store is one version of the file. `db` is the committed version, `work` the one the
open write transaction sees (equal to `db` when no transaction is open), `lock` who holds SQLite's
write lock. A row carries its key and, in `by`, the request whose analysis it holds; the other columns are
abstracted. A headline stands for the pair (headline, event date). A request hash is the request basis itself: the headline, the
context and the macro backdrop that ends up in the prompt. Provider, model and contract versions do not change while the process runs.

**Handler.** `pc[r]` walks through the handler; `req[r]` is the body, `run[r]` the locals and the response. Both routes take the same steps in the same order, so they are one handler; the
streaming route adds the frames at which a client may leave, which is `Abort`. A numeric id in a body is one that was handed out before, alive or deleted.

| Action | Code |
|---|---|
| `LoadById`, `Lookup`, `LegacyLookup`, `Gate`, `ConfirmedBasis`, `CallProvider` | `routes/analyze.py` 907-991 |
| `BuildRecord` | `_build_event_record`: the row's timestamp is taken here, before the wait for the lock |
| `BeginImmediate` | the lock is free, or the busy timeout raises |
| `InsertEvent`, `DuplicateId` | `_insert_event_row`: `_is_duplicate` and `_duplicate_event_id` read the clock one after the other |
| `InsertProvenance` … `InsertMapping`, `Commit`, `Rollback`, `WriterRaises` | the rest of `save_event_with_analysis_provenance` and its transaction |
| `LinkRead`, `LinkUpdate` | the two sessions of `link_candidate_analysis` |
| `Respond` | `_fresh_provenance_summary` and the response |
| `DeleteEvent`, `SaveUnmapped`, `BackfillStamp`, `NewsRefresh` | the other writers of the same tables |
| `ClockMoves`, `Crash` | wall-clock time, which also goes back; process death |

`Uncaught` lists the labels where the code has no `try`: an exception there is a 500. A lookup of the durable cache that
raises is taken for a miss by the code; `ReadFaults` turns that on.

**Evidence of an event.** A row of `EventEvidence` has a date, the save time, its ticker list, the stamp of the last market
check, a snapshot per revisit day and the verdict. The ticker list is abstracted to what the code's decisions
distinguish: whether it is empty, whether some ticker carries a return (`data`), and what the majority of the direction tags says
(`tag`, "none" for a list without a directional tag). `Label` is the majority rule of `score_validation_outcome`, which the falsifier block uses; the proof block counts the same tags per channel.
Both are functions of the ticker list and of columns nobody rewrites, and every writer recomputes both, so one `verdict` stands for the two. A snapshot is the
direction it carries; `captured_at` is read by no decision. The provider's answer is any set of days whose return exists by now,
with any direction if the day the tags come from is among them.

**Writers.** `refresh[r]` is a call that ends in `update_event_market_refresh`, `capture[c]` one that appends snapshots: a manual
revisit, or the daemon's pass, which also has `due`, `visited` and `log`. Both daemon and route end in the same `append_revisit_snapshot`, hence the shared capture actions;
`Continue` says what each does next. `writer` is the holder of the write lock between `BEGIN IMMEDIATE` and `COMMIT`. One unit of
`now` is a day for the anchors and an hour for the staleness windows: only orders of times matter to the code, and the windows are constants.

| Action | Code |
|---|---|
| `LoadForRefresh`, `Decide`, `FetchReturns`, `RefreshFails` | `refresh_market_for_saved_event` and its callers: cached answers, refresh-market, backtests, backfill |
| `CheckMarket` | the backfill's own `market_check`, for rows without tickers and re-analyses |
| `Persist` | `update_event_market_refresh`: its read takes two columns that never change, so read and `UPDATE` are one step |
| `LoadForCapture` | `POST /events/{id}/revisit` loading its event |
| `FetchFollowup`, `FollowupFails` | `followup_check`, without the lock |
| `AppendRead`, `AppendWrite`, `AppendFails` | `append_revisit_snapshot`: the lock and the read, the `UPDATE` and `COMMIT`, the busy timeout or `ROLLBACK` |
| `StartPass`, `NextEvent`, `EndPass` | `capture_due_snapshots`: discovery over the newest rows, the reload of each event, the return |
| `PassRaises` | an exception outside the pass's `try` blocks, caught by the daemon's loop |
| `SaveEvent`, `DeleteEvent`, `Tick`, `Crash` | the rest of the program, the clock, process death |

**Movers caches.** A payload is the rows it was computed from: which of them are shown and how they are ranked is a function of those.
A row of `events` is its two stamps, `saved` (the column `timestamp`) and `checked` (`last_market_check_at`), both taken before the commit, and the number and the time of the write that produced it.
The list of the day is read in passes of three sessions, each a step: what was saved in the window, what was checked in it (a failure is swallowed), and the newest rows that match the window with some slack (likewise);
a row that an earlier session returned is kept. Whether rows score anything is left open, so `TodayWiden` may discard any first pass for one that looks further back, and must discard one without rows.
The `active_mover_windows` hint is no column of the table and left out. `past` (rows replaced or deleted), `unsettled` (rows refreshed and not yet followed by an
invalidation), the `clean` flags (no write since the rows were loaded), and the `cutoff` and `whole` (second session answered) kept with the list are history variables; no guard reads them. A read starts with `force` off and refresh
allowed, as the routes call it. Restart keeps the persisted slices, clears memory, and may bring newer code.

| Action | Code |
|---|---|
| `StartSlice`, `LoadCache`, `CheckFingerprint`, `Serve` | `movers_cache.get_slice` and the sessions it opens |
| `FillLoad`, `FillStamp`, `FillPersist` | `_recompute_and_persist`: the events, the fingerprint after the computation, the save with the `now` of the start |
| `ReadEndsEarly` | a session, the computation or the save that fails |
| `StartToday` … `TodayStoreTs` | `api.movers_today`: the check, the second read of the dict, the three sessions of each of the two passes, the two stores |
| `SaveEvent`, `RefreshEvent`, `DeleteEvent` | the commit of each writer of `events` |
| `Invalidate`, `InvalidateFails` | `movers_cache.invalidate` in `update_event_market_refresh` |
| `ClearSlice`, `SlicesCleared`, `ClearToday` | the delete route and the legacy shim, one slice at a time, each of which may fail; the reset of the list of the day |

**News.** A record is the (source, title key) under which a headline is assigned. Which headlines resemble each other is left open: a batch's cluster takes any new
records and merges into any live row or none, so the properties hold for every clusterer. Payloads carry only the number of the refresh that published them. `unregistered`, `unsaved` and `shown` are history variables.

| Action | Code |
|---|---|
| `StartRefresh`, `TryLock`, `Acquire`, `FinishRefresh`, `Release` | `routes/news.news_refresh`: cooldown, lock or last payload or wait, recording the payload, the release in `finally` |
| `FetchFeeds`, `TagFails`, `Publish`, `Save` | `api._fetch_fresh_news`: the feeds, the tagging outside any `try`, the hot copy, the persisted row |
| `Partition`, `LoadActive`, `MergeGroup`, `InsertGroup`, `GroupsDone`, `StoreAssignments`, `StoreRegistry`, `StoreFails` | `news_cluster_store.refresh_clusters`, one action per session |
| `StartGet`, `GetStored`, `GetFails`, `GetServe` | `api._read_news_cache_state`: hot, persisted at any age, stale hot |
| `Archive` | a cluster leaves the recency window |

In `AnalyzePipeline` the same refresh is the single step `NewsRefresh`, which upserts registry rows: the routes meet it only there.

**Prices.** Days are business days. A bar is told apart only by whether it has a close and whether its session was still open when the provider returned it. An answer to a gap is any non-empty part of it, as
the code takes any non-empty frame: it may leave days out (holidays, rows without a close that an adapter skips, suspect rows that `_write_rows` drops) and have rows without a close, which are stored as NULL and count as cached.
The ghost `omitted` keeps the days that the last answer stored over them left without a close, `late` the bars written open after their session had closed. An entry of the memo is told apart by its key and by
the lookup pass that stored it. A key is a trailing adjusted window (`_fetch`) or raw bars from a start date (`_fetch_since`). A TTL may end at any time, so `Miss` is always possible.

| Action | Code |
|---|---|
| `StartRead`, `EndRead` | a caller with its windows: a POST route or the warmer, a GET behind `no_provider_fetch`, the lookup pass of `/analyze` |
| `Hit`, `Miss`, `SetMemo`, `NoBars` | `_cache_get`, `_cache_set` and what `_fetch` and `_fetch_since` keep |
| `PlanFetch`, `ReadBlocked`, `AskProvider`, `WriteRows`, `Reread` | `fetch_daily_cached`: read and plan, the cache-only return, each gap's provider call with a whole, partial or empty answer, its upsert, the last read |
| `Evict` | `evict_ticker_cache` in the `finally` of `_read_only_macro_context` |
| `CloseSession`, `NextDay`, `Restart` | the market's clock, the process |

**Fault operators.** Operators introduced by "Fault:" are not part of the model. Each is the definition next to it with one plausible
mistake (a dropped check, a rollback that commits, a lock without timeout); putting it in place must break the property it is
paired with in `PROJECT.json`, which shows that the property can fail.

## Runs

| Run | Instance | Question |
|---|---|---|
| `analyze_store` | 2 slots, 1 headline, 2 backdrops, 1 candidate, 2 ids, clock 0..2, legacy window 1 | are bundles whole, identities 1:1, sidecars append-only; is only a miss paid for; does the weak match stay off mapped rows; is a paid answer true |
| `analyze_link` | 2 slots, 2 backdrops, 1 candidate, 2 sources, 2 ids | do links point at committed analyses and stay, does the lifecycle only advance, is a sealed provenance a stored one |
| `analyze_durable` | 2 slots, 2 backdrops, 2 ids, cache reads may fail, fairness | does the pipeline implement `DurableAnalyses`; does every request end |
| `paid_run_is_saved` | 1 slot | finding 1 below |
| `link_has_provenance` | 1 slot | finding 2 below |
| `revisit_race` | 1 event, 1 refresh, 1 revisit, the daemon, 2 days both due, clock 1..2 | is the verdict that of the stored tickers, is no captured day lost, is the log true, is every due day accounted for; do the writers implement `AtomicEvidence` |
| `revisit_pass` | 3 events, 2 of them scanned, the daemon alone, 1 day, 1 fault, fairness | is every due event accounted for, is what is due tried, does each pass end |
| `daemon_overwrites` | 1 event, 1 revisit, the daemon | finding 3 below |
| `movers_cache` | 1 slice, 2 handlers, 2 ids, 3 writes, clock 0..1, slice TTL 0, list TTL 1, windows 0 and 1, 1 newest row, 1 newer version | is what was not raced current, and what was raced hidden for at most the TTL |
| `news_refresh` | 2 records, 2 handlers, 2 cluster rows, 3 refreshes | do refreshes exclude each other, is no assigned headline lost, does the registry agree, do readers go forward; does the refresh implement `HeadlinePlacement` |
| `price_cache` | 1 ticker, 1 start date, windows of 3 days, memo of 1, 2 threads, 4 days, 1 day at a time late or left out | is the memo bounded and clean of lookups, does what counts as complete lack only what answers left out, do adjusted bars settle |
| `raw_settles` | 1 ticker, 2 threads, 2 days | finding 4 below |

Bounds. Two slots give every race between two requests, and slots restart (`Start` from `done`), so a sequence of requests of any
length is explored. Two ids let a row be saved, deleted and saved again, and let a duplicate and its original differ. Two backdrops give two different hashes for one headline: the case where the weak
headline match and the exact hash disagree. Three clock values and windows of 0 and 1 put a row inside both windows, inside the
legacy one only, and outside both; the clock moves to any value, so it goes back as well. Two sources are the least for which a candidate can be
partly linked. When the ids run out `InsertEvent` no longer inserts and the writer raises instead.
`OnlyLinkingRuns` cuts, in the link runs, requests that never reach the save: they write nothing, so no
property of those runs depends on them. Request slots, backdrops and sources are interchangeable, and the safety runs use them as symmetry sets; the run with
liveness does not use symmetry.

For the evidence, one event is enough for the races: the writers share nothing but rows, the lock and the clock. Two days
make an append follow an append of the same pass, which is where a stale snapshot list would drop a day; `Direction` has one member there because
overwriting needs only a tag and its absence. `MinTime` = 1 lets the first day be due at once and `MaxTime` = 2 the second. The pass needs more
events and fewer racers: three events with `ScanLimit` 2 push an old one out of the scan, and the clock stands still, so `DueIsTried` cannot hold there because windows close.
`MaxFault` bounds crashes and raising passes together, `MaxEvent` the ids (an id is not used again, the table has `AUTOINCREMENT`). `revisit_race` has no fault, which
`revisit_pass` and the proofs cover.

Movers: two ids and three writes let a row be saved, deleted and another saved, which brings the count back, or refreshed in the middle of a fill.
The handlers are writers and readers alike, so a fill can be raced by one writer between any two of its steps. With TTL 0 and two clock values an entry is on time or late; one slice suffices because slices share
only the table and are cleared one by one. A writer's number bounds `writes`, so the run covers every history of three commits.
Windows of 0 and 1 and stamps up to one unit older than their commit put a row inside both windows, inside the wide one only, or inside by its check but not by its save; `RecentLimit` 1 hides the older of two rows from the third session; `EdgeGrace` is 0, as five minutes are less than a unit.
`OneSurface` bounds the product of the two surfaces: the persisted slices and the list of the day share the events and nothing else, and a behaviour goes on with one of them filled or read at a time.

News: two records and two rows are the least for which a merge can drop a record of another refresh; three refreshes let the second wait for the first and a third follow it.
`MaxStart` numbers the payloads; a handler that is about to get the lock has its number reserved, so the bound never blocks one that holds it.

Prices: windows reach back `Period` = 2 days, the least for a day inside a window, and four days let windows that differ at both ends be fetched and written in another order than their dates, with a gap failing in each: the case where a hole could appear.
`OneAccident` (a `CONSTRAINT`) keeps the run to one day at a time that was written late or left out: an answer that leaves out the day in the middle, a NULL row and a trailing day that is not answered again all happen; the theorems hold for any number.
The start date 4 makes the raw key exist on the last day only, beside the adjusted one: two keys for a memo of one entry. `raw_settles` needs a session's close and the next day, no more.
The three new machines have no liveness property and no fairness: their readers have nothing to wait for but the refresh lock, and `LockIsHeld` is what keeps that lock from being left behind.
Handlers (and records) are interchangeable there and are symmetry sets.

Fairness. In `AnalyzePipeline`, `FairSpec` gives weak fairness to `HandlerStep(r)` for every slot: the thread pool runs a handler it has started, and every blocking
call in it returns (the provider client and SQLite have timeouts). Nothing is assumed of the environment: no request has to arrive, no clock has to move, nothing has to be deleted. `EveryRequestEnds` therefore rests on `BeginImmediate`
giving up while another request holds the lock, and on every path out of the transaction releasing it.
`FairSpec` of `EventRevisit` does the same for a started refresh, a started revisit and for `PassStep`, the daemon's thread,
whose timer starts pass after pass. It assumes neither that a provider answers (it may fail each time) nor that anybody calls, deletes or saves. Deadlock is checked in every run and none exists; a handler of `NewsRefresh` that waits for the lock always has a holder that can move.

### Properties

- `CompleteBundle`, `RequestIdentity`: what a reader of the committed file sees, at any moment.
- `SidecarsAppendOnly`: what no step may do to saved provenance, results and identities.
- `LegacyAnswerUnmapped`: a row with an exact identity is never served by headline, not even while the answer is being read.
- `PaysOnlyForAMiss`: when a step may lead to the provider.
- `SealedIsRecorded`, `LinkedWasCommitted`: the response and the registry against the committed file.
- `FreshIsAccountedFor`: a paid answer names a committed id of its own headline, or reports a persistence error and no id, provenance or link; an integrity error always comes from a mapping of the very same request, never from an id that was used before. It names nothing and reports no error only when a duplicate left the window between its check and the lookup of its id (below).
- `LinkNeverMoves`, `RegistryForward`: what no writer of the registry may do, in any order.
- `ImplementsDurableAnalyses`: the refinement. Saved analyses are the snapshots, erased are those whose event is gone, an answer is a response from the durable cache. Transactions, races, rollbacks and crashes become one `Save` at `COMMIT` or nothing.
- `EveryRequestEnds`: liveness.
- `VerdictMatchesTickers`: two writers that each recompute the verdict from what they read leave the verdict of the tickers that are stored.
- `CapturesKept`: a captured day stays captured while its row exists, although each append writes the whole snapshot list back.
- `ImplementsAtomicEvidence`: the refinement. Calls that wait for a provider between their read and their write, the write lock, rollbacks and crashes become single writes: a check replaces tickers, stamp and verdict and keeps every snapshot captured meanwhile, a capture replaces one day's snapshot, never before that day has come, and keeps the tickers and the verdict checked meanwhile. An erased event stays erased although calls that loaded it come back. It does not protect a refresh from a refresh: `AtomicEvidence.Check` takes any list and stamp, because the code writes a list loaded before the provider call (below); the run has one refresh, the theorem any number.
- `CapturedIsStored`, `PassIsComplete`: the daemon's log against the rows; an entry "captured" is true, and a pass that returned has an entry for every day it found due, unless somebody else captured it or deleted the event.
- `DueIsTried`, `EveryPassEnds`: one failing event, day or append neither stops the pass nor keeps it from the others.

- `CleanEntryIsCurrent`: row count and largest id, which is all a slice's entry is checked against, suffice for every history of saves, deletes and refreshes, except for a refresh whose invalidation is still to come or failed.
- `HitWithinTTL`: however a fill and the writers raced and whatever failed, a hit hides a write for at most the TTL; it rests on `built_at` being the time the request started.
- `CleanTodayIsCurrent`: no order of commits, sessions, passes and clears leaves an outdated list of the day that nothing raced. It shows no deleted and no replaced row, it has all that was saved in its window, and all that was checked in it unless the second session failed.
- `LockIsHeld`: two refreshes never overlap, and no failure leaves the lock behind.
- `AssignedIsStored`: a headline that will never be clustered again is in the row it was assigned to, although rows are rewritten from a copy loaded earlier and by separate sessions.
- `AssignedIsRegistered`: the registry agrees with the assignments; a failed or cut-off upsert is the only exception, and is never repaired.
- `ImplementsHeadlinePlacement`: the refinement. A cluster row only gains headlines; a headline without a place gets one, for good, in a row it is already in, its batch as a whole; and the batch is listed in the registry as a whole, or given up, before the next one is placed.
- `NewsGoesForward`: a second GET shows older news than the first only while the newest payload is not persisted, or when the row cannot be read.
- `MemoBounded`, `LookupLeavesMemo`: the shared memo under concurrent stores, expiries, evictions and failing passes.
- `CompleteUpToOmissions`: the planner looks at the first and the last cached day only, and yet what a lookup calls complete lacks only closes that the last answer stored over their day left out. Failed gaps, failed writes and fetches in any order leave no hole of their own; answers do (below).
- `AdjustedSettles`: a bar stored while its session was open is final before a later day is stored, unless it was written after its session had closed or the answer that fetched the day again left it out.

### What the code does not keep

1. **A deleted analysis cannot be bought again** (`PaidRunIsSaved`). `delete_event` leaves the request mapping. The next identical request is
   a miss, asks for confirmation, pays, and its bundle then always fails on the mapping's primary key and
   rolls back: paid, shown, never saved, as often as it is repeated.
2. **A link without a recorded basis** (`LinkHasProvenance`). A candidate's run that falls into the 10-minute window of a row saved for the
   same headline returns that row's id, and the candidate is linked to it. A row of the backfill or of a
   direct run has no provenance. The same collapse leaves the run's own request hash unsaved.
3. **The daemon overwrites a manual capture** (`DaemonNeverOverwrites`). The reload that is to prevent it comes before the provider call; a capture that
   lands during the call is replaced. The test that asserts the guard lets the capture land before the reload.
4. **A provisional close stays** (`RawSettles`). Raw bars are documented as historical facts that never change, but a raw window ends today, so a fetch during the session
   stores that day's provisional bar, and the next fetch plans only what comes after it. Adjusted bars are fetched again for one day, raw ones are not.

Seen while modelling, without a run of their own:

- A duplicate is found by one reading of the clock (`db.py:1085`) and its id by another (`db.py:1139`). When the 10-minute edge passes in between (or the wall clock jumps) the id is `None`: the transaction commits nothing, nothing raises, and the paid answer has neither an id nor a `persistence_error`. `_duplicate_event_id` says a caller "still gets a usable one instead of `None`" (`db.py:1137`), `save_event_with_analysis_provenance` that a skip "returns the existing id" (`db.py:3857`), and the route that the id is "`None` whenever the save failed or the request carried no candidate identity" (`routes/analyze.py:1036`). `FreshIsAccountedFor` therefore allows that outcome, for a duplicate only.
- The slower of two runs of one candidate finds no unlinked row and returns `no_rows` (`db.py:3980`), documented at `db.py:3958` as a candidate the registry never knew; its response reads `VERIFIED_CURRENT` although the candidate points at the other analysis.
- A second session that fails is swallowed, and the list without the rows it would have returned is dated like a full one (`api.py:3585`, `3730`): re-checked older events stay away from `/movers/today` for five minutes. `CleanTodayIsCurrent` owes them only to a list whose second session answered.
- With nothing to check, a refresh is commented as stamping the row only, but writes back the whole ticker list it loaded (`market_check_freshness.py:486`) and undoes what the backfill stored meanwhile.
- The verdict is recomputed on every append "so the stored status reflects the newly-appended revisit row" (`db.py:1634`), by evaluators that read only the ticker rows (`proof_evaluator.py:292`, `413`).
- "Complete" is commented as "the persisted rows already COVER the requested window" (`price_cache.py:582-583`), but any non-empty answer is taken for its whole gap (`613`): a day inside that it left out, a suspect row that was dropped (`433-437`) or a row without a close (`423`) is not fetched again, since only the first and the last cached day are looked at (`499-500`), and the window counts as complete without it. For a holiday that is right; for a close the provider had not yet, it is not told apart. `CompleteUpToOmissions` states what does hold.
- A frame that a GET stored in the memo behind `no_provider_fetch` is hit by a lookup without being recorded, so it is neither evicted nor asked whether it was complete; and the eviction drops what a fetching caller stored meanwhile, although `market_check.py:362` says that the memo is left as it was found.

## Proofs

All theorems hold for every value of the constants that satisfies the named assumptions.

`AnalyzeProofs` proves, for any sets of requests, headlines, contexts, backdrops, candidates and sources, any window lengths and any bounds:

| Theorem | Property |
|---|---|
| `InvariantHolds` | `Spec => []IInv` |
| `TypeCorrect` | `TypeOK` |
| `BundlesAreComplete` | `CompleteBundle` |
| `RequestsAreIdentified` | `RequestIdentity` |
| `SidecarsAreAppendOnly` | `SidecarsAppendOnly` |
| `SealedRunsAreRecorded` | `SealedIsRecorded` |

Assumptions: the named `ASSUME`s of `AnalysisStore` (headlines and contexts exist, windows are naturals, `Unmapped` is not a request) and of
`AnalyzePipeline` (sentinels are outside the sets they extend, bounds are naturals). TLC evaluates them in every run.

Argument. `CompleteBundle` is not inductive: nothing in it says that the half-written store of the open transaction will be whole when it
commits. `IInv` adds exactly that:

- `LockOK`: the lock is held by the one request inside its transaction, and `work = db` when nobody holds it; so a transaction's view changes by its own steps only.
- `BasisOK`: from the confirmed basis on, a request carries a hash of its own headline; so the row and its sidecars agree.
- `TransactionOK`: at each label of the transaction, `work` is `db` plus precisely the rows of the stages already passed, under the next id of `db`; at `commit` it is unchanged (a duplicate) or the whole bundle, with a free request hash.
- `StoreOK(db)`: ids below the sequence, unique keys, snapshots and mappings in bijection, provenance and analysed events covered by a snapshot.

`OnlyCommitWrites` splits every step into those that leave `db` alone, `Commit`, `DeleteEvent` and `SaveUnmapped`. `CommitAddsBundle` shows that the
bundle stage extends `db` by one row of each table under a fresh id, `BundleOK`, `UnmappedOK` and `DeleteOK` that each of the three writes keeps
`StoreOK`. `TransactionStep` carries the stages: a request's own step advances its stage, and no other request can step while it holds the lock.
`SealedRunsAreRecorded` adds one invariant on top, `SealOK`: the provenance row of a sealed run is in `work` while the transaction is open and in `db` afterwards, where `SidecarsAreAppendOnly` keeps it.

`ResponseProofs` builds on that invariant:

| Theorem | Property |
|---|---|
| `LegacyAnswersAreUnmapped` | `LegacyAnswerUnmapped` |
| `PaysOnlyForAMissAlways` | `PaysOnlyForAMiss` |
| `LinkedWasCommittedAlways` | `LinkedWasCommitted` |
| `LinkNeverMovesAlways` | `LinkNeverMoves` |
| `RegistryForwardAlways` | `RegistryForward` |
| `FreshIsAccountedForAlways` | `FreshIsAccountedFor` |
| `PipelineImplementsCache` | `ImplementsDurableAnalyses` |

Argument. What a run carries in its locals is tied to the committed store, one small invariant per property. `LegacyOK`: the row a run was answered with by headline has an
id the store has handed out and no mapping; it stays so because new mappings are above the sequence (`Extends`). `GateOK`: a run past the lookups that still names an id names a deleted one,
and a run at the confirmed basis has been confirmed. `LinkIdOK`: the id a run is about to link has been committed. `RegistryKeys` (one row per source and title) makes each writer of the registry
a function of a row that keeps its key and does not lower its rank (`Advances`), which gives both registry properties.
`OutcomeOK` follows what a run will report: nothing until its insert, then an id that the view of its transaction has under its own headline (or none, and a row of the headline there: `HasRow`), then what `Told` says. A rollback resets it (`RolledBack`), `SidecarOutcome` shows from `TransactionOK` that the
provenance and the snapshot of a new id never meet an old row, so only the request hash can be taken; and `SavedStays` that later commits and deletes take nothing back.
For the refinement, `Answered` lists what a step may answer with and `AnsweredOK` says that only a finished run has an answer. `CommitRefines` maps a commit to `Save` or a stutter,
`AnswerRefines` every other step of a run to `Answer` or `Forget` (of nobody, when it answers nothing), `EnvironmentRefines` a delete to `Erase`, a crash to `Forget` and the rest to stutters; `MappedStep` turns these into a step of `DurableAnalyses`.

`RevisitProofs` proves, for any numbers of refreshes, revisits, events and days, any windows, scan limit and bounds:

| Theorem | Property |
|---|---|
| `EvidenceInvariant` | `Spec => []IInv` |
| `EvidenceTypeCorrect` | `TypeOK` |
| `VerdictsMatchTickers` | `VerdictMatchesTickers` |
| `CapturesAreKept` | `CapturesKept` |
| `CapturedAreStored` | `CapturedIsStored` |
| `PassesAreComplete` | `PassIsComplete` |

Assumptions: the named `ASSUME`s of `EventEvidence` (days are positive, the daemon's are among the route's, directions are the two the code has,
nulls are not values) and of `EventRevisit` (the daemon is not a revisit slot, bounds are naturals). TLC evaluates them in both passing runs.

Argument. An append computes its verdict and its snapshot list from `capture[c].read`, so neither property is inductive without knowing that nobody
wrote the row since. `IInv` says so:

- `LockOK`: the lock is held exactly by the capture that is between its read and its write;
- `ReadOK`: what that capture read is still the row; it rests on `LockOK`, because every writer of `rows` needs the lock or is that capture;
- `RefreshOK`, `CaptureOK`: a call under way has an event, its base row, and a day to append (so that `Day`, a minimum, exists: `MinIn`);
- `IdsOK`: a row that has been deleted does not come back under its id.

`RowWriters` splits every step into the four that write rows and the rest, and `StepKeepsCaptures` shows that each keeps the captured days: a refresh
does not touch them, an append adds one to what `ReadOK` says the row has. `CapturedAreStored` adds `LogOK`: what is logged as captured was stored
by the step that logged it (`CapturedEntries`), and stays by `StepKeepsCaptures`. `PassesAreComplete` adds `PassOK`: during a pass every due day is settled
(logged, captured, or its event gone) or pending (its event is to come, or the day is among those at work). What is settled stays settled
(`SettledStays`, from the two results above), each step of the daemon's capture logs what it takes off its list (`StepHandles`), `NextEvent` puts an
event's days to work or logs them, and the pass returns only when no event is to come and no day at work.

`AtomicEvidenceProofs` proves, for the same constants:

| Theorem | Property |
|---|---|
| `NothingIsEarly` | `Spec => []TimeOK` |
| `EvidenceIsAtomic` | `ImplementsAtomicEvidence` |

Argument. A call carries days and a stamp from before its wait, so a step of the detailed machine is an atomic write only if these still fit. `TimeOK` says so: the stamp of a refresh under way is not ahead of the clock, and every day a capture
still has to append has come for the event as it is, if it is still there; dates, save times and the clock only allow more as time goes on. Together with `ReadOK` and `VerdictMatchesTickers` of `IInv`, `PersistIsCheck`, `AppendIsCapture`, `SaveIsSave` and `DeleteIsErase` map each of the four writers that `RowWriters` lists to
the action of the same meaning, and every other step, crashes included, is a stutter or `Wait`.

`MoversProofs` proves, for any slices, TTLs, handlers and bounds:

| Theorem | Property |
|---|---|
| `MoversTypeCorrect` | `TypeOK` |
| `CleanEntryIsCurrentAlways` | `CleanEntryIsCurrent` |
| `HitWithinTTLAlways` | `HitWithinTTL` |
| `CleanTodayIsCurrentAlways` | `CleanTodayIsCurrent` |

Argument. Three invariants on top of the types. `EntryInv`: ids are handed out once (`IdsOK`), a fill that nothing raced holds the current rows and their fingerprint (`FillOK`), and a clean entry
`Matches`: no id up to its largest one came back since, and rows it shows differently are unsettled. Then an equal count and an equal largest id leave no id removed and none added
(`SameFingerprint`; `MaxOfNaturals` supplies that a largest id exists). `AgeInv`: what was read at time b or later has every row written before b and none replaced before b (`Since`), for the cache, the fills and the readers;
revisions number the writes, so a replaced row is not mistaken for a new one. `TodayInv`: what the sessions of a pass have read without a write in between is `TrueSince` its cutoff, and so is a clean list, or a writer is still to clear it; `SessionKeepsTrue` is the merge of one more session.

`NewsProofs` proves, for any finite sets of records and handlers and any bounds:

| Theorem | Property |
|---|---|
| `NewsTypeCorrect` | `TypeOK` |
| `LockIsHeldAlways` | `LockIsHeld` |
| `AssignedIsStoredAlways` | `AssignedIsStored` |
| `AssignedIsRegisteredAlways` | `AssignedIsRegistered` |
| `NewsGoesForwardAlways` | `NewsGoesForward` |
| `PlacementIsImplemented` | `ImplementsHeadlinePlacement` |

Argument. `LockIsHeld` is inductive with the types, where `Numbers` keeps the count of started and waiting refreshes in its bound; `OneRefresh` follows. `StoreOK` adds what the one refresh holds in its locals:
its copy of each row it knows is that row, because nobody else writes rows meanwhile, and each pending assignment names a row that has the record. `RegistryOK` adds that what is about to be registered
is noted as unregistered. `PayloadsOK`: payloads are numbered in the order the refreshes hold the lock, and unless `unsaved` nothing shown, hot or in a reader's hands is newer than the persisted row.
For the refinement the batch of `HeadlinePlacement` is what the refresh at its registry upsert has pending (`Registering`). `StoreWriters` splits every step into those that leave the three tables and that batch alone and five that do not. A merge is a `Gather` because the refresh's copy is the row (`StoreOK`), an insert because a row that
has not been handed out is empty (`FreshRows`); the assignments are a `Place` because `OneRefresh` leaves no other batch and nothing in it has a row yet; the upsert is `List` or `GiveUp`, a restart `GiveUp`.

`PriceProofs` proves, for any tickers, start dates, window length, memo size, threads and days:

| Theorem | Property |
|---|---|
| `PriceInvariant` | `Spec => []PriceInv` |
| `CompleteUpToOmissionsAlways` | `CompleteUpToOmissions` |
| `AdjustedSettlesAlways` | `AdjustedSettles` |

Argument. `PriceInv` speaks of one series at a time. A day is `Answered` if it has a close or the last answer stored over it left it out; a write answers its gap and every day that was answered stays so (`WrittenAnswered`), whatever part of the gap the answer has.
`Convex`: within a window of yesterday or today, every day between two cached days is answered. `Settled`: a bar that still owes its final value is the last one cached. Both have to survive the writes of threads that planned earlier, so `ThreadInv` ties each gap that is
planned or being answered to the cache: it is the whole window, or a prefix or suffix planned against days that are still cached (`Attached`), so it stays attached whatever other threads write in between, and it includes every bar still owed before its last day (`GapOK`). An answer stays within its gap, so no row lands outside.

`MemoProofs` proves, for the same constants and any size of the memo:

| Theorem | Property |
|---|---|
| `MemoInvariant` | `Spec => []MemoInv` |
| `TypeOKAlways` | `TypeOK` |
| `MemoBoundedAlways` | `MemoBounded` |
| `LookupLeavesMemoAlways` | `LookupLeavesMemo` |

Argument. What a call drops from the memo is the recursive function `Left`. `SetInduction` derives induction over the naturals, for a set of numbers instead of a predicate, from the least element of its complement
(`WFMin`); with it `LeftFacts` shows by induction over the length that what is left are entries of the memo whose keys were not dropped, no key twice, and fewer than before if a dropped key was there. `MemoInv` says
that no key has two entries, that the memo keeps to its size, and that every entry is `Owned`: one a lookup pass stored is of a ticker that the same pass, still under way, has noted as read. So the eviction at the pass's end, which runs however the pass ends, leaves none of them.

Assumptions: the named `ASSUME`s of the three modules (bounds are naturals, sentinels are no values, `NoReq` is no handler, start dates are days), which TLC evaluates in the runs; in the models themselves, that an
answer has no day outside its gap, that a call crosses at most one midnight (`NextDay`), and that start dates are not in the future (the code clamps them before the key is made).

Only model-checked: `EveryRequestEnds`, `DueIsTried` and `EveryPassEnds` (liveness under fairness is outside the prover), and the violated statements, which have counterexamples. Every other property of a run is a theorem.

## Not modelled

- The contents of an analysis, of a prompt and of the hashes: only which request produced which row. The classification, overlay and statistics engines are functions of their input without shared state.
- The other in-place updates of an event row (review, overlays, context, the `event_date` backfill): they change no key, no sidecar and none of the columns of `EventEvidence` but the date.
- In `EventRevisit`, when a snapshot was captured. The invalidation that follows a refresh is in `MoversCache`.
- The start and stop of the daemon threads: the application's lifespan (`api.py:191-246`) calls each once, so two loops at once do not arise.
- The auto-backfill scheduler: it is a dry run in this commit. It plans and records, spends nothing, its ledger is never charged, its lock and run state are in memory, and one scheduler job with `max_instances=1` drives it, so two ticks do not meet and a restart has nothing to recover. When its ticks start to spend, lock, state and ledger deserve a module.
- In `PriceCache`: the info and chart keys of the memo, the purge of suspect rows (it matches what `_write_rows` drops, so it finds only rows of an older version), the `price_cache_refresh` command, which days are holidays, and time zones.
- In `NewsRefresh`: feed parsing, similarity, the contents of payloads, the trend and inbox read models. The hot payload's TTL may end at any time.
- The expiry stamp of low-impact headlines: `stamp_expired_if_observed` passes `now` where the registry's impact level belongs (`headline_registry.py:101`), and stored rows carry no conviction block, so it never stamps them. Selection, ranking and budgets of the movers backfill.
- Provider and market data: a call returns an answer, a mock, or raises.
- Frontend, scripts, one-off tools.

## Plan

Done: the five state machines above, an inductive invariant for each, and the refinements of `DurableAnalyses`, `AtomicEvidence` and `HeadlinePlacement`.

1. The remaining in-place updates of an event row, composed with the dates `EventRevisit` and `MoversCache` read.
2. The drift verdicts of stored provenance, as operators checked against a reference definition.
3. The contract between the lookup pass of `PriceCache` and the backdrop of `AnalyzePipeline`: a confirmed run's request basis against the bars its prompt was built from.
4. An abstract movers cache (a reader is served a table that was current within the TTL) that `MoversCache` refines.
