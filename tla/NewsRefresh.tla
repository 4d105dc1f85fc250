----------------------------- MODULE NewsRefresh -----------------------------
(* POST /news/refresh and the readers of its two caches: the refresh lock   *)
(* and cooldown (routes/news.news_refresh), the incremental cluster store   *)
(* (news_cluster_store.refresh_clusters) and the hot and persisted payloads *)
(* (api._fetch_fresh_news, _read_news_cache_state).  An action is one       *)
(* database session, one call to the feeds or one access to shared memory.  *)
(* Which headlines resemble each other is not told apart: a new cluster     *)
(* takes any of the new records and merges into any live cluster or none.   *)
EXTENDS Integers, FiniteSets

CONSTANTS
    Record,         \* (source, title key) of a headline
    Req,            \* handler threads
    NoReq,
    MaxCluster,     \* rows of news_clusters
    MaxStart        \* refreshes that get to the feeds

ASSUME NewsBoundsAreNatural == {MaxCluster, MaxStart} \subseteq Nat
ASSUME NewsSetsAreFinite == IsFiniteSet(Record) /\ IsFiniteSet(Req)
ASSUME NoReqIsNoReq == NoReq \notin Req

VARIABLES
    clusters,   \* news_clusters: the records of each row
    live,       \* rows whose latest_published_at is in the recency window
    lastRow,    \* the rows are 1..lastRow; none is ever deleted by the server
    assigned,   \* news_headline_assignments (0: no row)
    registry,   \* headline_registry.cluster_id (0: no row)
    unregistered,   \* assigned records whose registry upsert failed or was cut off (ghost)
    hot,        \* the payload in _news_cache; its TTL may end at any time
    stored,     \* the payload of the news_cache row, served at any age
    unsaved,    \* the hot payload is not (yet) persisted (ghost)
    shown,      \* the newest payload a GET returned in this process (ghost)
    lock,       \* _refresh_lock
    last,       \* _last_refresh_payload is set
    started,    \* bounds the refreshes, and numbers the payloads
    pc, job     \* the handlers

store == <<clusters, live, lastRow, assigned>>
caches == <<hot, stored, unsaved, shown>>
gate == <<lock, last>>
vars == <<store, registry, unregistered, caches, gate, started, pc, job>>

Row == 1..MaxCluster
Payload == 0..MaxStart          \* 0: none
Job == [n : Payload, waited : BOOLEAN, got : SUBSET Record, new : SUBSET Record,
        known : SUBSET Row, active : [Row -> SUBSET Record],
        pending : [Record -> 0..MaxCluster], left : Nat, floor : Payload]
NoRows == [c \in Row |-> {}]
Unassigned == [x \in Record |-> 0]
NoJob == [n |-> 0, waited |-> FALSE, got |-> {}, new |-> {}, known |-> {}, active |-> NoRows,
          pending |-> Unassigned, left |-> 0, floor |-> 0]
\* Refreshes hold the lock from "fetch" to "release".
RefreshLabel == {"fetch", "partition", "active", "group", "assign", "register",
                 "tag", "save", "finish", "release"}
Label == RefreshLabel \cup {"idle", "try", "wait", "getStored", "getServe"}

Init ==
    /\ clusters = NoRows /\ live = {} /\ lastRow = 0
    /\ assigned = Unassigned /\ registry = Unassigned /\ unregistered = {}
    /\ hot = 0 /\ stored = 0
    /\ unsaved = FALSE /\ shown = 0
    /\ lock = NoReq /\ last = FALSE
    /\ started = 0
    /\ pc = [r \in Req |-> "idle"] /\ job = [r \in Req |-> NoJob]

Goto(r, l) == pc' = [pc EXCEPT ![r] = l]
\* A handler's locals go with it.
Finish(r) == Goto(r, "idle") /\ job' = [job EXCEPT ![r] = NoJob]

---------------------------------------------------------------------------
(* The route: cooldown, lock, wait. *)

\* Handlers that may still number a payload.
AtGate == {q \in Req : pc[q] \in {"try", "wait"}}

\* The cooldown after the last payload has passed; within it the payload is
\* returned, which changes nothing.
StartRefresh(r) ==
    /\ pc[r] = "idle"
    /\ started + Cardinality(AtGate) < MaxStart
    /\ Goto(r, "try")
    /\ UNCHANGED <<store, registry, unregistered, caches, gate, started, job>>

\* Fault: a number is skipped.
SkippingJob(waited) == [NoJob EXCEPT !.n = started + 2, !.waited = waited]
\* The job of a refresh that is about to ask the feeds.
FreshJob(waited) == [NoJob EXCEPT !.n = started + 1, !.waited = waited]

Fetching(r, waited) ==
    /\ started' = started + 1
    /\ job' = [job EXCEPT ![r] = FreshJob(waited)]
    /\ Goto(r, "fetch")

\* Fault: the lock is taken without a look at it.
TryWithoutLock(r) ==
    /\ pc[r] = "try"
    /\ lock' = r
    /\ Fetching(r, FALSE)
    /\ UNCHANGED <<store, registry, unregistered, caches, last>>

\* acquire(blocking=False); a busy caller returns the last payload, or waits
\* when there is none.
TryLock(r) ==
    /\ pc[r] = "try"
    /\ \/ lock = NoReq /\ lock' = r /\ Fetching(r, FALSE)
       \/ lock # NoReq /\ last /\ Finish(r) /\ UNCHANGED <<lock, started>>
       \/ lock # NoReq /\ ~last /\ Goto(r, "wait") /\ UNCHANGED <<lock, started, job>>
    /\ UNCHANGED <<store, registry, unregistered, caches, last>>

\* with _refresh_lock: return _last_refresh_payload or _fetch_fresh_news().
Acquire(r) ==
    /\ pc[r] = "wait"
    /\ lock = NoReq
    /\ \/ last /\ Finish(r) /\ UNCHANGED <<lock, started>>
       \/ ~last /\ lock' = r /\ Fetching(r, TRUE)
    /\ UNCHANGED <<store, registry, unregistered, caches, last>>

\* A refresh that waited does not record its payload as the last one.
FinishRefresh(r) ==
    /\ pc[r] = "finish"
    /\ last' = (last \/ ~job[r].waited)
    /\ Goto(r, "release")
    /\ UNCHANGED <<store, registry, unregistered, caches, lock, started, job>>

Release(r) ==
    /\ pc[r] = "release"
    /\ lock' = NoReq
    /\ Finish(r)
    /\ UNCHANGED <<store, registry, unregistered, caches, last, started>>

---------------------------------------------------------------------------
(* _fetch_fresh_news and refresh_clusters. *)

\* What is left of a job once the clusters are known: the payload's number.
Tagging(r) ==
    /\ Goto(r, "tag")
    /\ job' = [job EXCEPT ![r] = [NoJob EXCEPT !.n = job[r].n, !.waited = job[r].waited]]

\* The feeds answer, or all of them fail: then what is cached is the result,
\* and neither cache is written.
FetchFeeds(r) ==
    /\ pc[r] = "fetch"
    /\ \/ \E got \in SUBSET Record : job' = [job EXCEPT ![r].got = got] /\ Goto(r, "partition")
       \/ Goto(r, "finish") /\ UNCHANGED job
    /\ UNCHANGED <<store, registry, unregistered, caches, gate, started>>

Partition(r) ==
    /\ pc[r] = "partition"
    /\ job' = [job EXCEPT ![r].new = {x \in job[r].got : assigned[x] = 0}, ![r].got = {}]
    /\ Goto(r, "active")
    /\ UNCHANGED <<store, registry, unregistered, caches, gate, started>>

\* Without new records the stored clusters are the result; a clusterer that
\* fails on the batch has the same effect.
LoadActive(r) ==
    /\ pc[r] = "active"
    /\ \/ /\ job[r].new # {}
          /\ job' = [job EXCEPT ![r].known = live,
                                ![r].active = [c \in Row |-> IF c \in live THEN clusters[c] ELSE {}],
                                ![r].left = Cardinality(job[r].new)]
          /\ Goto(r, "group")
       \/ Tagging(r)
    /\ UNCHANGED <<store, registry, unregistered, caches, gate, started>>

\* `taken` join row c, here and in the pending assignments (the last one wins).
Joined(j, c, taken, records) ==
    [j EXCEPT !.known = @ \cup {c}, !.active[c] = records, !.left = @ - 1,
              !.pending = [x \in Record |-> IF x \in taken THEN c ELSE @[x]]]

\* Fault: the row keeps the new records only.
ReplacedRecords(old, taken) == taken
MergedRecords(old, taken) == old \cup taken

\* A match: the row is rewritten from the local copy and the new records.
MergeGroup(r, c, taken) ==
    LET records == MergedRecords(job[r].active[c], taken) IN
    /\ pc[r] = "group"
    /\ job[r].left > 0
    /\ c \in job[r].known
    /\ clusters' = [clusters EXCEPT ![c] = records]
    /\ live' \in {live, live \cup {c}}
    /\ job' = [job EXCEPT ![r] = Joined(job[r], c, taken, records)]
    /\ UNCHANGED <<lastRow, assigned, registry, unregistered, caches, gate, started, pc>>

\* No match: a new row, outside the window when nothing in it is dated.
InsertGroup(r, taken) ==
    LET c == lastRow + 1 IN
    /\ pc[r] = "group"
    /\ job[r].left > 0
    /\ c \in Row
    /\ lastRow' = c
    /\ clusters' = [clusters EXCEPT ![c] = taken]
    /\ live' \in {live, live \cup {c}}
    /\ job' = [job EXCEPT ![r] = Joined(job[r], c, taken, taken)]
    /\ UNCHANGED <<assigned, registry, unregistered, caches, gate, started, pc>>

Pending(j) == {x \in Record : j.pending[x] # 0}

\* The batch had no more clusters.
GroupsDone(r) ==
    /\ pc[r] = "group"
    /\ \/ Pending(job[r]) = {} /\ Tagging(r)
       \/ Pending(job[r]) # {} /\ Goto(r, "assign") /\ UNCHANGED job
    /\ UNCHANGED <<store, registry, unregistered, caches, gate, started>>

Overwrite(table, pending) == [x \in Record |-> IF pending[x] # 0 THEN pending[x] ELSE table[x]]

\* Fault: a failed upsert of the assignments does not stop the registry's.
AssignAnyway(r) ==
    /\ pc[r] = "assign"
    /\ assigned' \in {Overwrite(assigned, job[r].pending), assigned}
    /\ unregistered' = unregistered \cup Pending(job[r])
    /\ Goto(r, "register")
    /\ UNCHANGED <<clusters, live, lastRow, registry, caches, gate, started, job>>

StoreAssignments(r) ==
    /\ pc[r] = "assign"
    /\ assigned' = Overwrite(assigned, job[r].pending)
    /\ unregistered' = unregistered \cup Pending(job[r])
    /\ Goto(r, "register")
    /\ UNCHANGED <<clusters, live, lastRow, registry, caches, gate, started, job>>

\* A failure is caught: the records stay without a registry row.
StoreRegistry(r) ==
    /\ pc[r] = "register"
    /\ \/ /\ registry' = Overwrite(registry, job[r].pending)
          /\ unregistered' = unregistered \ Pending(job[r])
       \/ UNCHANGED <<registry, unregistered>>
    /\ Tagging(r)
    /\ UNCHANGED <<store, caches, gate, started>>

\* A session of the store raises: the batch is clustered without it.
StoreFails(r) ==
    /\ pc[r] \in {"partition", "active", "group", "assign"}
    /\ Tagging(r)
    /\ UNCHANGED <<store, registry, unregistered, caches, gate, started>>

\* Fault: the release is not in a finally.
LeakLock(r) ==
    /\ pc[r] = "tag"
    /\ Finish(r)
    /\ UNCHANGED <<store, registry, unregistered, caches, gate, started>>

\* load_low_signal_headlines raises out of the route; the lock is released.
TagFails(r) ==
    /\ pc[r] = "tag"
    /\ Goto(r, "release")
    /\ UNCHANGED <<store, registry, unregistered, caches, gate, started, job>>

\* The payload and its timestamp; a reader between the two takes the payload
\* for as old as the one before.
Publish(r) ==
    /\ pc[r] = "tag"
    /\ hot' = job[r].n
    /\ unsaved' = TRUE
    /\ Goto(r, "save")
    /\ UNCHANGED <<store, registry, unregistered, stored, shown, gate, started, job>>

\* save_news_cache; a failure is printed.
Save(r) ==
    /\ pc[r] = "save"
    /\ \/ stored' = job[r].n /\ unsaved' = FALSE
       \/ UNCHANGED <<stored, unsaved>>
    /\ Goto(r, "finish")
    /\ UNCHANGED <<store, registry, unregistered, hot, shown, gate, started, job>>

---------------------------------------------------------------------------
(* GET /news and every other cache-only reader. *)

\* The hot payload is served within its TTL.
StartGet(r) ==
    /\ pc[r] = "idle"
    /\ job' = [job EXCEPT ![r] = [NoJob EXCEPT !.floor = shown, !.n = hot]]
    /\ \/ hot # 0 /\ Goto(r, "getServe")
       \/ Goto(r, "getStored")
    /\ UNCHANGED <<store, registry, unregistered, caches, gate, started>>

\* The row at any age, else the stale hot payload; the read with the TTL and
\* the one without are taken as one, they differ in the label only.
Fallback(j) == IF stored # 0 THEN stored ELSE j.n

GetStored(r) ==
    /\ pc[r] = "getStored"
    /\ job' = [job EXCEPT ![r].n = Fallback(job[r])]
    /\ Goto(r, "getServe")
    /\ UNCHANGED <<store, registry, unregistered, caches, gate, started>>

\* The row counts as absent.
GetFails(r) ==
    /\ pc[r] = "getStored"
    /\ Goto(r, "getServe")
    /\ UNCHANGED <<store, registry, unregistered, caches, gate, started, job>>

GetServe(r) ==
    /\ pc[r] = "getServe"
    /\ shown' = IF job[r].n > shown THEN job[r].n ELSE shown
    /\ Finish(r)
    /\ UNCHANGED <<store, registry, unregistered, hot, stored, unsaved, gate, started>>

---------------------------------------------------------------------------
(* The environment. *)

\* A row leaves the recency window.
Archive ==
    /\ \E c \in live : live' = live \ {c}
    /\ UNCHANGED <<clusters, lastRow, assigned, registry, unregistered, caches, gate, started, pc, job>>

\* The process dies and starts again: memory and every handler are gone.
Restart ==
    /\ hot' = 0
    /\ unsaved' = FALSE /\ shown' = 0
    /\ lock' = NoReq /\ last' = FALSE
    /\ pc' = [r \in Req |-> "idle"] /\ job' = [r \in Req |-> NoJob]
    /\ UNCHANGED <<store, registry, unregistered, stored, started>>

GateStep(r) == TryLock(r) \/ FinishRefresh(r) \/ Release(r)
GroupStep(r) ==
    \/ \E taken \in SUBSET job[r].new :
          InsertGroup(r, taken) \/ \E c \in Row : MergeGroup(r, c, taken)
    \/ GroupsDone(r)
StoreStep(r) ==
    \/ FetchFeeds(r) \/ Partition(r) \/ LoadActive(r) \/ GroupStep(r)
    \/ StoreAssignments(r) \/ StoreRegistry(r) \/ StoreFails(r)
PublishStep(r) == TagFails(r) \/ Publish(r) \/ Save(r)
GetStep(r) == GetStored(r) \/ GetFails(r) \/ GetServe(r)
Step(r) == GateStep(r) \/ StoreStep(r) \/ PublishStep(r) \/ GetStep(r)

Next ==
    \/ \E r \in Req : StartRefresh(r) \/ StartGet(r) \/ Acquire(r) \/ Step(r)
    \/ Archive
    \/ Restart

Spec == Init /\ [][Next]_vars
=============================================================================
