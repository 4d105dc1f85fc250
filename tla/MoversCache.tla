---------------------------- MODULE MoversCache ----------------------------
(* The caches in front of the movers surfaces: one persisted row per slice *)
(* (movers_cache.get_slice) and the in-memory list behind /movers/today    *)
(* (api.movers_today), with the writers of the events table beside them.   *)
(* Every database call is a session of its own and handlers run in a       *)
(* thread pool, so an action is one session or one in-memory access.       *)
(* A payload is the rows it was computed from: which of them are shown,    *)
(* and how they are ranked, is a function of those.                        *)
EXTENDS Integers, FiniteSets, FiniteSetsExt

CONSTANTS
    Slice,              \* names of persisted slices
    ClearedOnDelete,    \* those that the delete route drops
    SliceTTL,           \* [Slice -> seconds]
    TodayTTL,
    TodayWindow, FallbackWindow,    \* what the list of the day looks back on
    EdgeGrace,          \* slack at the edge of a window
    RecentLimit,        \* rows of load_recent_events
    Req,                \* handler threads
    Absent, NoEntry, NoData,
    MaxEvent, MaxWrite, MaxTime, MaxVersion

ASSUME SlicesAreNamed == Slice # {} /\ ClearedOnDelete \subseteq Slice
ASSUME TTLsAreNatural == SliceTTL \in [Slice -> Nat] /\ TodayTTL \in Nat
ASSUME WindowsAreOrdered ==
    /\ {TodayWindow, FallbackWindow, EdgeGrace, RecentLimit} \subseteq Nat
    /\ TodayWindow < FallbackWindow
ASSUME BoundsAreNatural == {MaxEvent, MaxWrite, MaxTime, MaxVersion} \subseteq Nat

EventId == 1..MaxEvent
\* `saved` is the column timestamp, `checked` is last_market_check_at; the write
\* itself has a number and a date (ghosts).
Row == [rev : Nat, at : Nat, saved : Nat, checked : Nat]
ASSUME NullsAreNoValues ==
    /\ Absent \notin Row
    /\ NoEntry \notin [payload : [EventId -> Row \cup {Absent}], builtAt : Nat, version : Nat,
                       fingerprint : [count : Nat, max : Nat], clean : BOOLEAN]
    /\ NoData \notin [EventId -> Row \cup {Absent}]

VARIABLES
    events,     \* the table: [EventId -> Row], rev numbers the writes
    lastId,     \* AUTOINCREMENT
    writes,     \* bounds the writes, and numbers them
    past,       \* rows that were replaced or deleted, and when (ghost)
    unsettled,  \* rows refreshed in place and not followed by an invalidation (ghost)
    cache,      \* the persisted row of each slice
    today,      \* _TODAYS_MOVERS_CACHE
    now,        \* one clock, wall and monotonic
    version,    \* _COMPUTE_VERSION of the running code
    pc, job     \* the handlers

table == <<events, lastId, writes, past>>
vars == <<table, unsettled, cache, today, now, version, pc, job>>

Table == [EventId -> Row \cup {Absent}]
Ids(t) == {i \in EventId : t[i] # Absent}
\* Fault: the fingerprint is the row count only.
CountOnly(t) == [count |-> Cardinality(Ids(t)), max |-> 0]
Fingerprint(t) == [count |-> Cardinality(Ids(t)), max |-> Max(Ids(t) \cup {0})]
Entry == [payload : Table, builtAt : Nat, version : Nat,
          fingerprint : [count : Nat, max : Nat], clean : BOOLEAN]
\* How the list was read (ghosts): without a write in between, back to when, and
\* with the second session.
Today == [data : Table \cup {NoData}, ts : Nat, clean : BOOLEAN, cutoff : Int, whole : BOOLEAN]
EmptyToday == [data |-> NoData, ts |-> 0, clean |-> TRUE, cutoff |-> 0, whole |-> FALSE]
Job == [slice : Slice, now : Nat, cached : Entry \cup {NoEntry}, rows : Table,
        fingerprint : [count : Nat, max : Nat], clean : BOOLEAN, todo : SUBSET Slice,
        cutoff : Int, wide : BOOLEAN, whole : BOOLEAN]
EmptyTable == [i \in EventId |-> Absent]
NoJob == [slice |-> CHOOSE s \in Slice : TRUE, now |-> 0, cached |-> NoEntry,
          rows |-> EmptyTable, fingerprint |-> [count |-> 0, max |-> 0],
          clean |-> TRUE, todo |-> {}, cutoff |-> 0, wide |-> FALSE, whole |-> FALSE]
SliceLabel == {"load", "check", "serve", "fill", "stamp", "persist"}
TodayLabel == {"todayServe", "todayLoad", "todayChecked", "todayRecent", "todayData", "todayTs"}
WriterLabel == {"invalidate", "clearSlices", "clearToday"}
Filling == {"stamp", "persist", "todayChecked", "todayRecent", "todayData"}
Label == {"idle"} \cup SliceLabel \cup TodayLabel \cup WriterLabel

Init ==
    /\ events = EmptyTable
    /\ lastId = 0
    /\ writes = 0
    /\ past = {}
    /\ unsettled = {}
    /\ cache = [s \in Slice |-> NoEntry]
    /\ today = EmptyToday
    /\ now = 0
    /\ version = 0
    /\ pc = [r \in Req |-> "idle"]
    /\ job = [r \in Req |-> NoJob]

Goto(r, l) == pc' = [pc EXCEPT ![r] = l]
\* A handler's locals go with it.
Finish(r) == Goto(r, "idle") /\ job' = [job EXCEPT ![r] = NoJob]

---------------------------------------------------------------------------
(* get_slice. *)

\* What a fill still needs of its request.
Fresh(j) == [NoJob EXCEPT !.slice = j.slice, !.now = j.now]

\* A read with the defaults: force=True, which starts at "fill", is passed by
\* tests only, and allow_refresh=False reads the cached row and nothing else.
StartSlice(r, s) ==
    /\ pc[r] = "idle"
    /\ Goto(r, "load")
    /\ job' = [job EXCEPT ![r] = [NoJob EXCEPT !.slice = s, !.now = now]]
    /\ UNCHANGED <<table, unsettled, cache, today, now, version>>

LoadCache(r) ==
    /\ pc[r] = "load"
    /\ Goto(r, "check")
    /\ job' = [job EXCEPT ![r].cached = cache[job[r].slice]]
    /\ UNCHANGED <<table, unsettled, cache, today, now, version>>

\* Staleness rules 2 to 4b.
Expired(entry, time, ttl) == time - entry.builtAt > ttl
Hit(j) ==
    /\ j.cached # NoEntry
    /\ ~Expired(j.cached, j.now, SliceTTL[j.slice])
    /\ j.cached.fingerprint = Fingerprint(events)
    /\ j.cached.version = version

CheckFingerprint(r) ==
    /\ pc[r] = "check"
    /\ \/ Hit(job[r]) /\ Goto(r, "serve") /\ UNCHANGED job
       \/ ~Hit(job[r]) /\ Goto(r, "fill") /\ job' = [job EXCEPT ![r] = Fresh(job[r])]
    /\ UNCHANGED <<table, unsettled, cache, today, now, version>>

Serve(r) ==
    /\ pc[r] = "serve"
    /\ Finish(r)
    /\ UNCHANGED <<table, unsettled, cache, today, now, version>>

\* _recompute_and_persist: the events are loaded first ...
FillLoad(r) ==
    /\ pc[r] = "fill"
    /\ Goto(r, "stamp")
    /\ job' = [job EXCEPT ![r].rows = events, ![r].clean = TRUE]
    /\ UNCHANGED <<table, unsettled, cache, today, now, version>>

\* ... and the fingerprint is read after the computation.
FillStamp(r) ==
    /\ pc[r] = "stamp"
    /\ Goto(r, "persist")
    /\ job' = [job EXCEPT ![r].fingerprint = Fingerprint(events)]
    /\ UNCHANGED <<table, unsettled, cache, today, now, version>>

\* Fault: built_at is the time of the save.
StampedAtSave(j) == [payload |-> j.rows, builtAt |-> now, version |-> version,
                     fingerprint |-> j.fingerprint, clean |-> j.clean]
\* built_at is the time the request started.
EntryOf(j) == [payload |-> j.rows, builtAt |-> j.now, version |-> version,
               fingerprint |-> j.fingerprint, clean |-> j.clean]

FillPersist(r) ==
    /\ pc[r] = "persist"
    /\ cache' = [cache EXCEPT ![job[r].slice] = EntryOf(job[r])]
    /\ Finish(r)
    /\ UNCHANGED <<table, unsettled, today, now, version>>

\* A session raises, the computation fails ([] is returned) or the save
\* fails (the payload is returned): nothing is stored.
ReadEndsEarly(r) ==
    /\ pc[r] \in {"load", "check", "fill", "stamp", "persist", "todayLoad"}
    /\ Finish(r)
    /\ UNCHANGED <<table, unsettled, cache, today, now, version>>

---------------------------------------------------------------------------
(* movers_today. *)

TodayFresh == today.data # NoData /\ now - today.ts < TodayTTL

StartToday(r) ==
    /\ pc[r] = "idle"
    /\ \/ TodayFresh /\ Goto(r, "todayServe") /\ UNCHANGED job
       \/ /\ ~TodayFresh
          /\ Goto(r, "todayLoad")
          /\ job' = [job EXCEPT ![r].now = now, ![r].cutoff = now - TodayWindow]
    /\ UNCHANGED <<table, unsettled, cache, today, now, version>>

\* Reads the dict a second time: after a clear this is None[:limit], which raises.
TodayServe(r) ==
    /\ pc[r] = "todayServe"
    /\ Finish(r)
    /\ UNCHANGED <<table, unsettled, cache, today, now, version>>

SavedSince(cutoff) == {i \in Ids(events) : events[i].saved >= cutoff}
CheckedSince(cutoff) == {i \in Ids(events) : events[i].checked >= cutoff}
Newest == {i \in Ids(events) : Cardinality({k \in Ids(events) : k > i}) < RecentLimit}
InWindow(cutoff) == Newest \cap (SavedSince(cutoff - EdgeGrace) \cup CheckedSince(cutoff - EdgeGrace))
\* A row that an earlier session returned is kept.
Merged(rows, ids) == [i \in EventId |-> IF rows[i] = Absent /\ i \in ids THEN events[i] ELSE rows[i]]

\* A pass is three sessions. The first may raise, which ends the handler
\* (ReadEndsEarly) ...
TodayLoad(r) ==
    /\ pc[r] = "todayLoad"
    /\ Goto(r, "todayChecked")
    /\ job' = [job EXCEPT ![r].rows = Merged(EmptyTable, SavedSince(job[r].cutoff)),
                          ![r].clean = TRUE, ![r].whole = FALSE]
    /\ UNCHANGED <<table, unsettled, cache, today, now, version>>

\* ... a failure of the second or third is swallowed.
TodayChecked(r) ==
    /\ pc[r] = "todayChecked"
    /\ Goto(r, "todayRecent")
    /\ \/ job' = [job EXCEPT ![r].rows = Merged(@, CheckedSince(job[r].cutoff)), ![r].whole = TRUE]
       \/ UNCHANGED job
    /\ UNCHANGED <<table, unsettled, cache, today, now, version>>

TodayRecent(r) ==
    /\ pc[r] = "todayRecent"
    /\ Goto(r, "todayData")
    /\ \/ job' = [job EXCEPT ![r].rows = Merged(@, InWindow(job[r].cutoff))]
       \/ UNCHANGED job
    /\ UNCHANGED <<table, unsettled, cache, today, now, version>>

\* Nothing scored, which rows may or may not do: a second pass looks further back.
TodayWiden(r) ==
    /\ pc[r] = "todayData"
    /\ ~job[r].wide
    /\ Goto(r, "todayLoad")
    /\ job' = [job EXCEPT ![r] = [NoJob EXCEPT !.now = job[r].now, !.wide = TRUE,
                                               !.cutoff = now - FallbackWindow]]
    /\ UNCHANGED <<table, unsettled, cache, today, now, version>>

\* The dict is filled key by key, without a lock.
TodayStoreData(r) ==
    /\ pc[r] = "todayData"
    /\ job[r].wide \/ Ids(job[r].rows) # {}
    /\ Goto(r, "todayTs")
    /\ today' = [today EXCEPT !.data = job[r].rows, !.clean = job[r].clean,
                             !.cutoff = job[r].cutoff, !.whole = job[r].whole]
    /\ job' = [job EXCEPT ![r] = [NoJob EXCEPT !.now = job[r].now]]
    /\ UNCHANGED <<table, unsettled, cache, now, version>>

\* Fault: the timestamp is put in the past.
StoreExpiry(r) ==
    /\ pc[r] = "todayTs"
    /\ today' = [today EXCEPT !.ts = job[r].now - TodayTTL]
    /\ Finish(r)
    /\ UNCHANGED <<table, unsettled, cache, now, version>>

TodayStoreTs(r) ==
    /\ pc[r] = "todayTs"
    /\ today' = [today EXCEPT !.ts = job[r].now]
    /\ Finish(r)
    /\ UNCHANGED <<table, unsettled, cache, now, version>>

---------------------------------------------------------------------------
(* The writers of events, and the clearing each does afterwards. *)

\* Commits `row` under id i; what was computed from the table before is dated.
Write(r, i, row, label, todo) ==
    /\ pc[r] = "idle"
    /\ writes < MaxWrite
    /\ writes' = writes + 1
    /\ events' = [events EXCEPT ![i] = row]
    /\ past' = past \cup (IF events[i] = Absent THEN {}
                          ELSE {[id |-> i, row |-> events[i], until |-> now]})
    /\ Goto(r, label)
    /\ job' = [q \in Req |-> IF q = r THEN [NoJob EXCEPT !.todo = todo]
                             ELSE [job[q] EXCEPT !.clean = @ /\ pc[q] \notin Filling]]
    /\ UNCHANGED <<cache, today, now, version>>

NewId == lastId + 1

\* save_event and its callers; the persisted slices rely on the fingerprint.
\* The clock is read before the commit, here and below.
SaveEvent(r, stamp) ==
    /\ NewId \in EventId
    /\ lastId' = NewId
    /\ Write(r, NewId, [rev |-> writes + 1, at |-> now, saved |-> stamp, checked |-> stamp],
             "clearToday", {})
    /\ UNCHANGED unsettled

\* update_event_market_refresh.
RefreshEvent(r, i, stamp) ==
    /\ events[i] # Absent
    /\ Write(r, i, [rev |-> writes + 1, at |-> now, saved |-> events[i].saved, checked |-> stamp],
             "invalidate", {})
    /\ unsettled' = unsettled \cup {i}
    /\ UNCHANGED lastId

\* DELETE /events/{id}.
DeleteEvent(r, i) ==
    /\ events[i] # Absent
    /\ Write(r, i, Absent, "clearSlices", ClearedOnDelete)
    /\ UNCHANGED <<lastId, unsettled>>

\* movers_cache.invalidate(): every slice.
Invalidate(r) ==
    /\ pc[r] = "invalidate"
    /\ cache' = [s \in Slice |-> NoEntry]
    /\ unsettled' = {}
    /\ Goto(r, "clearToday")
    /\ UNCHANGED <<table, today, now, version, job>>

\* It is caught, and left to the TTL.
InvalidateFails(r) ==
    /\ pc[r] = "invalidate"
    /\ Goto(r, "clearToday")
    /\ UNCHANGED <<table, unsettled, cache, today, now, version, job>>

\* _LegacyMoverCacheShim, one slice after the other; a failure is ignored.
ClearSlice(r, s) ==
    /\ pc[r] = "clearSlices"
    /\ s \in job[r].todo
    /\ \/ cache' = [cache EXCEPT ![s] = NoEntry]
       \/ UNCHANGED cache
    /\ job' = [job EXCEPT ![r].todo = @ \ {s}]
    /\ UNCHANGED <<table, unsettled, today, now, version, pc>>

SlicesCleared(r) ==
    /\ pc[r] = "clearSlices"
    /\ job[r].todo = {}
    /\ Goto(r, "clearToday")
    /\ UNCHANGED <<table, unsettled, cache, today, now, version, job>>

\* Fault: only the timestamp is reset.
ExpireToday(r) ==
    /\ pc[r] = "clearToday"
    /\ today' = [today EXCEPT !.ts = 0]
    /\ Finish(r)
    /\ UNCHANGED <<table, unsettled, cache, now, version>>

ClearToday(r) ==
    /\ pc[r] = "clearToday"
    /\ today' = [EmptyToday EXCEPT !.ts = today.ts]
    /\ Finish(r)
    /\ UNCHANGED <<table, unsettled, cache, now, version>>

---------------------------------------------------------------------------
(* The environment. *)

Tick ==
    /\ now < MaxTime
    /\ now' = now + 1
    /\ UNCHANGED <<table, unsettled, cache, today, version, pc, job>>

\* The process dies and starts again, on the same code or on newer code.
Restart ==
    /\ version' \in version..MaxVersion
    /\ today' = EmptyToday
    /\ pc' = [r \in Req |-> "idle"]
    /\ job' = [r \in Req |-> NoJob]
    /\ UNCHANGED <<table, unsettled, cache, now>>

SliceStep(r) ==
    LoadCache(r) \/ CheckFingerprint(r) \/ Serve(r) \/ FillLoad(r) \/ FillStamp(r) \/ FillPersist(r)
TodayStep(r) ==
    \/ TodayServe(r) \/ TodayLoad(r) \/ TodayChecked(r) \/ TodayRecent(r) \/ TodayWiden(r)
    \/ TodayStoreData(r) \/ TodayStoreTs(r)
WriterStep(r) ==
    \/ Invalidate(r) \/ InvalidateFails(r) \/ SlicesCleared(r) \/ ClearToday(r)
    \/ \E s \in Slice : ClearSlice(r, s)
Begin(r) ==
    \/ \E s \in Slice : StartSlice(r, s)
    \/ StartToday(r)
    \/ \E stamp \in 0..now : SaveEvent(r, stamp)
    \/ \E i \in EventId, stamp \in 0..now : RefreshEvent(r, i, stamp)
    \/ \E i \in EventId : DeleteEvent(r, i)

Next ==
    \/ \E r \in Req : Begin(r) \/ SliceStep(r) \/ TodayStep(r) \/ WriterStep(r) \/ ReadEndsEarly(r)
    \/ Tick
    \/ Restart

Spec == Init /\ [][Next]_vars
=============================================================================
