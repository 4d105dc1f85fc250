----------------------------- MODULE PriceCache -----------------------------
(* Daily bars between the market data provider and its callers: the SQLite  *)
(* price cache with its gap planning (price_cache.fetch_daily_cached) and   *)
(* the bounded in-memory memo in front of it (market_check._fetch,          *)
(* _fetch_since).  The callers are fetching ones (POST routes and the       *)
(* snapshot warmer), GET handlers behind no_provider_fetch, and the free    *)
(* lookup pass of /analyze, which drops what it put into the memo.          *)
(* Days are business days.  A bar is told apart only by whether it has a    *)
(* close and whether its session was still open when the provider returned  *)
(* it; an entry of the memo only by its key and by who stored it.  An answer*)
(* may leave days of its gap out, holidays among them, or without a close.  *)
EXTENDS Integers, FiniteSets, Sequences, FiniteSetsExt, SequencesExt

CONSTANTS
    Ticker,
    Start,          \* start dates of since-windows
    Period,         \* business days a period window reaches back
    MemoSize,       \* _TICKER_CACHE_MAXSIZE
    Req, NoReq,     \* threads
    MaxDay

ASSUME PricesAreBounded == {Period, MemoSize, MaxDay} \subseteq Nat /\ MaxDay > 0
ASSUME StartsAreDays == Start \subseteq 1..MaxDay
ASSUME TickersAreNamed == Ticker # {}

VARIABLES
    bars,       \* price_cache: ticker and auto_adjust to the bar of each day
    late,       \* bars that were written open after their session had closed (ghost)
    omitted,    \* days the last answer stored over them left without a close (ghost)
    memo,       \* _cache_data, least recently used first
    today, trading,
    pc, job     \* the threads

vars == <<bars, late, omitted, memo, today, trading, pc, job>>

Day == 1..MaxDay
\* A null bar is a row without a close.
Bar == {"none", "null", "open", "final"}
Frame == [Day -> Bar]
NoFrame == [d \in Day |-> "none"]
\* fetch:<ticker> reads adjusted bars of a trailing period, since:<ticker>:<start>
\* reads raw bars from a start date.
PeriodStart == 0
Key == [ticker : Ticker, start : Start \cup {PeriodStart}]
Adjusted(k) == k.start = PeriodStart
Mode == {"fetch", "get", "lookup"}
\* by is the lookup pass that stored the entry, if one did.
Entry == [key : Key, by : Req \cup {NoReq}]
Series == [ticker : Ticker, adjusted : BOOLEAN]
SeriesOf(k) == [ticker |-> k.ticker, adjusted |-> Adjusted(k)]
Job == [mode : Mode, todo : SUBSET Key, key : Key, end : Day, gaps : Seq(SUBSET Day),
        frame : Frame, days : SUBSET Day, reads : SUBSET Ticker, complete : BOOLEAN]
NoJob == [mode |-> "fetch", todo |-> {}, key |-> CHOOSE k \in Key : TRUE, end |-> 1,
          gaps |-> <<>>, frame |-> NoFrame, days |-> {}, reads |-> {}, complete |-> TRUE]
Label == {"idle", "next", "read", "ask", "write", "reread", "have", "evict"}

Init ==
    /\ bars = [s \in Series |-> NoFrame]
    /\ late = {} /\ omitted = {}
    /\ memo = <<>>
    /\ today = 1 /\ trading = TRUE
    /\ pc = [r \in Req |-> "idle"] /\ job = [r \in Req |-> NoJob]

Goto(r, l) == pc' = [pc EXCEPT ![r] = l]
Finish(r) == Goto(r, "idle") /\ job' = [job EXCEPT ![r] = NoJob]

---------------------------------------------------------------------------
(* Gap planning. *)

From(k, end) == IF Adjusted(k) THEN end - Period ELSE k.start
\* Fault: the window ends a day late.
TomorrowToo(k, end) == From(k, end) .. end + 1
\* _resolve_range: no window ends after today.
Window(k, end) == (From(k, end) .. end) \cap Day

\* Every row counts as cached, one without a close too.
Held(frame) == {d \in Day : frame[d] # "none"}
Closed(frame) == {d \in Day : frame[d] \in {"open", "final"}}
\* _read_range: the days of the window that are cached, or none if the read fails.
Cached(k, window) == {Held(bars[SeriesOf(k)]) \cap window, {}}

\* Fault: the trailing day is not fetched again.
NoTrailing(refresh) == 0
\* _LIVE_REFRESH_DAYS.
Trailing(refresh) == IF refresh THEN 1 ELSE 0

\* Fault: no gap is planned in front.
SuffixOnly(window, held) == {}
Prefix(window, held) == {d \in window : \A h \in held : d < h}
Suffix(window, held, refresh) ==
    {d \in window : \A h \in held : d > h - Trailing(refresh)}

AddGap(gaps, gap) == IF gap = {} THEN gaps ELSE Append(gaps, gap)

\* _plan_fetch_ranges: the gaps at the two ends, in this order.
Plan(window, held, refresh) ==
    IF held = {} THEN <<window>>
    ELSE AddGap(AddGap(<<>>, Prefix(window, held)), Suffix(window, held, refresh))

---------------------------------------------------------------------------
(* The memo. *)

InMemo(k) == \E i \in DOMAIN memo : memo[i].key = k
EntryFor(k) == memo[CHOOSE i \in DOMAIN memo : memo[i].key = k]
\* What is left of the first n entries of a memo when keys are dropped.
Left(entries, keys) ==
    LET left[n \in 0..Len(entries)] ==
            IF n = 0 THEN <<>>
            ELSE IF entries[n].key \in keys THEN left[n - 1]
            ELSE Append(left[n - 1], entries[n])
    IN  left
Without(keys) == Left(memo, keys)[Len(memo)]

\* Fault: nothing is evicted.
Unbounded(entries) == entries
\* Evicts from the front.
Bounded(entries) ==
    SubSeq(entries, Max({1, Len(entries) - MemoSize + 1}), Len(entries))

---------------------------------------------------------------------------
(* The callers. *)

\* The lookup pass reads the macro tickers only; for other callers every window
\* is a call of its own.  A start in the future is clamped to today before the
\* key is made.
StartRead(r, mode, keys) ==
    /\ pc[r] = "idle"
    /\ keys # {} /\ \A k \in keys : k.start <= today
    /\ IF mode = "lookup" THEN \A k \in keys : Adjusted(k) ELSE Cardinality(keys) = 1
    /\ Goto(r, "next")
    /\ job' = [job EXCEPT ![r] = [NoJob EXCEPT !.mode = mode, !.todo = keys]]
    /\ UNCHANGED <<bars, late, omitted, memo, today, trading>>

\* _cache_get: a hit moves to the end.
Hit(r, k) ==
    /\ pc[r] = "next"
    /\ k \in job[r].todo
    /\ InMemo(k)
    /\ memo' = Append(Without({k}), EntryFor(k))
    /\ job' = [job EXCEPT ![r].todo = @ \ {k}]
    /\ UNCHANGED <<bars, late, omitted, today, trading, pc>>

\* No entry, or one whose TTL has ended, which is dropped.
Miss(r, k) ==
    /\ pc[r] = "next"
    /\ k \in job[r].todo
    /\ memo' = Without({k})
    /\ job' = [job EXCEPT ![r].todo = @ \ {k}, ![r].key = k, ![r].end = today]
    /\ Goto(r, "read")
    /\ UNCHANGED <<bars, late, omitted, today, trading>>

\* On to the next window; the locals of the last one go.
Advance(r) ==
    /\ Goto(r, "next")
    /\ job' = [job EXCEPT ![r] = [NoJob EXCEPT !.mode = job[r].mode, !.todo = job[r].todo,
                                               !.reads = job[r].reads]]

\* fetch_daily_cached: the cached days and the gaps, for a caller that may fetch ...
PlanFetch(r) ==
    LET k == job[r].key
        window == Window(k, job[r].end)
    IN
    /\ pc[r] = "read"
    /\ job[r].mode = "fetch"
    /\ \E days \in Cached(k, window) :
          LET gaps == Plan(window, days, Adjusted(k)) IN
          IF gaps = <<>>
          THEN Goto(r, "have") /\ job' = [job EXCEPT ![r].days = days]
          ELSE Goto(r, "ask") /\ job' = [job EXCEPT ![r].gaps = gaps]
    /\ UNCHANGED <<bars, late, omitted, memo, today, trading>>

\* ... and for one that may not: it takes what is cached, and a lookup notes
\* whether that is complete.
ReadBlocked(r) ==
    LET k == job[r].key
        window == Window(k, job[r].end)
    IN
    /\ pc[r] = "read"
    /\ job[r].mode # "fetch"
    /\ \E days \in Cached(k, window) :
          job' = [job EXCEPT
              ![r].days = days,
              ![r].reads = IF job[r].mode = "lookup" THEN @ \cup {k.ticker} ELSE @,
              ![r].complete = (Plan(window, days, FALSE) = <<>>)]
    /\ Goto(r, "have")
    /\ UNCHANGED <<bars, late, omitted, memo, today, trading>>

\* What the provider returns for a day.
Quote(d) == IF d = today /\ trading THEN "open" ELSE "final"
Answer(days, nulls) ==
    [d \in Day |-> IF d \in nulls THEN "null" ELSE IF d \in days THEN Quote(d) ELSE "none"]

AfterGap(gaps) == IF gaps = <<>> THEN "reread" ELSE "ask"

\* Any answer that is not empty is taken for the first gap, whichever of its
\* days it leaves out or has without a close; or nothing is returned for it.
AskProvider(r) ==
    LET gap == Head(job[r].gaps) IN
    /\ pc[r] = "ask"
    /\ \/ \E days \in SUBSET gap, nulls \in SUBSET gap :
             /\ days # {} /\ nulls \subseteq days
             /\ job' = [job EXCEPT ![r].frame = Answer(days, nulls)]
             /\ Goto(r, "write")
       \/ /\ job' = [job EXCEPT ![r].gaps = Tail(@)]
          /\ Goto(r, AfterGap(Tail(job[r].gaps)))
    /\ UNCHANGED <<bars, late, omitted, memo, today, trading>>

Upsert(old, new) == [d \in Day |-> IF new[d] # "none" THEN new[d] ELSE old[d]]
StaleBars(s, frame) ==
    {[series |-> s, day |-> d] : d \in {e \in Day : frame[e] = "open" /\ Quote(e) = "final"}}
DaysOf(s, days) == {[series |-> s, day |-> d] : d \in days}

\* _write_rows, which drops suspect rows as if they had been left out; a
\* failure is logged only.
WriteRows(r) ==
    LET s == SeriesOf(job[r].key)
        frame == job[r].frame
    IN
    /\ pc[r] = "write"
    /\ \/ /\ bars' = [bars EXCEPT ![s] = Upsert(@, frame)]
          /\ late' = {l \in late \cup StaleBars(s, frame) : bars'[l.series][l.day] = "open"}
          /\ omitted' = (omitted \cup DaysOf(s, Head(job[r].gaps))) \ DaysOf(s, Closed(frame))
       \/ UNCHANGED <<bars, late, omitted>>
    /\ Goto(r, AfterGap(Tail(job[r].gaps)))
    /\ job' = [job EXCEPT ![r].frame = NoFrame, ![r].gaps = Tail(@)]
    /\ UNCHANGED <<memo, today, trading>>

Reread(r) ==
    /\ pc[r] = "reread"
    /\ \E days \in Cached(job[r].key, Window(job[r].key, job[r].end)) :
          job' = [job EXCEPT ![r].days = days]
    /\ Goto(r, "have")
    /\ UNCHANGED <<bars, late, omitted, memo, today, trading>>

\* Without a bar None is returned and not stored.
NoBars(r) ==
    /\ pc[r] = "have"
    /\ job[r].days = {}
    /\ Advance(r)
    /\ UNCHANGED <<bars, late, omitted, memo, today, trading>>

\* _cache_set, by a caller that may fetch and by one that may not.
SetMemo(r) ==
    LET k == job[r].key IN
    /\ pc[r] = "have"
    /\ job[r].days # {}
    /\ memo' = Bounded(Append(Without({k}), [key |-> k, by |-> IF job[r].mode = "lookup" THEN r ELSE NoReq]))
    /\ Advance(r)
    /\ UNCHANGED <<bars, late, omitted, today, trading>>

\* Fault: a pass that fails keeps its entries.
EndWithoutFinally(r) ==
    /\ pc[r] = "next"
    /\ \/ job[r].mode = "lookup" /\ Goto(r, "evict") /\ job' = [job EXCEPT ![r].todo = {}]
       \/ Finish(r)
    /\ UNCHANGED <<bars, late, omitted, memo, today, trading>>

\* The caller is done with its windows, or fails between two of them.
EndRead(r) ==
    /\ pc[r] = "next"
    /\ IF job[r].mode = "lookup"
       THEN Goto(r, "evict") /\ job' = [job EXCEPT ![r].todo = {}]
       ELSE Finish(r)
    /\ UNCHANGED <<bars, late, omitted, memo, today, trading>>

\* evict_ticker_cache: every entry of the tickers that were read.
Evict(r) ==
    /\ pc[r] = "evict"
    /\ memo' = Without({k \in Key : k.ticker \in job[r].reads})
    /\ Finish(r)
    /\ UNCHANGED <<bars, late, omitted, today, trading>>

---------------------------------------------------------------------------
(* The environment. *)

CloseSession ==
    /\ trading
    /\ trading' = FALSE
    /\ UNCHANGED <<bars, late, omitted, memo, today, pc, job>>

\* A call takes seconds: it may cross a midnight, and is over before the next.
Calling(r) == pc[r] \in {"read", "ask", "write", "reread", "have"}
NextDay ==
    /\ ~trading /\ today < MaxDay
    /\ \A r \in Req : Calling(r) => job[r].end = today
    /\ today' = today + 1 /\ trading' = TRUE
    /\ UNCHANGED <<bars, late, omitted, memo, pc, job>>

\* The process dies and starts again.
Restart ==
    /\ memo' = <<>>
    /\ pc' = [r \in Req |-> "idle"] /\ job' = [r \in Req |-> NoJob]
    /\ UNCHANGED <<bars, late, omitted, today, trading>>

ReadStep(r) ==
    \/ PlanFetch(r) \/ ReadBlocked(r) \/ AskProvider(r) \/ WriteRows(r) \/ Reread(r)
    \/ NoBars(r) \/ SetMemo(r)
Next ==
    \/ \E r \in Req :
          \/ \E mode \in Mode, keys \in SUBSET Key : StartRead(r, mode, keys)
          \/ \E k \in Key : Hit(r, k) \/ Miss(r, k)
          \/ ReadStep(r) \/ EndRead(r) \/ Evict(r)
    \/ CloseSession
    \/ NextDay
    \/ Restart

Spec == Init /\ [][Next]_vars
=============================================================================
