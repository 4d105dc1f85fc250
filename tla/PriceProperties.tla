--------------------------- MODULE PriceProperties ---------------------------
(* What the price cache and its memo promise.                               *)
EXTENDS PriceCache

TypeOK ==
    /\ bars \in [Series -> Frame]
    /\ late \subseteq [series : Series, day : Day]
    /\ omitted \subseteq [series : Series, day : Day]
    /\ memo \in Seq(Entry)
    /\ today \in Day
    /\ trading \in BOOLEAN
    /\ pc \in [Req -> Label]
    /\ job \in [Req -> Job]

(* The memo stays within its size and has one entry a key, whatever callers *)
(* store, expire and drop at the same time (_cache_set, _cache_get).        *)
MemoBounded ==
    /\ Len(memo) <= MemoSize
    /\ \A i, j \in DOMAIN memo : memo[i].key = memo[j].key => i = j

(* A cache-only lookup pass leaves nothing in the memo: what it stored there*)
(* is gone once it has ended, normally or with an exception, so a confirmed *)
(* run that starts later never builds its prompt from frames that skipped   *)
(* the trailing refresh (_read_only_macro_context, evict_ticker_cache).     *)
LookupLeavesMemo ==
    \A i \in DOMAIN memo : memo[i].by # NoReq =>
        /\ pc[memo[i].by] # "idle"
        /\ job[memo[i].by].mode = "lookup"
        /\ memo[i].key.ticker \in job[memo[i].by].reads

(* What the lookup calls "locally complete" misses no close but those that  *)
(* the last answer stored over their day left out: the planner looks at the *)
(* first and the last cached day only, and yet a gap that failed, a write   *)
(* that failed, or fetches of different days that finish in another order   *)
(* never leave a hole of their own, because every adjusted window ends today*)
(* and moves forward (_plan_fetch_ranges, note_local_read).  So "Complete   *)
(* means the persisted rows already COVER the requested window"             *)
(* (price_cache.py:582-583) holds up to what answers leave out: any         *)
(* non-empty answer is taken for its whole gap, and a row without a close   *)
(* counts as cached, so a day inside that an answer left out is not fetched *)
(* again and the window is complete without it.                             *)
CompleteUpToOmissions ==
    \A r \in Req : pc[r] = "have" /\ job[r].mode = "lookup" /\ job[r].complete =>
        LET s == SeriesOf(job[r].key) IN
        \A d \in Window(job[r].key, job[r].end) :
            d \in Closed(bars[s]) \/ [series |-> s, day |-> d] \in omitted

(* An adjusted bar stored while its session was open is replaced by the     *)
(* final one before or when a later day is stored, as long as a window of   *)
(* today reaches it, unless an answer from before the close was written     *)
(* after the close, or the answer that fetched the day again left it out    *)
(* (_plan_fetch_ranges with _LIVE_REFRESH_DAYS, _write_rows).               *)
AdjustedSettles ==
    \A t \in Ticker :
        LET s == [ticker |-> t, adjusted |-> TRUE] IN
        \A d \in today - Period .. today :
            d \in Day /\ bars[s][d] = "open" /\ (\E e \in Held(bars[s]) : e > d) =>
                [series |-> s, day |-> d] \in late \cup omitted

(* price_cache.py: "Raw (auto_adjust=False) rows are historical facts - they*)
(* never change, so we cache them indefinitely".  Bars written after the    *)
(* close and days an answer left out are not held against it.               *)
RawSettles ==
    \A t \in Ticker :
        LET s == [ticker |-> t, adjusted |-> FALSE] IN
        \A d \in Day : bars[s][d] = "open" /\ (\E e \in Held(bars[s]) : e > d) =>
            [series |-> s, day |-> d] \in late \cup omitted
=============================================================================
