--------------------------- MODULE EventEvidence ---------------------------
(***************************************************************************)
(* The market evidence an event row keeps (db.py, proof_evaluator.py,      *)
(* market_check_freshness.py): the ticker rows with their returns and      *)
(* direction tags, the stamp of the last check, the revisit snapshots per  *)
(* anchor day, and the verdict derived from them.  A ticker list is        *)
(* abstracted to what the code's decisions tell apart.                     *)
(***************************************************************************)
EXTENDS Naturals

CONSTANTS
    Days,       \* _REVISIT_DAYS: the days a manual revisit captures
    Anchors,    \* REVISIT_ANCHORS: those the daemon captures
    Direction,  \* directions a ticker tag may carry
    DirDay,     \* the day whose return gives a ticker its direction tag
    Grace,      \* ANCHOR_GRACE_DAYS
    RecentAge,  \* _EVENT_AGE_RECENT_DAYS
    FrozenAge,  \* _EVENT_AGE_FROZEN_DAYS
    RecentTTL,  \* _REFRESH_RECENT_HOURS, in the clock's unit
    OlderTTL,   \* _REFRESH_OLDER_HOURS, in the clock's unit
    NoRow,      \* a row that does not exist
    NoTickers,  \* an empty market_tickers list
    NoSnap,     \* no snapshot for a day
    NoDate,     \* event_date IS NULL
    Never       \* last_market_check_at IS NULL

ASSUME DayAssumption ==
    Days \subseteq Nat \ {0} /\ Anchors \subseteq Days /\ DirDay \in Anchors
ASSUME DirectionAssumption == Direction \subseteq {"supports", "contradicts"}
ASSUME WindowAssumption ==
    {Grace, RecentAge, FrozenAge, RecentTTL, OlderTTL} \subseteq Nat
ASSUME NullAssumption == NoDate \notin Nat /\ Never \notin Nat

Tag == Direction \cup {"none"}
ASSUME SnapAssumption == NoSnap \notin Tag

\* data: some ticker carries a return; tag: what the majority of tags says.
TickerRows == {t \in [data : BOOLEAN, tag : Tag] : t.tag # "none" => t.data}
Tickers == TickerRows \cup {NoTickers}

\* A snapshot is the direction it carries; no decision reads captured_at.
Snapshot == Tag
Verdict == {"no_data", "validated", "contradicted"}

Row == [date : Nat \cup {NoDate}, saved : Nat, tickers : Tickers,
        checked : Nat \cup {Never}, snaps : [Days -> Snapshot \cup {NoSnap}],
        verdict : Verdict]

\* The label both verdict blocks rest on: it reads the ticker rows only.
Label(tickers) ==
    IF tickers = NoTickers \/ tickers.tag = "none" THEN "no_data"
    ELSE IF tickers.tag = "supports" THEN "validated" ELSE "contradicted"

---------------------------------------------------------------------------
(* Age and staleness.                                                      *)

AnchorDate(row) == IF row.date = NoDate THEN row.saved ELSE row.date
Age(row, t) == IF t < AnchorDate(row) THEN 0 ELSE t - AnchorDate(row)

HasData(tickers) == tickers = NoTickers \/ tickers.data
Frozen(row, t) == Age(row, t) > FrozenAge /\ HasData(row.tickers)
Threshold(row, t) == IF Age(row, t) < RecentAge THEN RecentTTL ELSE OlderTTL

\* compute_staleness and should_refresh: forcing only lifts the freeze, and
\* a forced row that is still fresh is not checked again.
ShouldRefresh(row, t, force) ==
    IF Frozen(row, t) THEN force
    ELSE \/ row.checked = Never
         \/ ~HasData(row.tickers)
         \/ row.checked # Never /\ t >= row.checked + Threshold(row, t)

Captured(row) == {d \in Days : row.snaps[d] # NoSnap}

\* find_due_events: what the daemon still has to capture on this row.
DueDays(row, t) ==
    {d \in Anchors : /\ row.date # NoDate
                     /\ row.tickers # NoTickers
                     /\ row.date + d <= t
                     /\ t <= row.date + d + Grace
                     /\ d \notin Captured(row)}

---------------------------------------------------------------------------
(* What the market data provider may answer.                               *)

\* followup_check: the days whose return exists by now, and the direction.
Followups(anchor, t) ==
    {o \in [ready : SUBSET {d \in Days : anchor + d <= t}, tag : Tag] :
        o.tag # "none" => DirDay \in o.ready}

\* Fault: the direction is taken over, the returns are not.
MergeTagOnly(tickers, o) ==
    [tickers EXCEPT !.tag = IF o.tag = "none" THEN @ ELSE o.tag]

\* A missing return or direction never overwrites a stored one.
Merge(tickers, o) ==
    [data |-> tickers.data \/ o.ready \cap Anchors # {},
     tag |-> IF o.tag = "none" THEN tickers.tag ELSE o.tag]

---------------------------------------------------------------------------
(* The writes.                                                             *)

NewRow(date, t, tickers, checked) ==
    [date |-> date, saved |-> t, tickers |-> tickers, checked |-> checked,
     snaps |-> [d \in Days |-> NoSnap], verdict |-> Label(tickers)]

\* Fault: the proof blocks are not recomputed.
WithRefreshOnly(row, tickers, at) ==
    [row EXCEPT !.tickers = tickers, !.checked = at]

WithRefresh(row, tickers, at) ==
    [row EXCEPT !.tickers = tickers, !.checked = at, !.verdict = Label(tickers)]

\* The UPDATE of a capture: snapshots and verdict come from the row as it was
\* read, the other columns stay what they are.
WithSnapshot(row, read, day, snap) ==
    [row EXCEPT !.snaps = [read.snaps EXCEPT ![day] = snap],
                !.verdict = Label(read.tickers)]
===========================================================================
