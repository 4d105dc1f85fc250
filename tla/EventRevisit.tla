---------------------------- MODULE EventRevisit ----------------------------
(***************************************************************************)
(* Who rewrites the market evidence of saved events: the market refresh    *)
(* (market_check_freshness.py, called for cached answers, refresh-market,  *)
(* backtests and the movers backfill), the manual revisit route and the    *)
(* auto-revisit daemon, with deletes, new events and a process crash.      *)
(* Every call loads a row, waits for the market data provider, and writes  *)
(* to a row that may have changed meanwhile.                               *)
(***************************************************************************)
EXTENDS EventEvidence, FiniteSets, FiniteSetsExt

CONSTANTS
    Refresher,  \* slots for calls that end in update_event_market_refresh
    Revisitor,  \* slots for POST /events/{id}/revisit
    Daemon,     \* the auto-revisit thread
    Free,       \* holder of SQLite's write lock when nobody holds it
    ScanLimit,  \* events a pass loads, 500 in the code
    MaxEvent,   \* bound: ids handed out
    MinTime,    \* bound: clock when the process first starts
    MaxTime,    \* bound: clock
    MaxFault    \* bound: process restarts and passes that raise

ASSUME SlotAssumption ==
    /\ Daemon \notin Revisitor
    /\ Free \notin Revisitor \cup {Daemon}
    /\ NoRow \notin Row
ASSUME EventBoundAssumption ==
    /\ {ScanLimit, MaxEvent, MinTime, MaxTime, MaxFault} \subseteq Nat
    /\ MinTime <= MaxTime

VARIABLES
    rows,    \* [Event -> Row or NoRow]: the committed events table
    lastId,  \* the table's AUTOINCREMENT sequence
    writer,  \* which capture holds the write lock (BEGIN IMMEDIATE)
    now,     \* wall clock, in one unit for days and hours
    refresh, \* [Refresher -> local variables of a refresh]
    capture, \* [Capturer -> local variables of a capture]
    due,     \* [Event -> days the pass found due], as find_due_events saw it
    visited, \* events of the pass already handled
    log,     \* the pass's capture log
    faults

tableVars == <<rows, lastId>>
passVars == <<due, visited, log>>
vars == <<rows, lastId, writer, now, refresh, capture, due, visited, log, faults>>

Event == 1..MaxEvent
Capturer == Revisitor \cup {Daemon}

Kind == {"cached", "endpoint", "backfill", "reanalyze"}
\* base: the loaded row, without the columns a refresh does not look at.
Base == [date : Nat \cup {NoDate}, saved : Nat, tickers : Tickers,
         checked : Nat \cup {Never}]
BaseOf(row) == [date |-> row.date, saved |-> row.saved, tickers |-> row.tickers,
                checked |-> row.checked]
Refresh == [pc : {"idle", "loaded", "fetch", "check", "persist"},
            kind : Kind, event : Nat, base : Base \cup {NoRow},
            force : BOOLEAN, at : Nat, tickers : Tickers]
NoRefresh == [pc |-> "idle", kind |-> "cached", event |-> 0, base |-> NoRow,
              force |-> FALSE, at |-> 0, tickers |-> NoTickers]

\* anchor: the date the returns count from; read: the row as the open write
\* transaction read it.
Capture == [pc : {"idle", "next", "fetch", "append", "write"}, event : Nat,
            anchor : Nat, read : Row \cup {NoRow}, days : SUBSET Days, tag : Tag]
NoCapture == [pc |-> "idle", event |-> 0, anchor |-> 0, read |-> NoRow,
              days |-> {}, tag |-> "none"]

Status == {"captured", "no_data", "event_missing", "error"}
LogEntry == [event : Event, day : Days, status : Status]
Entries(e, days, status) == [event : {e}, day : days, status : {status}]

Init ==
    /\ rows = [e \in Event |-> NoRow]
    /\ lastId = 0
    /\ writer = Free
    /\ now = MinTime
    /\ refresh = [r \in Refresher |-> NoRefresh]
    /\ capture = [c \in Capturer |-> NoCapture]
    /\ due = [e \in Event |-> {}]
    /\ visited = {}
    /\ log = {}
    /\ faults = 0

---------------------------------------------------------------------------
(* The market refresh.                                                     *)

RefreshFrame == UNCHANGED <<writer, now, capture, passVars, faults>>
EndRefresh(r) == refresh' = [refresh EXCEPT ![r] = NoRefresh]

\* cached: /analyze answers from the row.  endpoint: refresh-market, and
\* backtest.  backfill and reanalyze: the movers backfill, which forces.
LoadForRefresh(r) ==
    /\ refresh[r].pc = "idle"
    /\ \E e \in Event, kind \in Kind, force \in BOOLEAN :
        /\ rows[e] # NoRow
        /\ kind \in {"backfill", "reanalyze"} => force
        /\ refresh' = [refresh EXCEPT ![r] =
            [NoRefresh EXCEPT !.pc = "loaded", !.kind = kind, !.event = e,
                              !.base = BaseOf(rows[e]), !.force = force]]
    /\ UNCHANGED tableVars
    /\ RefreshFrame

\* A row without tickers gets a first market check from the backfill, or is
\* skipped for want of assets; a re-analysis always checks the market anew.
Rechecks(x) ==
    \/ x.kind = "reanalyze"
    \/ x.kind = "backfill" /\ x.base.tickers = NoTickers

Decide(r) ==
    LET x == refresh[r] IN
    /\ x.pc = "loaded"
    /\ \/ /\ Rechecks(x)
          /\ refresh' = [refresh EXCEPT ![r].pc = "check"]
       \/ /\ ~Rechecks(x)
          /\ ShouldRefresh(x.base, now, x.force)
          /\ refresh' = [refresh EXCEPT ![r].pc = "fetch", ![r].at = now]
       \/ /\ ~Rechecks(x) => ~ShouldRefresh(x.base, now, x.force)
          /\ EndRefresh(r)
    /\ UNCHANGED tableVars
    /\ RefreshFrame

\* From here on only the write to come matters.
ToPersist(x, tickers, at) ==
    [NoRefresh EXCEPT !.pc = "persist", !.kind = x.kind, !.event = x.event,
                      !.tickers = tickers, !.at = at]

\* Only the routes that resolve a missing date to the save time, and dated
\* rows, ask for the returns since the event.
Followed(x) == x.base.date # NoDate \/ x.kind = "endpoint"

\* The list to write: with nothing to check it is the loaded one.
Returned(x) ==
    IF x.base.tickers = NoTickers THEN {NoTickers}
    ELSE IF Followed(x)
    THEN {Merge(x.base.tickers, o) : o \in Followups(AnchorDate(x.base), now)}
    ELSE TickerRows \cup {x.base.tickers}

FetchReturns(r) ==
    LET x == refresh[r] IN
    /\ x.pc = "fetch"
    /\ \E tickers \in Returned(x) :
        refresh' = [refresh EXCEPT ![r] = ToPersist(x, tickers, x.at)]
    /\ UNCHANGED tableVars
    /\ RefreshFrame

\* market_check of the backfill: whatever it returns is written, and stamped
\* with the time after it returned.
CheckMarket(r) ==
    /\ refresh[r].pc = "check"
    /\ \E tickers \in Tickers :
        refresh' = [refresh EXCEPT ![r] = ToPersist(@, tickers, now)]
    /\ UNCHANGED tableVars
    /\ RefreshFrame

\* update_event_market_refresh; nothing is written for a row that is gone.
Persist(r) ==
    LET x == refresh[r] IN
    /\ x.pc = "persist" /\ writer = Free
    /\ rows' = [rows EXCEPT ![x.event] =
                  IF @ = NoRow THEN NoRow ELSE WithRefresh(@, x.tickers, x.at)]
    /\ EndRefresh(r)
    /\ UNCHANGED lastId
    /\ RefreshFrame

\* The provider raises, the analysis is a mock, or the database raises or
\* stays locked: the caller answers without a write.
RefreshFails(r) ==
    /\ refresh[r].pc \in {"fetch", "check", "persist"}
    /\ EndRefresh(r)
    /\ UNCHANGED tableVars
    /\ RefreshFrame

---------------------------------------------------------------------------
(* Captures: the manual route and the daemon share the append.             *)

CaptureFrame == UNCHANGED <<now, refresh, faults>>
NoWrite == UNCHANGED <<tableVars, writer>>

LoadForCapture(c) ==
    /\ capture[c].pc = "idle"
    /\ \E e \in Event :
        /\ rows[e] # NoRow
        /\ rows[e].tickers # NoTickers
        /\ capture' = [capture EXCEPT ![c] =
            [NoCapture EXCEPT !.pc = "fetch", !.event = e, !.days = Days,
                              !.anchor = AnchorDate(rows[e])]]
    /\ UNCHANGED passVars
    /\ NoWrite
    /\ CaptureFrame

\* What is left to do once a day or an event is done with.
Continue(c, days) ==
    IF days # {}
    THEN [NoCapture EXCEPT !.pc = "append", !.event = capture[c].event,
                           !.days = days, !.tag = capture[c].tag]
    ELSE IF c = Daemon
    THEN [NoCapture EXCEPT !.pc = "next"]
    ELSE NoCapture

\* The daemon logs what became of a day, the route does not.
Logged(c, days, status) ==
    log' = IF c = Daemon THEN log \cup Entries(capture[c].event, days, status)
           ELSE log

\* Returns since the event, for every day the provider has bars for.
FetchFollowup(c) ==
    LET x == capture[c] IN
    /\ x.pc = "fetch"
    /\ \E o \in Followups(x.anchor, now) :
        /\ capture' = [capture EXCEPT ![c] =
             IF x.days \cap o.ready = {} THEN Continue(c, {})
             ELSE [Continue(c, x.days \cap o.ready) EXCEPT !.tag = o.tag]]
        /\ Logged(c, x.days \ o.ready, "no_data")
    /\ UNCHANGED <<due, visited>>
    /\ NoWrite
    /\ CaptureFrame

\* Fault: what the provider raises ends the pass.
FollowupFailsPass(c) ==
    /\ capture[c].pc = "fetch"
    /\ capture' = [capture EXCEPT ![c] = NoCapture]
    /\ UNCHANGED passVars
    /\ NoWrite
    /\ CaptureFrame

FollowupFails(c) ==
    /\ capture[c].pc = "fetch"
    /\ capture' = [capture EXCEPT ![c] = Continue(c, {})]
    /\ Logged(c, capture[c].days, "error")
    /\ UNCHANGED <<due, visited>>
    /\ NoWrite
    /\ CaptureFrame

Day(c) == Min(capture[c].days)
Later(c) == capture[c].days \ {Day(c)}

\* Fault: a deferred transaction reads without the lock.
AppendReadDeferred(c) ==
    LET row == rows[capture[c].event] IN
    /\ capture[c].pc = "append" /\ row # NoRow
    /\ capture' = [capture EXCEPT ![c].pc = "write", ![c].read = row]
    /\ UNCHANGED <<tableVars, writer, passVars>>
    /\ CaptureFrame

\* append_revisit_snapshot: BEGIN IMMEDIATE takes the write lock, then the
\* row is read; a row that is gone ends the transaction.
AppendRead(c) ==
    LET row == rows[capture[c].event] IN
    /\ capture[c].pc = "append" /\ writer = Free
    /\ \/ /\ row = NoRow
          /\ capture' = [capture EXCEPT ![c] = Continue(c, Later(c))]
          /\ Logged(c, {Day(c)}, "event_missing")
          /\ UNCHANGED writer
       \/ /\ row # NoRow
          /\ capture' = [capture EXCEPT ![c].pc = "write", ![c].read = row]
          /\ writer' = c
          /\ UNCHANGED log
    /\ UNCHANGED <<tableVars, due, visited>>
    /\ CaptureFrame

\* The UPDATE and its COMMIT.
AppendWrite(c) ==
    LET x == capture[c] IN
    /\ x.pc = "write"
    /\ rows' = [rows EXCEPT ![x.event] =
         IF @ = NoRow THEN NoRow
         ELSE WithSnapshot(@, x.read, Day(c), x.tag)]
    /\ writer' = Free
    /\ capture' = [capture EXCEPT ![c] = Continue(c, Later(c))]
    /\ Logged(c, {Day(c)}, "captured")
    /\ UNCHANGED <<lastId, due, visited>>
    /\ CaptureFrame

\* Fault: a failed append drops the event's later days.
AppendFailsEvent(c) ==
    /\ capture[c].pc \in {"append", "write"}
    /\ writer' = IF capture[c].pc = "write" THEN Free ELSE writer
    /\ capture' = [capture EXCEPT ![c] = Continue(c, {})]
    /\ Logged(c, {Day(c)}, "error")
    /\ UNCHANGED <<tableVars, due, visited>>
    /\ CaptureFrame

\* Fault: a rolled back append is logged as captured.
AppendFailsSilently(c) ==
    /\ capture[c].pc \in {"append", "write"}
    /\ writer' = IF capture[c].pc = "write" THEN Free ELSE writer
    /\ capture' = [capture EXCEPT ![c] =
                     Continue(c, IF c = Daemon THEN Later(c) ELSE {})]
    /\ Logged(c, {Day(c)}, "captured")
    /\ UNCHANGED <<tableVars, due, visited>>
    /\ CaptureFrame

\* The lock is not to be had in time, or a statement raises and is rolled
\* back: the daemon goes on with the next day, the route gives up.
AppendFails(c) ==
    /\ capture[c].pc \in {"append", "write"}
    /\ writer' = IF capture[c].pc = "write" THEN Free ELSE writer
    /\ capture' = [capture EXCEPT ![c] =
                     Continue(c, IF c = Daemon THEN Later(c) ELSE {})]
    /\ Logged(c, {Day(c)}, "error")
    /\ UNCHANGED <<tableVars, due, visited>>
    /\ CaptureFrame

---------------------------------------------------------------------------
(* The daemon's pass.                                                      *)

\* Fault: the oldest rows are loaded.
ScannedOldest ==
    {e \in Event : /\ rows[e] # NoRow
                   /\ Cardinality({f \in Event : f < e /\ rows[f] # NoRow}) < ScanLimit}

\* load_recent_events: the newest rows only.
Scanned ==
    {e \in Event : /\ rows[e] # NoRow
                   /\ Cardinality({f \in Event : f > e /\ rows[f] # NoRow}) < ScanLimit}

StartPass ==
    LET found == [e \in Event |->
                    IF e \in Scanned THEN DueDays(rows[e], now) ELSE {}] IN
    /\ capture[Daemon].pc = "idle"
    /\ due' = found
    /\ visited' = {}
    /\ log' = {}
    /\ capture' = [capture EXCEPT ![Daemon] =
         IF \E e \in Event : found[e] # {}
         THEN [NoCapture EXCEPT !.pc = "next"] ELSE NoCapture]
    /\ NoWrite
    /\ CaptureFrame

\* Fault: a deleted event stays at the head of the list.
NextEventRetrying ==
    LET open == {e \in Event : due[e] # {} /\ e \notin visited} IN
    /\ capture[Daemon].pc = "next"
    /\ open # {}
    /\ LET e == Max(open)
           row == rows[e] IN
        \/ /\ row = NoRow
           /\ log' = log \cup Entries(e, due[e], "event_missing")
           /\ UNCHANGED <<capture, visited>>
        \/ /\ row # NoRow
           /\ visited' = visited \cup {e}
           /\ capture' = [capture EXCEPT ![Daemon] =
                IF due[e] \ Captured(row) = {} THEN @
                ELSE [@ EXCEPT !.pc = "fetch", !.event = e,
                               !.days = due[e] \ Captured(row),
                               !.anchor = AnchorDate(row)]]
           /\ UNCHANGED log
    /\ UNCHANGED due
    /\ NoWrite
    /\ CaptureFrame

\* Newest event first; the row is loaded again, and days captured since the
\* pass began are dropped.
NextEvent ==
    LET open == {e \in Event : due[e] # {} /\ e \notin visited} IN
    /\ capture[Daemon].pc = "next"
    /\ open # {}
    /\ LET e == Max(open)
           row == rows[e]
           days == IF row = NoRow THEN due[e] ELSE due[e] \ Captured(row) IN
        /\ visited' = visited \cup {e}
        /\ \/ /\ row = NoRow
              /\ log' = log \cup Entries(e, days, "event_missing")
              /\ UNCHANGED capture
           \/ /\ row # NoRow /\ row.tickers = NoTickers
              /\ log' = log \cup Entries(e, days, "no_data")
              /\ UNCHANGED capture
           \/ /\ row # NoRow /\ row.tickers # NoTickers
              /\ capture' = [capture EXCEPT ![Daemon] =
                   IF days = {} THEN @
                   ELSE [@ EXCEPT !.pc = "fetch", !.event = e, !.days = days,
                                  !.anchor = AnchorDate(row)]]
              /\ UNCHANGED log
    /\ UNCHANGED due
    /\ NoWrite
    /\ CaptureFrame

EndPass ==
    /\ capture[Daemon].pc = "next"
    /\ \A e \in Event : due[e] # {} => e \in visited
    /\ capture' = [capture EXCEPT ![Daemon] = NoCapture]
    /\ UNCHANGED passVars
    /\ NoWrite
    /\ CaptureFrame

\* Loading a row raises outside the pass's try blocks: the loop logs it and
\* waits for its next tick, nothing of the pass is kept.
PassRaises ==
    /\ capture[Daemon].pc = "next" /\ faults < MaxFault
    /\ faults' = faults + 1
    /\ capture' = [capture EXCEPT ![Daemon] = NoCapture]
    /\ due' = [e \in Event |-> {}]
    /\ visited' = {}
    /\ log' = {}
    /\ NoWrite
    /\ UNCHANGED <<now, refresh>>

---------------------------------------------------------------------------
(* The environment.                                                        *)

SlotFrame == UNCHANGED <<refresh, capture, passVars>>

\* A saved analysis, or a row from before last_market_check_at existed.
SaveEvent ==
    /\ writer = Free /\ lastId < MaxEvent
    /\ \E date \in 0..now \cup {NoDate}, tickers \in Tickers,
          checked \in {now, Never} :
        rows' = [rows EXCEPT ![lastId + 1] = NewRow(date, now, tickers, checked)]
    /\ lastId' = lastId + 1
    /\ UNCHANGED <<writer, now, faults>>
    /\ SlotFrame

DeleteEvent ==
    /\ writer = Free
    /\ \E e \in Event : /\ rows[e] # NoRow
                        /\ rows' = [rows EXCEPT ![e] = NoRow]
    /\ UNCHANGED <<lastId, writer, now, faults>>
    /\ SlotFrame

Tick ==
    /\ now < MaxTime
    /\ now' = now + 1
    /\ UNCHANGED <<tableVars, writer, faults>>
    /\ SlotFrame

\* The process dies: open transactions roll back, nothing in memory is kept.
Crash ==
    /\ faults < MaxFault
    /\ faults' = faults + 1
    /\ writer' = Free
    /\ refresh' = [r \in Refresher |-> NoRefresh]
    /\ capture' = [c \in Capturer |-> NoCapture]
    /\ due' = [e \in Event |-> {}]
    /\ visited' = {}
    /\ log' = {}
    /\ UNCHANGED <<tableVars, now>>

RefreshStep(r) ==
    Decide(r) \/ FetchReturns(r) \/ CheckMarket(r) \/ Persist(r) \/ RefreshFails(r)
CaptureStep(c) ==
    \/ FetchFollowup(c) \/ FollowupFails(c)
    \/ AppendRead(c) \/ AppendWrite(c) \/ AppendFails(c)
PassStep == StartPass \/ NextEvent \/ EndPass \/ CaptureStep(Daemon)

Next ==
    \/ \E r \in Refresher : LoadForRefresh(r) \/ RefreshStep(r)
    \/ \E c \in Revisitor : LoadForCapture(c) \/ CaptureStep(c)
    \/ PassStep
    \/ PassRaises
    \/ SaveEvent \/ DeleteEvent \/ Tick \/ Crash

Spec == Init /\ [][Next]_vars

\* The thread pool and the daemon thread run what they have started, and the
\* daemon's timer goes off again and again; nobody has to call anything.
FairSpec ==
    /\ Spec
    /\ \A r \in Refresher : WF_vars(RefreshStep(r))
    /\ \A c \in Revisitor : WF_vars(CaptureStep(c))
    /\ WF_vars(PassStep)
===========================================================================
