---------------------------- MODULE RevisitProofs ----------------------------
(***************************************************************************)
(* Proofs about the writers of the market evidence, for every number of    *)
(* refreshes, revisits, events and days and every bound.                   *)
(***************************************************************************)
EXTENDS RevisitProperties, WellFoundedInduction, TLAPS

Busy == {"fetch", "append", "write"}

\* The write lock is held exactly by the capture inside its transaction.
LockOK == \A c \in Capturer : capture[c].pc = "write" <=> writer = c

\* What the open transaction read is still what the row holds.
ReadOK ==
    \A c \in Capturer : capture[c].pc = "write" =>
        capture[c].read \in Row /\ capture[c].read = rows[capture[c].event]

\* A refresh or a capture under way has an event, and what it needs of it.
RefreshOK ==
    \A r \in Refresher :
        /\ refresh[r].pc # "idle" => refresh[r].event \in Event
        /\ refresh[r].pc \in {"loaded", "fetch", "check"} => refresh[r].base \in Base
CaptureOK ==
    \A c \in Capturer : capture[c].pc \in Busy =>
        capture[c].event \in Event /\ capture[c].days # {}

\* Only ids that were handed out have had a row.
IdsOK == \A e \in Event : rows[e] # NoRow \/ due[e] # {} => e <= lastId

\* The inductive invariant.
IInv ==
    /\ TypeOK
    /\ LockOK
    /\ ReadOK
    /\ RefreshOK
    /\ CaptureOK
    /\ IdsOK
    /\ VerdictMatchesTickers

---------------------------------------------------------------------------
(* The least day of a capture and the newest event of a pass exist.        *)

Below == {p \in Nat \X Nat : p[1] < p[2]}

LEMMA BelowIsLess ==
    ASSUME NEW a \in Nat, NEW b \in Nat
    PROVE  <<a, b>> \in Below <=> a < b
<1>1. <<a, b>> \in Nat \X Nat /\ <<a, b>>[1] = a /\ <<a, b>>[2] = b
  OBVIOUS
<1> QED
  BY <1>1 DEF Below

LEMMA MinIn ==
    ASSUME NEW S \in SUBSET Nat, S # {}
    PROVE  Min(S) \in S
<1>1. IsWellFoundedOn(Below, Nat)
  BY NatLessThanWellFounded DEF OpToRel, Below
<1>2. PICK x \in S : \A y \in S : <<y, x>> \notin Below
  BY <1>1, WFMin
<1>3. \A y \in S : x <= y
  <2> TAKE y \in S
  <2>1. x \in Nat /\ y \in Nat
    OBVIOUS
  <2>2. ~(y < x)
    BY <1>2, <2>1, BelowIsLess, Zenon
  <2> QED
    BY <2>1, <2>2
<1> QED
  BY <1>3 DEF Min

LEMMA MaxIn ==
    ASSUME NEW S \in SUBSET Event, S # {}
    PROVE  Max(S) \in S
<1> DEFINE T == {MaxEvent - x : x \in S}
<1>1. T \in SUBSET Nat /\ T # {}
  <2>1. MaxEvent \in Nat
    BY EventBoundAssumption
  <2>2. \A x \in S : MaxEvent - x \in Nat
    BY <2>1 DEF Event
  <2> QED
    BY <2>2
<1>3. IsWellFoundedOn(Below, Nat)
  BY NatLessThanWellFounded DEF OpToRel, Below
<1>4. PICK z \in T : \A y \in T : <<y, z>> \notin Below
  BY <1>1, <1>3, WFMin
<1>5. PICK x \in S : z = MaxEvent - x
  BY <1>4
<1>6. \A y \in S : x >= y
  <2> TAKE y \in S
  <2>1. MaxEvent - y \in T
    OBVIOUS
  <2>2. ~(MaxEvent - y < z)
    BY <1>1, <1>4, <2>1, BelowIsLess
  <2> QED
    BY <1>5, <2>2, EventBoundAssumption DEF Event
<1> QED
  BY <1>6 DEF Max

---------------------------------------------------------------------------
(* The row's operators.                                                    *)

LEMMA LabelType ==
    ASSUME NEW tickers \in Tickers
    PROVE  Label(tickers) \in Verdict
  BY DirectionAssumption DEF Label, Tickers, TickerRows, Tag, Verdict

LEMMA MergeType ==
    ASSUME NEW tickers \in TickerRows, NEW anchor, NEW t,
           NEW o \in Followups(anchor, t)
    PROVE  Merge(tickers, o) \in Tickers
<1>1. o.tag \in Tag /\ o.ready \in SUBSET Days /\ (o.tag # "none" => DirDay \in o.ready)
  BY DEF Followups
<1>2. o.tag # "none" => o.ready \cap Anchors # {}
  BY <1>1, DayAssumption
<1> QED
  BY <1>1, <1>2 DEF Merge, Tickers, TickerRows

LEMMA NewRowType ==
    ASSUME NEW date \in Nat \cup {NoDate}, NEW t \in Nat, NEW tickers \in Tickers,
           NEW checked \in Nat \cup {Never}
    PROVE  NewRow(date, t, tickers, checked) \in Row
  BY LabelType DEF NewRow, Row

LEMMA WithRefreshType ==
    ASSUME NEW row \in Row, NEW tickers \in Tickers, NEW at \in Nat
    PROVE  /\ WithRefresh(row, tickers, at) \in Row
           /\ WithRefresh(row, tickers, at).tickers = tickers
           /\ WithRefresh(row, tickers, at).verdict = Label(tickers)
           /\ WithRefresh(row, tickers, at).snaps = row.snaps
  BY LabelType DEF WithRefresh, Row

\* Under the lock a capture reads the row it writes to: it changes one day and
\* leaves the verdict that of the tickers.
LEMMA WithSnapshotType ==
    ASSUME NEW row \in Row, NEW day \in Days, NEW snap \in Snapshot
    PROVE  /\ WithSnapshot(row, row, day, snap) \in Row
           /\ WithSnapshot(row, row, day, snap).tickers = row.tickers
           /\ WithSnapshot(row, row, day, snap).verdict = Label(row.tickers)
           /\ WithSnapshot(row, row, day, snap).snaps = [row.snaps EXCEPT ![day] = snap]
<1>1. row.tickers \in Tickers /\ row.snaps \in [Days -> Snapshot \cup {NoSnap}]
  BY DEF Row
<1> QED
  BY <1>1, LabelType DEF WithSnapshot, Row

LEMMA AnchorType ==
    ASSUME NEW row, row.date \in Nat \cup {NoDate}, row.saved \in Nat
    PROVE  AnchorDate(row) \in Nat
  BY DEF AnchorDate

---------------------------------------------------------------------------
(* The slots' operators.                                                   *)

LEMMA Naturals ==
    /\ MaxEvent \in Nat /\ Event \subseteq Nat \ {0}
    /\ Days \subseteq Nat /\ Anchors \subseteq Days
    /\ MinTime..MaxTime \subseteq Nat
    /\ Free \notin Capturer /\ Daemon \in Capturer /\ Revisitor \subseteq Capturer
<1>1. MaxEvent \in Nat /\ MinTime \in Nat /\ MaxTime \in Nat
  BY EventBoundAssumption
<1>2. Event \subseteq Nat \ {0} /\ MinTime..MaxTime \subseteq Nat
  BY <1>1 DEF Event
<1> QED
  BY <1>1, <1>2, DayAssumption, SlotAssumption DEF Capturer

LEMMA RowParts ==
    ASSUME NEW row \in Row
    PROVE  /\ BaseOf(row) \in Base
           /\ AnchorDate(row) \in Nat
           /\ row.tickers \in Tickers
           /\ row # NoRow
  BY AnchorType, SlotAssumption DEF Row, BaseOf, Base

\* The day a capture works on and those that are left.
LEMMA DayType ==
    ASSUME TypeOK, CaptureOK, NEW c \in Capturer, capture[c].pc \in Busy
    PROVE  Day(c) \in capture[c].days /\ Day(c) \in Days /\ Later(c) \in SUBSET Days
<1>1. capture[c].days \in SUBSET Days /\ capture[c].days # {}
  BY DEF TypeOK, CaptureOK, Capture
<1>2. capture[c].days \in SUBSET Nat
  BY <1>1, Naturals
<1> QED
  BY <1>1, <1>2, MinIn DEF Day, Later

LEMMA ContinueType ==
    ASSUME TypeOK, CaptureOK, NEW c \in Capturer, capture[c].pc \in Busy,
           NEW days \in SUBSET Days
    PROVE  /\ Continue(c, days) \in Capture
           /\ Continue(c, days).pc \in {"idle", "next", "append"}
           /\ Continue(c, days).pc = "append" =>
                /\ Continue(c, days).event = capture[c].event
                /\ Continue(c, days).days = days
                /\ days # {}
<1>1. capture[c] \in Capture /\ capture[c].event \in Nat /\ capture[c].tag \in Tag
  BY DEF TypeOK, Capture
<1>2. NoCapture \in Capture
  BY DEF NoCapture, Capture, Tag
<1> QED
  BY <1>1, <1>2 DEF Continue, Capture, NoCapture

LEMMA LoggedType ==
    ASSUME TypeOK, CaptureOK, NEW c \in Capturer, capture[c].pc \in Busy,
           NEW days \in SUBSET Days, NEW status \in Status, Logged(c, days, status)
    PROVE  log' \in SUBSET LogEntry
<1>1. Entries(capture[c].event, days, status) \subseteq LogEntry
  BY DEF CaptureOK, Entries, LogEntry
<1> QED
  BY <1>1 DEF Logged, TypeOK

\* A slot that moves on to a well-formed state leaves all slots well-formed.
LEMMA CaptureMoves ==
    ASSUME TypeOK, CaptureOK, NEW c \in Capturer, NEW x \in Capture,
           x.pc \in Busy => x.event \in Event /\ x.days # {},
           capture' = [capture EXCEPT ![c] = x]
    PROVE  capture' \in [Capturer -> Capture] /\ CaptureOK'
  BY DEF TypeOK, CaptureOK

\* Outside the transaction the lock and what was read stay as they are.
LEMMA LockFrame ==
    ASSUME TypeOK, LockOK, ReadOK, NEW c \in Capturer, NEW x \in Capture,
           capture[c].pc # "write", x.pc # "write",
           capture' = [capture EXCEPT ![c] = x], UNCHANGED <<rows, writer>>
    PROVE  LockOK' /\ ReadOK'
  BY DEF TypeOK, LockOK, ReadOK

LEMMA RefreshMoves ==
    ASSUME TypeOK, RefreshOK, NEW r \in Refresher, NEW x \in Refresh,
           x.pc # "idle" => x.event \in Event,
           x.pc \in {"loaded", "fetch", "check"} => x.base \in Base,
           refresh' = [refresh EXCEPT ![r] = x]
    PROVE  refresh' \in [Refresher -> Refresh] /\ RefreshOK'
  BY DEF TypeOK, RefreshOK

---------------------------------------------------------------------------
(* The market refresh keeps the invariant.                                 *)

LEMMA RefreshOnly ==
    ASSUME IInv, refresh' \in [Refresher -> Refresh], RefreshOK',
           UNCHANGED tableVars, RefreshFrame
    PROVE  IInv'
<1>1. UNCHANGED <<rows, lastId, writer, now, capture, due, visited, log, faults>>
  BY DEF tableVars, RefreshFrame, passVars
<1>2. TypeOK'
  BY <1>1 DEF IInv, TypeOK
<1>3. LockOK' /\ ReadOK' /\ CaptureOK' /\ IdsOK' /\ VerdictMatchesTickers'
  BY <1>1 DEF IInv, LockOK, ReadOK, CaptureOK, IdsOK, VerdictMatchesTickers
<1> QED
  BY <1>2, <1>3 DEF IInv

LEMMA NoRefreshType == NoRefresh \in Refresh
  BY DEF NoRefresh, Refresh, Kind, Tickers

LEMMA EndRefreshKeeps ==
    ASSUME IInv, NEW r \in Refresher, EndRefresh(r)
    PROVE  refresh' \in [Refresher -> Refresh] /\ RefreshOK'
<1>1. NoRefresh.pc = "idle"
  BY DEF NoRefresh
<1> QED
  BY <1>1, NoRefreshType, RefreshMoves DEF IInv, EndRefresh

LEMMA ToPersistType ==
    ASSUME NEW x \in Refresh, NEW tickers \in Tickers, NEW at \in Nat
    PROVE  /\ ToPersist(x, tickers, at) \in Refresh
           /\ ToPersist(x, tickers, at).pc = "persist"
           /\ ToPersist(x, tickers, at).event = x.event
  BY DEF ToPersist, NoRefresh, Refresh

LEMMA LoadForRefreshKeeps ==
    ASSUME IInv, NEW r \in Refresher, LoadForRefresh(r)
    PROVE  IInv'
<1>1. PICK e \in Event, kind \in Kind, force \in BOOLEAN :
        /\ rows[e] # NoRow
        /\ refresh' = [refresh EXCEPT ![r] =
            [NoRefresh EXCEPT !.pc = "loaded", !.kind = kind, !.event = e,
                              !.base = BaseOf(rows[e]), !.force = force]]
  BY DEF LoadForRefresh
<1> DEFINE x == [NoRefresh EXCEPT !.pc = "loaded", !.kind = kind, !.event = e,
                                  !.base = BaseOf(rows[e]), !.force = force]
<1>2. rows[e] \in Row
  BY <1>1 DEF IInv, TypeOK
<1>3. BaseOf(rows[e]) \in Base /\ e \in Nat
  BY <1>2, RowParts, Naturals
<1>4. x \in Refresh /\ x.event = e /\ x.base = BaseOf(rows[e])
  BY <1>3, NoRefreshType DEF Refresh, NoRefresh
<1>5. refresh' \in [Refresher -> Refresh] /\ RefreshOK'
  BY <1>1, <1>3, <1>4, RefreshMoves DEF IInv
<1> QED
  BY <1>5, RefreshOnly DEF LoadForRefresh

LEMMA DecideKeeps ==
    ASSUME IInv, NEW r \in Refresher, Decide(r)
    PROVE  IInv'
<1>1. refresh[r] \in Refresh /\ refresh[r].event \in Event /\ refresh[r].base \in Base
      /\ now \in Nat
  BY Naturals DEF IInv, TypeOK, RefreshOK, Decide
<1>2. refresh' \in [Refresher -> Refresh] /\ RefreshOK'
  <2>1. CASE refresh' = [refresh EXCEPT ![r].pc = "check"]
    <3>1. [refresh[r] EXCEPT !.pc = "check"] \in Refresh
      BY <1>1 DEF Refresh
    <3>2. refresh' = [refresh EXCEPT ![r] = [refresh[r] EXCEPT !.pc = "check"]]
      BY <2>1
    <3>3. [refresh[r] EXCEPT !.pc = "check"].event = refresh[r].event
          /\ [refresh[r] EXCEPT !.pc = "check"].base = refresh[r].base
      BY <1>1 DEF Refresh
    <3> QED
      BY <1>1, <3>1, <3>2, <3>3, RefreshMoves DEF IInv
  <2>2. CASE refresh' = [refresh EXCEPT ![r].pc = "fetch", ![r].at = now]
    <3> DEFINE x == [refresh[r] EXCEPT !.pc = "fetch", !.at = now]
    <3>1. x \in Refresh
      BY <1>1 DEF Refresh
    <3>2. refresh' = [refresh EXCEPT ![r] = x]
      BY <1>1, <2>2 DEF IInv, TypeOK
    <3>3. x.event = refresh[r].event /\ x.base = refresh[r].base
      BY <1>1 DEF Refresh
    <3> QED
      BY <1>1, <3>1, <3>2, <3>3, RefreshMoves DEF IInv
  <2>3. CASE EndRefresh(r)
    BY <2>3, EndRefreshKeeps
  <2> QED
    BY <2>1, <2>2, <2>3 DEF Decide
<1> QED
  BY <1>2, RefreshOnly DEF Decide

LEMMA ReturnedType ==
    ASSUME NEW x \in Refresh, x.base \in Base
    PROVE  Returned(x) \subseteq Tickers
<1>1. x.base.tickers \in Tickers
  BY DEF Base
<1>2. x.base.tickers # NoTickers => x.base.tickers \in TickerRows
  BY <1>1 DEF Tickers
<1> QED
  BY <1>1, <1>2, MergeType DEF Returned, Tickers

LEMMA FetchReturnsKeeps ==
    ASSUME IInv, NEW r \in Refresher, FetchReturns(r)
    PROVE  IInv'
<1>1. /\ refresh[r] \in Refresh /\ refresh[r].event \in Event
      /\ refresh[r].base \in Base /\ refresh[r].at \in Nat
  BY DEF IInv, TypeOK, RefreshOK, FetchReturns, Refresh
<1>2. PICK tickers \in Returned(refresh[r]) :
        refresh' = [refresh EXCEPT ![r] = ToPersist(refresh[r], tickers, refresh[r].at)]
  BY DEF FetchReturns
<1>3. tickers \in Tickers
  BY <1>1, <1>2, ReturnedType
<1>4. refresh' \in [Refresher -> Refresh] /\ RefreshOK'
  BY <1>1, <1>2, <1>3, ToPersistType, RefreshMoves DEF IInv
<1> QED
  BY <1>4, RefreshOnly DEF FetchReturns

LEMMA CheckMarketKeeps ==
    ASSUME IInv, NEW r \in Refresher, CheckMarket(r)
    PROVE  IInv'
<1>1. refresh[r] \in Refresh /\ refresh[r].event \in Event /\ now \in Nat
  BY Naturals DEF IInv, TypeOK, RefreshOK, CheckMarket
<1>2. PICK tickers \in Tickers :
        refresh' = [refresh EXCEPT ![r] = ToPersist(refresh[r], tickers, now)]
  BY DEF CheckMarket, IInv, TypeOK
<1>3. refresh' \in [Refresher -> Refresh] /\ RefreshOK'
  BY <1>1, <1>2, ToPersistType, RefreshMoves DEF IInv
<1> QED
  BY <1>3, RefreshOnly DEF CheckMarket

LEMMA RefreshFailsKeeps ==
    ASSUME IInv, NEW r \in Refresher, RefreshFails(r)
    PROVE  IInv'
  BY EndRefreshKeeps, RefreshOnly DEF RefreshFails

\* Nobody writes a row while a capture holds the lock, so what the capture
\* read stays true; the row's own verdict is recomputed.
LEMMA RowsMove ==
    ASSUME IInv, writer = Free, UNCHANGED <<writer, capture>>
    PROVE  LockOK' /\ ReadOK' /\ CaptureOK'
<1>1. \A c \in Capturer : capture[c].pc # "write"
  BY Naturals DEF IInv, LockOK
<1> QED
  BY <1>1 DEF IInv, LockOK, ReadOK, CaptureOK

LEMMA PersistKeeps ==
    ASSUME IInv, NEW r \in Refresher, Persist(r)
    PROVE  IInv'
<1> DEFINE x == refresh[r]
<1>1. x.event \in Event /\ x.tickers \in Tickers /\ x.at \in Nat
  BY DEF IInv, TypeOK, RefreshOK, Persist, Refresh
<1>2. rows \in [Event -> Row \cup {NoRow}]
  BY DEF IInv, TypeOK
<1>3. rows' = [rows EXCEPT ![x.event] =
                 IF rows[x.event] = NoRow THEN NoRow
                 ELSE WithRefresh(rows[x.event], x.tickers, x.at)]
  BY <1>2 DEF Persist
<1>4. \A e \in Event :
        \/ rows'[e] = rows[e]
        \/ /\ rows[e] \in Row /\ rows'[e] = WithRefresh(rows[e], x.tickers, x.at)
  BY <1>1, <1>2, <1>3
<1>5. rows' \in [Event -> Row \cup {NoRow}]
  BY <1>1, <1>2, <1>3, WithRefreshType
<1>6. VerdictMatchesTickers'
  BY <1>1, <1>4, WithRefreshType DEF IInv, VerdictMatchesTickers
<1>7. UNCHANGED <<lastId, writer, now, capture, due, visited, log, faults>>
  BY DEF Persist, RefreshFrame, passVars
<1>8. IdsOK'
  BY <1>4, <1>7, RowParts DEF IInv, IdsOK
<1>9. LockOK' /\ ReadOK' /\ CaptureOK'
  BY <1>7, RowsMove DEF Persist
<1>10. refresh' \in [Refresher -> Refresh] /\ RefreshOK'
  BY EndRefreshKeeps DEF Persist
<1>11. TypeOK'
  BY <1>5, <1>7, <1>10 DEF IInv, TypeOK
<1> QED
  BY <1>6, <1>8, <1>9, <1>10, <1>11 DEF IInv

---------------------------------------------------------------------------
(* The captures keep the invariant.                                        *)

\* A step of a capture that writes nothing and does not touch the lock.
LEMMA CaptureOnly ==
    ASSUME IInv, NEW c \in Capturer, NEW x \in Capture,
           capture[c].pc # "write", x.pc # "write",
           x.pc \in Busy => x.event \in Event /\ x.days # {},
           capture' = [capture EXCEPT ![c] = x],
           NoWrite, CaptureFrame,
           due' \in [Event -> SUBSET Anchors], visited' \in SUBSET Event,
           log' \in SUBSET LogEntry,
           \A e \in Event : due'[e] # {} => due[e] # {} \/ rows[e] # NoRow
    PROVE  IInv'
<1>1. UNCHANGED <<rows, lastId, writer, now, refresh, faults>>
  BY DEF NoWrite, tableVars, CaptureFrame
<1>2. capture' \in [Capturer -> Capture] /\ CaptureOK'
  BY CaptureMoves DEF IInv
<1>3. LockOK' /\ ReadOK'
  BY <1>1, LockFrame DEF IInv
<1>4. TypeOK'
  BY <1>1, <1>2 DEF IInv, TypeOK
<1>5. RefreshOK' /\ IdsOK' /\ VerdictMatchesTickers'
  BY <1>1 DEF IInv, RefreshOK, IdsOK, VerdictMatchesTickers
<1> QED
  BY <1>2, <1>3, <1>4, <1>5 DEF IInv

LEMMA NoCaptureType == NoCapture \in Capture /\ NoCapture.pc = "idle"
  BY DEF NoCapture, Capture, Tag

LEMMA LoadForCaptureKeeps ==
    ASSUME IInv, NEW c \in Capturer, LoadForCapture(c)
    PROVE  IInv'
<1>1. PICK e \in Event :
        /\ rows[e] # NoRow
        /\ capture' = [capture EXCEPT ![c] =
            [NoCapture EXCEPT !.pc = "fetch", !.event = e, !.days = Days,
                              !.anchor = AnchorDate(rows[e])]]
  BY DEF LoadForCapture
<1> DEFINE x == [NoCapture EXCEPT !.pc = "fetch", !.event = e, !.days = Days,
                                  !.anchor = AnchorDate(rows[e])]
<1>2. AnchorDate(rows[e]) \in Nat /\ e \in Nat
  BY <1>1, RowParts, Naturals DEF IInv, TypeOK
<1>3. x \in Capture /\ x.pc = "fetch" /\ x.event = e /\ x.days = Days /\ Days # {}
  BY <1>2, NoCaptureType, DayAssumption DEF Capture, NoCapture
<1>4. UNCHANGED <<due, visited, log>> /\ capture[c].pc = "idle"
  BY DEF LoadForCapture, passVars
<1>5. /\ due \in [Event -> SUBSET Anchors] /\ visited \in SUBSET Event
      /\ log \in SUBSET LogEntry
  BY DEF IInv, TypeOK
<1> QED
  BY <1>1, <1>3, <1>4, <1>5, CaptureOnly DEF LoadForCapture

\* The steps that leave the due list alone and continue with some days.
LEMMA ContinueOnly ==
    ASSUME IInv, NEW c \in Capturer, capture[c].pc \in {"fetch", "append"},
           NEW x \in Capture, x.pc \in {"idle", "next", "append"},
           x.pc = "append" => x.event = capture[c].event /\ x.days # {},
           capture' = [capture EXCEPT ![c] = x],
           NoWrite, CaptureFrame, UNCHANGED <<due, visited>>,
           log' \in SUBSET LogEntry
    PROVE  IInv'
<1>1. x.pc \in Busy => x.event \in Event /\ x.days # {}
  BY DEF IInv, CaptureOK, Busy
<1>2. due \in [Event -> SUBSET Anchors] /\ visited \in SUBSET Event
  BY DEF IInv, TypeOK
<1> QED
  BY <1>1, <1>2, CaptureOnly

LEMMA FetchFollowupKeeps ==
    ASSUME IInv, NEW c \in Capturer, FetchFollowup(c)
    PROVE  IInv'
<1> DEFINE days == capture[c].days
<1>1. PICK o \in Followups(capture[c].anchor, now) :
        /\ capture' = [capture EXCEPT ![c] =
             IF days \cap o.ready = {} THEN Continue(c, {})
             ELSE [Continue(c, days \cap o.ready) EXCEPT !.tag = o.tag]]
        /\ Logged(c, days \ o.ready, "no_data")
  BY DEF FetchFollowup
<1> DEFINE x == IF days \cap o.ready = {} THEN Continue(c, {})
                ELSE [Continue(c, days \cap o.ready) EXCEPT !.tag = o.tag]
<1>2. /\ capture[c].pc \in Busy /\ o.tag \in Tag
      /\ days \cap o.ready \in SUBSET Days /\ days \ o.ready \in SUBSET Days
  BY DEF FetchFollowup, Busy, Followups, IInv, TypeOK, Capture
<1>3. x \in Capture /\ x.pc \in {"idle", "next", "append"}
      /\ (x.pc = "append" => x.event = capture[c].event /\ x.days # {})
  <2>1. CASE days \cap o.ready = {}
    BY <1>2, <2>1, ContinueType DEF IInv
  <2>2. CASE days \cap o.ready # {}
    <3> DEFINE y == Continue(c, days \cap o.ready)
    <3>1. /\ y \in Capture /\ y.pc \in {"idle", "next", "append"}
          /\ (y.pc = "append" => y.event = capture[c].event /\ y.days # {})
      BY <1>2, ContinueType DEF IInv
    <3>2. /\ [y EXCEPT !.tag = o.tag] \in Capture
          /\ [y EXCEPT !.tag = o.tag].pc = y.pc
          /\ [y EXCEPT !.tag = o.tag].event = y.event
          /\ [y EXCEPT !.tag = o.tag].days = y.days
      BY <1>2, <3>1 DEF Capture
    <3> HIDE DEF y
    <3> QED
      BY <2>2, <3>1, <3>2 DEF y
  <2> QED
    BY <2>1, <2>2
<1>4. log' \in SUBSET LogEntry
  BY <1>1, <1>2, LoggedType DEF IInv, Status
<1>5. capture' = [capture EXCEPT ![c] = x]
  BY <1>1
<1> HIDE DEF x
<1> QED
  BY <1>3, <1>4, <1>5, ContinueOnly DEF FetchFollowup

LEMMA FollowupFailsKeeps ==
    ASSUME IInv, NEW c \in Capturer, FollowupFails(c)
    PROVE  IInv'
<1>1. capture[c].pc \in Busy /\ capture[c].days \in SUBSET Days /\ "error" \in Status
  BY DEF FollowupFails, Busy, Status, IInv, TypeOK, Capture
<1>2. /\ Continue(c, {}) \in Capture
      /\ Continue(c, {}).pc \in {"idle", "next"}
  BY <1>1, ContinueType DEF IInv
<1>3. log' \in SUBSET LogEntry
  BY <1>1, LoggedType DEF IInv, FollowupFails
<1> QED
  BY <1>2, <1>3, ContinueOnly DEF FollowupFails

LEMMA AppendReadKeeps ==
    ASSUME IInv, NEW c \in Capturer, AppendRead(c)
    PROVE  IInv'
<1> DEFINE row == rows[capture[c].event]
<1>1. /\ capture[c] \in Capture /\ capture[c].pc \in Busy
      /\ capture[c].event \in Event /\ capture[c].days # {}
      /\ capture[c].days \in SUBSET Days
  BY DEF AppendRead, Busy, IInv, TypeOK, CaptureOK, Capture
<1>2. Day(c) \in Days /\ Later(c) \in SUBSET Days /\ "event_missing" \in Status
  BY <1>1, DayType DEF IInv, Status
<1>3. CASE /\ capture' = [capture EXCEPT ![c] = Continue(c, Later(c))]
           /\ Logged(c, {Day(c)}, "event_missing")
           /\ UNCHANGED writer
  <2>1. log' \in SUBSET LogEntry
    BY <1>1, <1>2, <1>3, LoggedType DEF IInv
  <2>2. /\ Continue(c, Later(c)) \in Capture
        /\ Continue(c, Later(c)).pc \in {"idle", "next", "append"}
        /\ Continue(c, Later(c)).pc = "append" =>
             /\ Continue(c, Later(c)).event = capture[c].event
             /\ Continue(c, Later(c)).days # {}
    BY <1>1, <1>2, ContinueType DEF IInv
  <2>3. NoWrite /\ CaptureFrame /\ UNCHANGED <<due, visited>>
        /\ capture[c].pc \in {"fetch", "append"}
    BY <1>3 DEF AppendRead, NoWrite
  <2> QED
    BY <1>3, <2>1, <2>2, <2>3, ContinueOnly
<1>4. CASE /\ row # NoRow
           /\ capture' = [capture EXCEPT ![c].pc = "write", ![c].read = row]
           /\ writer' = c
           /\ UNCHANGED log
  <2> DEFINE x == [capture[c] EXCEPT !.pc = "write", !.read = row]
  <2>1. row \in Row
    BY <1>1, <1>4 DEF IInv, TypeOK
  <2>2. /\ x \in Capture /\ x.pc = "write" /\ x.read = row
        /\ x.event = capture[c].event /\ x.days = capture[c].days
    BY <1>1, <2>1 DEF Capture
  <2>3. capture' = [capture EXCEPT ![c] = x]
    BY <1>1, <1>4 DEF IInv, TypeOK
  <2> HIDE DEF x
  <2>4. capture' \in [Capturer -> Capture] /\ CaptureOK'
    BY <1>1, <2>2, <2>3, CaptureMoves DEF IInv
  <2>5. UNCHANGED <<rows, lastId, now, refresh, due, visited, log, faults>>
        /\ writer = Free
    BY <1>4 DEF AppendRead, tableVars, CaptureFrame
  <2>6. \A d \in Capturer : capture[d].pc # "write"
    BY <2>5, Naturals DEF IInv, LockOK
  <2>7. LockOK' /\ ReadOK'
    BY <1>4, <2>1, <2>2, <2>3, <2>5, <2>6 DEF IInv, TypeOK, LockOK, ReadOK
  <2>8. TypeOK'
    BY <1>4, <2>4, <2>5 DEF IInv, TypeOK
  <2>9. RefreshOK' /\ IdsOK' /\ VerdictMatchesTickers'
    BY <2>5 DEF IInv, RefreshOK, IdsOK, VerdictMatchesTickers
  <2> QED
    BY <2>4, <2>7, <2>8, <2>9 DEF IInv
<1> QED
  BY <1>3, <1>4 DEF AppendRead

\* The end of a transaction gives the lock back.
LEMMA LockReleased ==
    ASSUME IInv, NEW c \in Capturer, capture[c].pc = "write",
           NEW x \in Capture, x.pc # "write",
           capture' = [capture EXCEPT ![c] = x], writer' = Free
    PROVE  LockOK' /\ ReadOK'
<1>1. \A d \in Capturer : d # c => capture[d].pc # "write"
  BY DEF IInv, LockOK
<1>2. \A d \in Capturer : capture'[d].pc # "write"
  BY <1>1 DEF IInv, TypeOK
<1> QED
  BY <1>2, Naturals DEF LockOK, ReadOK

\* What the open transaction writes, in terms of the row it writes to.
LEMMA AppendedRow ==
    ASSUME IInv, NEW c \in Capturer, AppendWrite(c)
    PROVE  /\ capture[c].event \in Event /\ Day(c) \in Days
           /\ capture[c].tag \in Snapshot
           /\ rows[capture[c].event] \in Row
           /\ rows' = [rows EXCEPT ![capture[c].event] =
                WithSnapshot(rows[capture[c].event], rows[capture[c].event],
                             Day(c), capture[c].tag)]
<1>1. /\ capture[c].event \in Event /\ capture[c].pc \in Busy
      /\ capture[c].read = rows[capture[c].event] /\ capture[c].read \in Row
      /\ capture[c].tag \in Snapshot
  BY DEF IInv, TypeOK, CaptureOK, ReadOK, AppendWrite, Busy, Capture, Snapshot
<1>2. Day(c) \in Days
  BY <1>1, DayType DEF IInv
<1>3. rows[capture[c].event] # NoRow
  BY <1>1, SlotAssumption
<1> QED
  BY <1>1, <1>2, <1>3 DEF AppendWrite

LEMMA AppendWriteKeeps ==
    ASSUME IInv, NEW c \in Capturer, AppendWrite(c)
    PROVE  IInv'
<1> DEFINE e0 == capture[c].event
           x == Continue(c, Later(c))
<1>1. capture[c].pc \in Busy /\ capture[c].pc = "write" /\ "captured" \in Status
  BY DEF AppendWrite, Busy, Status
<1>2. Day(c) \in Days /\ Later(c) \in SUBSET Days
  BY <1>1, DayType DEF IInv
<1>3. /\ x \in Capture /\ x.pc \in {"idle", "next", "append"}
      /\ x.pc = "append" => x.event = e0 /\ x.days # {}
  BY <1>1, <1>2, ContinueType DEF IInv
<1>4. log' \in SUBSET LogEntry
  BY <1>1, <1>2, LoggedType DEF IInv, AppendWrite
<1>5. capture' = [capture EXCEPT ![c] = x] /\ writer' = Free
      /\ UNCHANGED <<lastId, now, refresh, due, visited, faults>>
  BY DEF AppendWrite, CaptureFrame
<1> HIDE DEF x
<1>6. x.pc \in Busy => x.event \in Event /\ x.days # {}
  BY <1>1, <1>3 DEF Busy, IInv, CaptureOK
<1>7. capture' \in [Capturer -> Capture] /\ CaptureOK'
  BY <1>3, <1>5, <1>6, CaptureMoves DEF IInv
<1>8. LockOK' /\ ReadOK'
  BY <1>1, <1>3, <1>5, LockReleased
<1>9. rows \in [Event -> Row \cup {NoRow}]
  BY DEF IInv, TypeOK
<1> DEFINE new == WithSnapshot(rows[e0], rows[e0], Day(c), capture[c].tag)
<1>10. /\ new \in Row /\ new.verdict = Label(new.tickers)
       /\ e0 \in Event /\ rows' = [rows EXCEPT ![e0] = new]
  <2>1. /\ e0 \in Event /\ Day(c) \in Days /\ capture[c].tag \in Snapshot
        /\ rows[e0] \in Row /\ rows' = [rows EXCEPT ![e0] = new]
    BY AppendedRow, Zenon
  <2>2. /\ new \in Row /\ new.tickers = rows[e0].tickers
        /\ new.verdict = Label(rows[e0].tickers)
    BY <2>1, WithSnapshotType, Zenon
  <2> QED
    BY <2>1, <2>2
<1> HIDE DEF new
<1>11. rows' \in [Event -> Row \cup {NoRow}] /\ VerdictMatchesTickers'
  BY <1>9, <1>10 DEF IInv, VerdictMatchesTickers
<1>12. IdsOK'
  BY <1>5, <1>9, AppendedRow, RowParts DEF IInv, IdsOK
<1>13. TypeOK'
  BY <1>4, <1>5, <1>7, <1>11 DEF IInv, TypeOK
<1>14. RefreshOK'
  BY <1>5 DEF IInv, RefreshOK
<1> QED
  BY <1>7, <1>8, <1>11, <1>12, <1>13, <1>14 DEF IInv

LEMMA AppendFailsKeeps ==
    ASSUME IInv, NEW c \in Capturer, AppendFails(c)
    PROVE  IInv'
<1> DEFINE days == IF c = Daemon THEN Later(c) ELSE {}
           x == Continue(c, days)
<1>1. capture[c].pc \in Busy /\ "error" \in Status
  BY DEF AppendFails, Busy, Status
<1>2. Day(c) \in Days /\ days \in SUBSET Days
  BY <1>1, DayType DEF IInv
<1>3. /\ x \in Capture /\ x.pc \in {"idle", "next", "append"}
      /\ x.pc = "append" => x.event = capture[c].event /\ x.days # {}
  BY <1>1, <1>2, ContinueType DEF IInv
<1>4. log' \in SUBSET LogEntry
  BY <1>1, <1>2, LoggedType DEF IInv, AppendFails
<1>5. /\ capture' = [capture EXCEPT ![c] = x]
      /\ UNCHANGED <<rows, lastId, now, refresh, due, visited, faults>>
  BY DEF AppendFails, tableVars, CaptureFrame
<1> HIDE DEF x, days
<1>6. x.pc \in Busy => x.event \in Event /\ x.days # {}
  BY <1>1, <1>3 DEF Busy, IInv, CaptureOK
<1>7. capture' \in [Capturer -> Capture] /\ CaptureOK'
  BY <1>3, <1>5, <1>6, CaptureMoves DEF IInv
<1>8. LockOK' /\ ReadOK' /\ writer' \in Capturer \cup {Free}
  <2>1. CASE capture[c].pc = "write"
    <3>1. writer' = Free
      BY <2>1 DEF AppendFails
    <3> QED
      BY <1>3, <1>5, <2>1, <3>1, LockReleased
  <2>2. CASE capture[c].pc # "write"
    <3>1. writer' = writer
      BY <2>2 DEF AppendFails
    <3> QED
      BY <1>3, <1>5, <2>2, <3>1, LockFrame DEF IInv, TypeOK
  <2> QED
    BY <2>1, <2>2
<1>9. TypeOK'
  BY <1>4, <1>5, <1>7, <1>8 DEF IInv, TypeOK
<1>10. RefreshOK' /\ IdsOK' /\ VerdictMatchesTickers'
  BY <1>5 DEF IInv, RefreshOK, IdsOK, VerdictMatchesTickers
<1> QED
  BY <1>7, <1>8, <1>9, <1>10 DEF IInv

---------------------------------------------------------------------------
(* The pass and the environment keep the invariant.                        *)

\* A capture between two events of a pass.
LEMMA NextType ==
    /\ [NoCapture EXCEPT !.pc = "next"] \in Capture
    /\ [NoCapture EXCEPT !.pc = "next"].pc = "next"
  BY NoCaptureType DEF NoCapture, Capture

LEMMA StartPassKeeps ==
    ASSUME IInv, StartPass
    PROVE  IInv'
<1> DEFINE found == [e \in Event |->
                       IF e \in Scanned THEN DueDays(rows[e], now) ELSE {}]
           x == IF \E e \in Event : found[e] # {}
                THEN [NoCapture EXCEPT !.pc = "next"] ELSE NoCapture
<1>1. /\ due' = found /\ visited' = {} /\ log' = {}
      /\ capture' = [capture EXCEPT ![Daemon] = x]
      /\ capture[Daemon].pc = "idle" /\ NoWrite /\ CaptureFrame
  BY DEF StartPass
<1>2. x \in Capture /\ x.pc \in {"idle", "next"}
  BY NoCaptureType, NextType
<1>3. found \in [Event -> SUBSET Anchors]
  BY DEF DueDays
<1>4. \A e \in Event : found[e] # {} => rows[e] # NoRow
  BY DEF Scanned
<1> HIDE DEF found, x
<1>5. x.pc # "write" /\ (x.pc \in Busy => x.event \in Event /\ x.days # {})
  BY <1>2 DEF Busy
<1> QED
  BY <1>1, <1>2, <1>3, <1>4, <1>5, Naturals, CaptureOnly

LEMMA EntriesType ==
    ASSUME NEW e \in Event, NEW days \in SUBSET Days, NEW status \in Status
    PROVE  Entries(e, days, status) \subseteq LogEntry
  BY DEF Entries, LogEntry

LEMMA NextEventKeeps ==
    ASSUME IInv, NextEvent
    PROVE  IInv'
<1> DEFINE open == {e \in Event : due[e] # {} /\ e \notin visited}
           e == Max(open)
           row == rows[e]
           days == IF row = NoRow THEN due[e] ELSE due[e] \ Captured(row)
<1>1. /\ capture[Daemon] \in Capture /\ capture[Daemon].pc = "next"
      /\ due \in [Event -> SUBSET Anchors] /\ log \in SUBSET LogEntry
      /\ visited \in SUBSET Event
  BY Naturals DEF NextEvent, IInv, TypeOK
<1>2. e \in Event
  BY MaxIn DEF NextEvent
<1>3. due[e] \in SUBSET Days /\ days \in SUBSET Days
  BY <1>1, <1>2, Naturals
<1>4. /\ visited' = visited \cup {e} /\ UNCHANGED due
      /\ \/ log' = log \cup Entries(e, days, "event_missing") /\ UNCHANGED capture
         \/ log' = log \cup Entries(e, days, "no_data") /\ UNCHANGED capture
         \/ /\ row # NoRow /\ UNCHANGED log
            /\ capture' = [capture EXCEPT ![Daemon] =
                 IF days = {} THEN @
                 ELSE [@ EXCEPT !.pc = "fetch", !.event = e, !.days = days,
                                !.anchor = AnchorDate(row)]]
  BY DEF NextEvent
<1> HIDE DEF e, days, open
<1>5. visited' \in SUBSET Event /\ log' \in SUBSET LogEntry
  BY <1>1, <1>2, <1>3, <1>4, EntriesType DEF Status
<1>6. NoWrite /\ CaptureFrame
  BY DEF NextEvent
<1>7. CASE \/ UNCHANGED capture
           \/ days = {} /\ capture' = [capture EXCEPT ![Daemon] = capture[Daemon]]
  <2>1. capture' = [capture EXCEPT ![Daemon] = capture[Daemon]]
    BY <1>7 DEF IInv, TypeOK
  <2>2. capture[Daemon].pc # "write" /\ capture[Daemon].pc \notin Busy
    BY <1>1 DEF Busy
  <2> QED
    BY <1>1, <1>4, <1>5, <1>6, <2>1, <2>2, Naturals, CaptureOnly
<1>8. CASE /\ days # {} /\ row # NoRow
           /\ capture' = [capture EXCEPT ![Daemon] =
                [capture[Daemon] EXCEPT !.pc = "fetch", !.event = e, !.days = days,
                                        !.anchor = AnchorDate(row)]]
  <2> DEFINE x == [capture[Daemon] EXCEPT !.pc = "fetch", !.event = e,
                                          !.days = days, !.anchor = AnchorDate(row)]
  <2>1. row \in Row
    BY <1>2, <1>8 DEF IInv, TypeOK
  <2>2. AnchorDate(row) \in Nat /\ e \in Nat
    BY <1>2, <2>1, RowParts, Naturals
  <2>3. x \in Capture /\ x.pc = "fetch" /\ x.event = e /\ x.days = days
    BY <1>1, <1>3, <2>2 DEF Capture
  <2>4. x.pc # "write" /\ (x.pc \in Busy => x.event \in Event /\ x.days # {})
    BY <1>2, <1>8, <2>3
  <2> QED
    BY <1>1, <1>4, <1>5, <1>6, <1>8, <2>3, <2>4, Naturals, CaptureOnly
<1> QED
  BY <1>4, <1>7, <1>8

LEMMA EndPassKeeps ==
    ASSUME IInv, EndPass
    PROVE  IInv'
<1>1. /\ due \in [Event -> SUBSET Anchors] /\ log \in SUBSET LogEntry
      /\ visited \in SUBSET Event /\ UNCHANGED <<due, visited, log>>
  BY DEF EndPass, passVars, IInv, TypeOK
<1>2. NoCapture.pc # "write" /\ NoCapture.pc \notin Busy
  BY NoCaptureType DEF Busy
<1> QED
  BY <1>1, <1>2, NoCaptureType, Naturals, CaptureOnly DEF EndPass

\* Nothing of a pass is left when it raises or the process dies.
LEMMA PassRaisesKeeps ==
    ASSUME IInv, PassRaises
    PROVE  IInv'
<1>1. /\ capture' = [capture EXCEPT ![Daemon] = NoCapture]
      /\ capture[Daemon].pc = "next" /\ faults' = faults + 1 /\ faults < MaxFault
      /\ due' = [e \in Event |-> {}] /\ visited' = {} /\ log' = {}
      /\ UNCHANGED <<rows, lastId, writer, now, refresh>>
  BY DEF PassRaises, NoWrite, tableVars
<1>2. capture' \in [Capturer -> Capture] /\ CaptureOK'
  BY <1>1, NoCaptureType, Naturals, CaptureMoves DEF IInv, Busy
<1>3. LockOK' /\ ReadOK'
  BY <1>1, NoCaptureType, Naturals, LockFrame DEF IInv
<1>4. faults' \in 0..MaxFault
  <2>1. MaxFault \in Nat
    BY EventBoundAssumption
  <2> QED
    BY <1>1, <2>1 DEF IInv, TypeOK
<1>5. TypeOK'
  BY <1>1, <1>2, <1>4 DEF IInv, TypeOK
<1>6. RefreshOK' /\ IdsOK' /\ VerdictMatchesTickers'
  BY <1>1 DEF IInv, RefreshOK, IdsOK, VerdictMatchesTickers
<1> QED
  BY <1>2, <1>3, <1>5, <1>6 DEF IInv

LEMMA CrashKeeps ==
    ASSUME IInv, Crash
    PROVE  IInv'
<1>1. MaxFault \in Nat
  BY EventBoundAssumption
<1>2. /\ capture' = [c \in Capturer |-> NoCapture] /\ writer' = Free
      /\ refresh' = [r \in Refresher |-> NoRefresh]
      /\ due' = [e \in Event |-> {}] /\ visited' = {} /\ log' = {}
      /\ faults < MaxFault /\ faults' = faults + 1
      /\ UNCHANGED <<rows, lastId, now>>
  BY DEF Crash, tableVars
<1>3. TypeOK'
  BY <1>1, <1>2, NoCaptureType, NoRefreshType DEF IInv, TypeOK
<1>4. LockOK' /\ ReadOK' /\ CaptureOK'
  BY <1>2, NoCaptureType, Naturals DEF LockOK, ReadOK, CaptureOK, Busy
<1>5. NoRefresh.pc = "idle"
  BY DEF NoRefresh
<1>6. RefreshOK' /\ IdsOK' /\ VerdictMatchesTickers'
  BY <1>2, <1>5 DEF IInv, RefreshOK, IdsOK, VerdictMatchesTickers
<1> QED
  BY <1>3, <1>4, <1>6 DEF IInv

\* A new row is well-formed, under an id nobody had.
LEMMA SavedRow ==
    ASSUME IInv, SaveEvent
    PROVE  /\ lastId + 1 \in Event /\ lastId' = lastId + 1 /\ rows[lastId + 1] = NoRow
           /\ \E new \in Row : /\ rows' = [rows EXCEPT ![lastId + 1] = new]
                               /\ new.verdict = Label(new.tickers)
<1>1. /\ MaxEvent \in Nat /\ lastId \in Nat /\ lastId < MaxEvent
      /\ now \in Nat /\ lastId' = lastId + 1
  BY Naturals DEF IInv, TypeOK, SaveEvent
<1>2. lastId + 1 \in Event /\ ~(lastId + 1 <= lastId)
  BY <1>1 DEF Event
<1>3. PICK date \in 0..now \cup {NoDate}, tickers \in Tickers, checked \in {now, Never} :
        rows' = [rows EXCEPT ![lastId + 1] = NewRow(date, now, tickers, checked)]
  BY DEF SaveEvent
<1>4. date \in Nat \cup {NoDate} /\ checked \in Nat \cup {Never}
  BY <1>1, <1>3
<1>5. /\ NewRow(date, now, tickers, checked) \in Row
      /\ NewRow(date, now, tickers, checked).verdict = Label(tickers)
      /\ NewRow(date, now, tickers, checked).tickers = tickers
  BY <1>1, <1>4, NewRowType DEF NewRow
<1> QED
  BY <1>1, <1>2, <1>3, <1>5 DEF IInv, IdsOK

LEMMA SaveEventKeeps ==
    ASSUME IInv, SaveEvent
    PROVE  IInv'
<1>1. PICK new \in Row : /\ rows' = [rows EXCEPT ![lastId + 1] = new]
                         /\ new.verdict = Label(new.tickers)
  BY SavedRow
<1>2. lastId + 1 \in Event /\ lastId' = lastId + 1
  BY SavedRow
<1>3. UNCHANGED <<writer, now, refresh, capture, due, visited, log, faults>>
  BY DEF SaveEvent, SlotFrame, passVars
<1>4. lastId' \in 0..MaxEvent /\ lastId \in Nat
  BY <1>2, Naturals DEF Event, IInv, TypeOK
<1>5. TypeOK'
  BY <1>1, <1>2, <1>3, <1>4 DEF IInv, TypeOK
<1>6. LockOK' /\ ReadOK' /\ CaptureOK'
  BY <1>3, RowsMove DEF SaveEvent
<1>7. IdsOK'
  <2> SUFFICES ASSUME NEW e \in Event, rows'[e] # NoRow \/ due'[e] # {}
               PROVE  e <= lastId'
    BY DEF IdsOK
  <2>1. CASE e = lastId + 1
    BY <1>2, <1>4, <2>1
  <2>2. CASE e # lastId + 1
    <3>1. rows'[e] = rows[e]
      BY <1>1, <2>2 DEF IInv, TypeOK
    <3> QED
      BY <1>2, <1>3, <1>4, <3>1, Naturals DEF IInv, IdsOK
  <2> QED
    BY <2>1, <2>2
<1>8. RefreshOK' /\ VerdictMatchesTickers'
  BY <1>1, <1>2, <1>3 DEF IInv, TypeOK, RefreshOK, VerdictMatchesTickers
<1> QED
  BY <1>5, <1>6, <1>7, <1>8 DEF IInv

LEMMA DeleteEventKeeps ==
    ASSUME IInv, DeleteEvent
    PROVE  IInv'
<1>1. PICK e \in Event : rows' = [rows EXCEPT ![e] = NoRow]
  BY DEF DeleteEvent
<1>2. UNCHANGED <<lastId, writer, now, refresh, capture, due, visited, log, faults>>
  BY DEF DeleteEvent, SlotFrame, passVars
<1>3. TypeOK'
  BY <1>1, <1>2 DEF IInv, TypeOK
<1>4. LockOK' /\ ReadOK' /\ CaptureOK'
  BY <1>2, RowsMove DEF DeleteEvent
<1>5. RefreshOK' /\ IdsOK' /\ VerdictMatchesTickers'
  BY <1>1, <1>2 DEF IInv, TypeOK, RefreshOK, IdsOK, VerdictMatchesTickers
<1> QED
  BY <1>3, <1>4, <1>5 DEF IInv

LEMMA TickKeeps ==
    ASSUME IInv, Tick
    PROVE  IInv'
<1>1. MinTime \in Nat /\ MaxTime \in Nat
  BY EventBoundAssumption
<1>2. UNCHANGED <<rows, lastId, writer, refresh, capture, due, visited, log, faults>>
      /\ now' = now + 1 /\ now < MaxTime
  BY DEF Tick, SlotFrame, passVars, tableVars
<1>3. TypeOK'
  BY <1>1, <1>2 DEF IInv, TypeOK
<1>4. LockOK' /\ ReadOK' /\ CaptureOK' /\ RefreshOK' /\ IdsOK' /\ VerdictMatchesTickers'
  BY <1>2 DEF IInv, LockOK, ReadOK, CaptureOK, RefreshOK, IdsOK, VerdictMatchesTickers
<1> QED
  BY <1>3, <1>4 DEF IInv

---------------------------------------------------------------------------
(* The invariant holds.                                                    *)

LEMMA InitInvariant == Init => IInv
<1> SUFFICES ASSUME Init
             PROVE  IInv
  OBVIOUS
<1>1. MaxEvent \in Nat /\ MinTime \in Nat /\ MaxTime \in Nat /\ MaxFault \in Nat
      /\ MinTime <= MaxTime
  BY EventBoundAssumption
<1>2. TypeOK
  BY <1>1, NoCaptureType, NoRefreshType DEF Init, TypeOK
<1>3. LockOK /\ ReadOK /\ CaptureOK
  BY NoCaptureType, Naturals DEF Init, LockOK, ReadOK, CaptureOK, Busy
<1>4. NoRefresh.pc = "idle"
  BY DEF NoRefresh
<1>5. RefreshOK /\ IdsOK /\ VerdictMatchesTickers
  BY <1>4 DEF Init, RefreshOK, IdsOK, VerdictMatchesTickers
<1> QED
  BY <1>2, <1>3, <1>5 DEF IInv

LEMMA NextInvariant == IInv /\ [Next]_vars => IInv'
<1> SUFFICES ASSUME IInv, [Next]_vars
             PROVE  IInv'
  OBVIOUS
<1>1. ASSUME NEW r \in Refresher, LoadForRefresh(r) \/ RefreshStep(r)
      PROVE  IInv'
  BY <1>1, LoadForRefreshKeeps, DecideKeeps, FetchReturnsKeeps, CheckMarketKeeps,
     PersistKeeps, RefreshFailsKeeps DEF RefreshStep
<1>2. ASSUME NEW c \in Capturer, CaptureStep(c)
      PROVE  IInv'
  BY <1>2, FetchFollowupKeeps, FollowupFailsKeeps, AppendReadKeeps,
     AppendWriteKeeps, AppendFailsKeeps DEF CaptureStep
<1>3. ASSUME NEW c \in Revisitor, LoadForCapture(c)
      PROVE  IInv'
  BY <1>3, Naturals, LoadForCaptureKeeps
<1>4. CASE PassStep \/ PassRaises
  BY <1>2, <1>4, Naturals, StartPassKeeps, NextEventKeeps, EndPassKeeps,
     PassRaisesKeeps DEF PassStep
<1>5. CASE SaveEvent \/ DeleteEvent \/ Tick \/ Crash
  BY <1>5, SaveEventKeeps, DeleteEventKeeps, TickKeeps, CrashKeeps
<1>6. CASE UNCHANGED vars
  BY <1>6 DEF vars, IInv, TypeOK, LockOK, ReadOK, RefreshOK, CaptureOK, IdsOK,
     VerdictMatchesTickers
<1> QED
  BY <1>1, <1>2, <1>3, <1>4, <1>5, <1>6, Naturals DEF Next

\* The inductive invariant, for any set of slots, days and directions.
THEOREM EvidenceInvariant == Spec => []IInv
  BY InitInvariant, NextInvariant, PTL DEF Spec

\* Every reachable state is in its type.
THEOREM EvidenceTypeCorrect == Spec => []TypeOK
<1>1. IInv => TypeOK
  BY DEF IInv
<1> QED
  BY <1>1, EvidenceInvariant, PTL

\* The stored verdict is that of the stored tickers, however refreshes,
\* captures, deletes and crashes interleave.
THEOREM VerdictsMatchTickers == Spec => []VerdictMatchesTickers
<1>1. IInv => VerdictMatchesTickers
  BY DEF IInv
<1> QED
  BY <1>1, EvidenceInvariant, PTL

---------------------------------------------------------------------------
(* Captured days.                                                          *)

\* Four kinds of step write rows.
LEMMA RowWriters ==
    ASSUME [Next]_vars
    PROVE  \/ UNCHANGED <<rows, lastId>>
           \/ \E r \in Refresher : Persist(r)
           \/ \E c \in Capturer : AppendWrite(c)
           \/ SaveEvent
           \/ DeleteEvent
<1>1. ASSUME NEW r \in Refresher, LoadForRefresh(r) \/ RefreshStep(r)
      PROVE  UNCHANGED <<rows, lastId>> \/ Persist(r)
  BY <1>1 DEF RefreshStep, LoadForRefresh, Decide, FetchReturns, CheckMarket,
     RefreshFails, tableVars
<1>2. ASSUME NEW c \in Capturer, LoadForCapture(c) \/ CaptureStep(c)
      PROVE  UNCHANGED <<rows, lastId>> \/ AppendWrite(c)
  BY <1>2 DEF CaptureStep, LoadForCapture, FetchFollowup, FollowupFails,
     AppendRead, AppendFails, NoWrite, tableVars
<1>3. StartPass \/ NextEvent \/ EndPass \/ PassRaises => UNCHANGED <<rows, lastId>>
  BY DEF StartPass, NextEvent, EndPass, PassRaises, NoWrite, tableVars
<1>4. Tick \/ Crash \/ UNCHANGED vars => UNCHANGED <<rows, lastId>>
  BY DEF Tick, Crash, vars, tableVars
<1> QED
  BY <1>1, <1>2, <1>3, <1>4, Naturals DEF Next, PassStep

\* The append adds its day to the row and takes none away.
LEMMA AppendCaptures ==
    ASSUME IInv, NEW c \in Capturer, AppendWrite(c)
    PROVE  LET e == capture[c].event IN
           /\ e \in Event /\ rows[e] \in Row /\ rows'[e] \in Row
           /\ Captured(rows'[e]) = Captured(rows[e]) \cup {Day(c)}
           /\ \A f \in Event : f # e => rows'[f] = rows[f]
           /\ lastId' = lastId
<1> DEFINE e == capture[c].event
           new == WithSnapshot(rows[e], rows[e], Day(c), capture[c].tag)
<1>1. /\ e \in Event /\ Day(c) \in Days /\ capture[c].tag \in Snapshot
      /\ rows[e] \in Row /\ rows' = [rows EXCEPT ![e] = new]
  BY AppendedRow, Zenon
<1>2. new \in Row /\ new.snaps = [rows[e].snaps EXCEPT ![Day(c)] = capture[c].tag]
  <2> DEFINE row == rows[e]
             day == Day(c)
             snap == capture[c].tag
  <2>1. row \in Row /\ day \in Days /\ snap \in Snapshot
    BY <1>1
  <2>2. new = WithSnapshot(row, row, day, snap)
    OBVIOUS
  <2> HIDE DEF row, day, snap, new
  <2>3. new \in Row /\ new.snaps = [row.snaps EXCEPT ![day] = snap]
    BY <2>1, <2>2, WithSnapshotType
  <2> QED
    BY <2>3 DEF row, day, snap
<1>3. rows \in [Event -> Row \cup {NoRow}] /\ lastId' = lastId
  BY DEF IInv, TypeOK, AppendWrite
<1>4. rows[e].snaps \in [Days -> Snapshot \cup {NoSnap}]
  BY <1>1 DEF Row
<1>5. capture[c].tag # NoSnap
  BY <1>1, SnapAssumption DEF Snapshot
<1> HIDE DEF new
<1>6. rows'[e] = new
  BY <1>1, <1>3
<1>7. Captured(new) = Captured(rows[e]) \cup {Day(c)}
  BY <1>1, <1>2, <1>4, <1>5 DEF Captured
<1> QED
  BY <1>1, <1>2, <1>3, <1>6, <1>7

\* Of a row that exists before and after it, no step loses a captured day.
LEMMA StepKeepsCaptures ==
    ASSUME IInv, [Next]_vars, NEW e \in Event, rows[e] # NoRow, rows'[e] # NoRow
    PROVE  Captured(rows[e]) \subseteq Captured(rows'[e])
<1>1. rows \in [Event -> Row \cup {NoRow}] /\ rows[e] \in Row
  BY DEF IInv, TypeOK
<1>2. ASSUME NEW r \in Refresher, Persist(r)
      PROVE  Captured(rows'[e]) = Captured(rows[e])
  <2> DEFINE x == refresh[r]
  <2>1. x.event \in Event /\ x.tickers \in Tickers /\ x.at \in Nat
    BY <1>2 DEF IInv, TypeOK, RefreshOK, Persist, Refresh
  <2>2. CASE x.event = e
    <3>1. rows'[e] = WithRefresh(rows[e], x.tickers, x.at)
      BY <1>1, <1>2, <2>1, <2>2 DEF Persist
    <3> QED
      BY <1>1, <2>1, <3>1, WithRefreshType DEF Captured
  <2>3. CASE x.event # e
    BY <1>1, <1>2, <2>1, <2>3 DEF Persist
  <2> QED
    BY <2>2, <2>3
<1>3. ASSUME NEW c \in Capturer, AppendWrite(c)
      PROVE  Captured(rows[e]) \subseteq Captured(rows'[e])
  BY <1>3, AppendCaptures
<1>4. CASE SaveEvent
  <2>1. lastId + 1 # e
    BY <1>4, SavedRow
  <2> QED
    BY <1>1, <1>4, <2>1, SavedRow
<1>5. CASE DeleteEvent
  BY <1>1, <1>5 DEF DeleteEvent
<1> QED
  BY <1>2, <1>3, <1>4, <1>5, RowWriters

\* Ids only grow, and a row appears under the next one.
LEMMA OnlySaveCreates ==
    ASSUME IInv, [Next]_vars
    PROVE  /\ lastId <= lastId'
           /\ \A e \in Event : rows[e] = NoRow /\ rows'[e] # NoRow => ~(e <= lastId)
<1>1. rows \in [Event -> Row \cup {NoRow}] /\ lastId \in Nat /\ MaxEvent \in Nat
  BY Naturals DEF IInv, TypeOK
<1>2. ASSUME NEW r \in Refresher, Persist(r)
      PROVE  lastId' = lastId /\ \A e \in Event : rows[e] = NoRow => rows'[e] = NoRow
  BY <1>1, <1>2 DEF Persist
<1>3. ASSUME NEW c \in Capturer, AppendWrite(c)
      PROVE  lastId' = lastId /\ \A e \in Event : rows[e] = NoRow => rows'[e] = NoRow
  BY <1>3, AppendCaptures, SlotAssumption
<1>4. CASE SaveEvent
  <2>1. /\ lastId' = lastId + 1
        /\ \A e \in Event : e # lastId + 1 => rows'[e] = rows[e]
    BY <1>1, <1>4, SavedRow
  <2> QED
    BY <1>1, <2>1
<1>5. CASE DeleteEvent
  BY <1>1, <1>5 DEF DeleteEvent
<1> QED
  BY <1>1, <1>2, <1>3, <1>4, <1>5, RowWriters

\* Concurrent captures do not clobber each other, and no refresh does.
THEOREM CapturesAreKept == Spec => CapturesKept
<1>1. IInv /\ [Next]_vars =>
        [\A e \in Event : rows[e] # NoRow /\ rows'[e] # NoRow =>
            Captured(rows[e]) \subseteq Captured(rows'[e])]_vars
  BY StepKeepsCaptures
<1> QED
  BY <1>1, EvidenceInvariant, PTL DEF Spec, CapturesKept

---------------------------------------------------------------------------
(* The pass's log.                                                         *)

\* Entries "captured" are of ids handed out, and true.
LogOK ==
    \A x \in log : x.status = "captured" =>
        /\ x.event <= lastId
        /\ rows[x.event] # NoRow => x.day \in Captured(rows[x.event])

\* Only an append that commits logs a day as captured.
LEMMA LoggedEntries ==
    ASSUME NEW c, NEW days, NEW status, Logged(c, days, status), NEW x \in log'
    PROVE  \/ x \in log
           \/ x.event = capture[c].event /\ x.day \in days /\ x.status = status
  BY DEF Logged, Entries

LEMMA CapturedEntries ==
    ASSUME [Next]_vars, NEW x \in log', x.status = "captured"
    PROVE  \/ x \in log
           \/ \E c \in Capturer : /\ AppendWrite(c)
                                 /\ x.event = capture[c].event /\ x.day = Day(c)
<1>1. ASSUME NEW c \in Capturer, CaptureStep(c)
      PROVE  \/ x \in log
             \/ AppendWrite(c) /\ x.event = capture[c].event /\ x.day = Day(c)
  <2>1. CASE FetchFollowup(c)
    <3>1. PICK days : Logged(c, days, "no_data")
      BY <2>1 DEF FetchFollowup
    <3> QED
      BY <3>1, LoggedEntries
  <2>2. CASE FollowupFails(c) \/ AppendFails(c)
    BY <2>2, LoggedEntries DEF FollowupFails, AppendFails
  <2>3. CASE AppendRead(c)
    BY <2>3, LoggedEntries DEF AppendRead
  <2>4. CASE AppendWrite(c)
    BY <2>4, LoggedEntries DEF AppendWrite
  <2> QED
    BY <1>1, <2>1, <2>2, <2>3, <2>4 DEF CaptureStep
<1>2. ASSUME NextEvent
      PROVE  x \in log
  <2> DEFINE e == Max({f \in Event : due[f] # {} /\ f \notin visited})
             days == IF rows[e] = NoRow THEN due[e] ELSE due[e] \ Captured(rows[e])
  <2>1. \/ log' = log \cup Entries(e, days, "event_missing")
        \/ log' = log \cup Entries(e, days, "no_data")
        \/ log' = log
    BY <1>2 DEF NextEvent
  <2> HIDE DEF e, days
  <2> QED
    BY <2>1 DEF Entries
<1>3. StartPass \/ EndPass \/ PassRaises => x \in log
  BY DEF StartPass, EndPass, PassRaises, passVars
<1>4. ASSUME NEW r \in Refresher, LoadForRefresh(r) \/ RefreshStep(r)
      PROVE  x \in log
  BY <1>4 DEF RefreshStep, LoadForRefresh, Decide, FetchReturns, CheckMarket,
     Persist, RefreshFails, RefreshFrame, passVars
<1>5. ASSUME NEW c \in Revisitor, LoadForCapture(c)
      PROVE  x \in log
  BY <1>5 DEF LoadForCapture, passVars
<1>6. SaveEvent \/ DeleteEvent \/ Tick \/ Crash \/ UNCHANGED vars => x \in log
  BY DEF SaveEvent, DeleteEvent, Tick, Crash, SlotFrame, passVars, vars
<1>7. ASSUME NEW c \in Capturer, CaptureStep(c)
      PROVE  x \in log \/ \E d \in Capturer :
               AppendWrite(d) /\ x.event = capture[d].event /\ x.day = Day(d)
  BY <1>1, <1>7
<1>8. CASE PassStep
  BY <1>2, <1>3, <1>7, <1>8, Naturals DEF PassStep
<1>9. CASE \E c \in Revisitor : LoadForCapture(c) \/ CaptureStep(c)
  BY <1>5, <1>7, <1>9, Naturals
<1>10. CASE \E r \in Refresher : LoadForRefresh(r) \/ RefreshStep(r)
  BY <1>4, <1>10
<1> QED
  BY <1>3, <1>6, <1>8, <1>9, <1>10 DEF Next

LEMMA LogStep ==
    ASSUME IInv, LogOK, [Next]_vars
    PROVE  LogOK'
<1> SUFFICES ASSUME NEW x \in log', x.status = "captured"
             PROVE  /\ x.event <= lastId'
                    /\ rows'[x.event] # NoRow => x.day \in Captured(rows'[x.event])
  BY DEF LogOK
<1>1. lastId \in Nat /\ lastId' \in Nat /\ lastId <= lastId'
  BY NextInvariant, OnlySaveCreates DEF IInv, TypeOK
<1>2. CASE x \in log
  <2>1. x.event \in Event /\ x.event <= lastId
        /\ (rows[x.event] # NoRow => x.day \in Captured(rows[x.event]))
    BY <1>2 DEF LogOK, IInv, TypeOK, LogEntry
  <2>2. x.event \in Nat
    BY <2>1, Naturals
  <2>3. rows'[x.event] # NoRow => rows[x.event] # NoRow
    BY <2>1, OnlySaveCreates
  <2> QED
    BY <1>1, <2>1, <2>2, <2>3, StepKeepsCaptures
<1>3. ASSUME NEW c \in Capturer, AppendWrite(c),
             x.event = capture[c].event, x.day = Day(c)
      PROVE  x.event <= lastId' /\ x.day \in Captured(rows'[x.event])
  <2>1. /\ x.event \in Event /\ rows[x.event] \in Row /\ lastId' = lastId
        /\ x.day \in Captured(rows'[x.event])
    BY <1>3, AppendCaptures
  <2>2. rows[x.event] # NoRow
    BY <2>1, SlotAssumption
  <2> QED
    BY <2>1, <2>2 DEF IInv, IdsOK
<1> QED
  BY <1>2, <1>3, CapturedEntries

\* What the daemon reports as captured is stored, unless the event is gone.
THEOREM CapturedAreStored == Spec => []CapturedIsStored
<1>1. Init => LogOK
  BY DEF Init, LogOK
<1>2. LogOK /\ UNCHANGED vars => LogOK'
  BY DEF LogOK, vars
<1>3. LogOK => CapturedIsStored
  BY DEF LogOK, CapturedIsStored
<1>4. IInv /\ LogOK /\ [Next]_vars => LogOK'
  BY LogStep
<1> QED
  BY <1>1, <1>3, <1>4, EvidenceInvariant, PTL DEF Spec

---------------------------------------------------------------------------
(* The pass accounts for every day it found due.                           *)

Settled(e, d) ==
    \/ \E status \in Status : [event |-> e, day |-> d, status |-> status] \in log
    \/ rows[e] = NoRow
    \/ d \in Captured(rows[e])

\* d is still to come: its event is, or it is among the days at work.
Pending(e, d) ==
    /\ capture[Daemon].pc # "idle"
    /\ \/ e \notin visited
       \/ /\ capture[Daemon].pc \in Busy
          /\ capture[Daemon].event = e /\ d \in capture[Daemon].days

PassOK == \A e \in Event : \A d \in due[e] : Settled(e, d) \/ Pending(e, d)

\* While a pass goes on, what is settled stays settled.
LEMMA SettledStays ==
    ASSUME IInv, [Next]_vars, log \subseteq log',
           NEW e \in Event, due[e] # {}, NEW d, Settled(e, d)
    PROVE  Settled(e, d)'
<1>1. rows[e] = NoRow => rows'[e] = NoRow
  BY OnlySaveCreates DEF IInv, IdsOK
<1>2. rows[e] # NoRow /\ rows'[e] # NoRow => Captured(rows[e]) \subseteq Captured(rows'[e])
  BY StepKeepsCaptures
<1> QED
  BY <1>1, <1>2 DEF Settled

\* A step that leaves the pass alone.
LEMMA PassStands ==
    ASSUME IInv, PassOK, [Next]_vars,
           UNCHANGED <<due, visited, log>>, capture'[Daemon] = capture[Daemon]
    PROVE  PassOK'
<1> SUFFICES ASSUME NEW e \in Event, NEW d \in due[e]
             PROVE  Settled(e, d)' \/ Pending(e, d)'
  BY DEF PassOK
<1>1. Pending(e, d) => Pending(e, d)'
  BY DEF Pending
<1> QED
  BY <1>1, SettledStays DEF PassOK

\* A step of the daemon's capture: each day at work is settled or stays.
LEMMA PassGoesOn ==
    ASSUME IInv, PassOK, [Next]_vars,
           UNCHANGED <<due, visited>>, log \subseteq log',
           capture'[Daemon].pc # "idle",
           \A e \in Event : \A d \in capture[Daemon].days :
              e = capture[Daemon].event =>
              \/ Settled(e, d)'
              \/ /\ capture'[Daemon].pc \in Busy
                 /\ capture'[Daemon].event = e
                 /\ d \in capture'[Daemon].days
    PROVE  PassOK'
<1> SUFFICES ASSUME NEW e \in Event, NEW d \in due[e]
             PROVE  Settled(e, d)' \/ Pending(e, d)'
  BY DEF PassOK
<1>1. CASE Settled(e, d)
  BY <1>1, SettledStays
<1>2. CASE Pending(e, d)
  BY <1>2 DEF Pending
<1> QED
  BY <1>1, <1>2 DEF PassOK

LEMMA ContinuePC ==
    ASSUME NEW c \in Capturer, NEW days, c = Daemon
    PROVE  /\ Continue(c, days).pc # "idle"
           /\ days # {} => /\ Continue(c, days).pc = "append"
                           /\ Continue(c, days).event = capture[c].event
                           /\ Continue(c, days).days = days
  BY DEF Continue, NoCapture

\* Days of the event at work that the daemon logs are settled.
LEMMA LoggedIsSettled ==
    ASSUME NEW e, e = capture[Daemon].event, NEW days, NEW status \in Status,
           Logged(Daemon, days, status)
    PROVE  /\ log \subseteq log'
           /\ \A d \in days : Settled(e, d)'
<1>1. log' = log \cup Entries(e, days, status)
  BY DEF Logged
<1>2. \A d \in days : [event |-> e, day |-> d, status |-> status] \in log'
  BY <1>1 DEF Entries
<1> QED
  BY <1>1, <1>2 DEF Settled

\* What a step of the daemon's capture does to the days at work: the handled
\* ones are logged, the others remain.
LEMMA StepHandles ==
    ASSUME IInv, PassOK, [Next]_vars, UNCHANGED <<due, visited>>,
           NEW handled, NEW rest, NEW status \in Status,
           Logged(Daemon, handled, status),
           capture[Daemon].days \subseteq handled \cup rest,
           capture'[Daemon].pc # "idle",
           rest # {} => /\ capture'[Daemon].pc \in Busy
                        /\ capture'[Daemon].event = capture[Daemon].event
                        /\ capture'[Daemon].days = rest
    PROVE  PassOK'
<1>1. log \subseteq log'
  BY DEF Logged
<1>2. ASSUME NEW e \in Event, NEW d \in capture[Daemon].days,
             e = capture[Daemon].event
      PROVE  \/ Settled(e, d)'
             \/ /\ capture'[Daemon].pc \in Busy
                /\ capture'[Daemon].event = e
                /\ d \in capture'[Daemon].days
  <2>1. CASE d \in handled
    BY <1>2, <2>1, LoggedIsSettled
  <2>2. CASE d \in rest
    BY <1>2, <2>2
  <2> QED
    BY <2>1, <2>2
<1> QED
  BY <1>1, <1>2, PassGoesOn

\* Every step of the daemon's capture keeps the account.
LEMMA DaemonCaptures ==
    ASSUME IInv, PassOK, [Next]_vars, CaptureStep(Daemon)
    PROVE  PassOK'
<1>1. UNCHANGED <<due, visited>> /\ capture[Daemon] \in Capture
      /\ capture \in [Capturer -> Capture]
  BY Naturals DEF CaptureStep, FetchFollowup, FollowupFails, AppendRead,
     AppendWrite, AppendFails, IInv, TypeOK
<1>2. ASSUME NEW handled, NEW rest, NEW status \in Status,
             Logged(Daemon, handled, status),
             capture[Daemon].days \subseteq handled \cup rest,
             capture'[Daemon] = Continue(Daemon, rest)
      PROVE  PassOK'
  <2>1. /\ capture'[Daemon].pc # "idle"
        /\ rest # {} => /\ capture'[Daemon].pc = "append"
                        /\ capture'[Daemon].event = capture[Daemon].event
                        /\ capture'[Daemon].days = rest
    BY <1>2, Naturals, ContinuePC
  <2> QED
    BY <1>1, <1>2, <2>1, StepHandles DEF Busy
<1>3. CASE FetchFollowup(Daemon)
  <2> DEFINE x == capture[Daemon]
  <2>1. PICK o \in Followups(x.anchor, now) :
          /\ capture' = [capture EXCEPT ![Daemon] =
               IF x.days \cap o.ready = {} THEN Continue(Daemon, {})
               ELSE [Continue(Daemon, x.days \cap o.ready) EXCEPT !.tag = o.tag]]
          /\ Logged(Daemon, x.days \ o.ready, "no_data")
    BY <1>3 DEF FetchFollowup
  <2> DEFINE rest == x.days \cap o.ready
             at == [Continue(Daemon, rest) EXCEPT !.tag = o.tag]
  <2>2. capture'[Daemon] = IF rest = {} THEN Continue(Daemon, {}) ELSE at
    BY <1>1, <2>1, Naturals
  <2>3. rest # {} => at.pc = "append" /\ at.event = x.event /\ at.days = rest
    BY DEF Continue, NoCapture
  <2>4. /\ capture'[Daemon].pc # "idle"
        /\ rest # {} => /\ capture'[Daemon].pc \in Busy
                        /\ capture'[Daemon].event = x.event
                        /\ capture'[Daemon].days = rest
    BY <2>2, <2>3, ContinuePC, Naturals DEF Busy
  <2>5. x.days \subseteq (x.days \ o.ready) \cup rest
    OBVIOUS
  <2>6. "no_data" \in Status
    BY DEF Status
  <2> HIDE DEF rest
  <2> QED
    BY <1>1, <2>1, <2>4, <2>5, <2>6, StepHandles
<1>4. CASE FollowupFails(Daemon)
  <2>1. /\ capture'[Daemon] = Continue(Daemon, {})
        /\ Logged(Daemon, capture[Daemon].days, "error")
    BY <1>1, <1>4, Naturals DEF FollowupFails
  <2> QED
    BY <1>2, <2>1 DEF Status
<1>5. CASE AppendRead(Daemon)
  <2>1. CASE rows[capture[Daemon].event] = NoRow
    <3>1. /\ capture'[Daemon] = Continue(Daemon, Later(Daemon))
          /\ Logged(Daemon, {Day(Daemon)}, "event_missing")
      BY <1>1, <1>5, <2>1, Naturals DEF AppendRead
    <3>2. capture[Daemon].days \subseteq {Day(Daemon)} \cup Later(Daemon)
      BY DEF Later
    <3> QED
      BY <1>2, <3>1, <3>2 DEF Status
  <2>2. CASE rows[capture[Daemon].event] # NoRow
    <3> DEFINE y == [capture[Daemon] EXCEPT !.pc = "write",
                                            !.read = rows[capture[Daemon].event]]
    <3>1. capture'[Daemon] = y /\ log' = log
      BY <1>1, <1>5, <2>2, Naturals DEF AppendRead
    <3>2. y.pc = "write" /\ y.event = capture[Daemon].event
          /\ y.days = capture[Daemon].days
      BY <1>1 DEF Capture
    <3> HIDE DEF y
    <3>3. /\ capture'[Daemon].pc = "write"
          /\ capture'[Daemon].event = capture[Daemon].event
          /\ capture'[Daemon].days = capture[Daemon].days
      BY <3>1, <3>2
    <3> QED
      BY <1>1, <3>1, <3>3, PassGoesOn DEF Busy
  <2> QED
    BY <2>1, <2>2
<1>6. CASE AppendWrite(Daemon)
  <2>1. /\ capture'[Daemon] = Continue(Daemon, Later(Daemon))
        /\ Logged(Daemon, {Day(Daemon)}, "captured")
    BY <1>1, <1>6, Naturals DEF AppendWrite
  <2>2. capture[Daemon].days \subseteq {Day(Daemon)} \cup Later(Daemon)
    BY DEF Later
  <2> QED
    BY <1>2, <2>1, <2>2 DEF Status
<1>7. CASE AppendFails(Daemon)
  <2>1. /\ capture'[Daemon] = Continue(Daemon, Later(Daemon))
        /\ Logged(Daemon, {Day(Daemon)}, "error")
    BY <1>1, <1>7, Naturals DEF AppendFails
  <2>2. capture[Daemon].days \subseteq {Day(Daemon)} \cup Later(Daemon)
    BY DEF Later
  <2> QED
    BY <1>2, <2>1, <2>2 DEF Status
<1> QED
  BY <1>3, <1>4, <1>5, <1>6, <1>7 DEF CaptureStep

\* Picking the newest open event: its days are settled or at work.
LEMMA NextEventComplete ==
    ASSUME IInv, PassOK, NextEvent
    PROVE  PassOK'
<1> DEFINE open == {f \in Event : due[f] # {} /\ f \notin visited}
           e == Max(open)
           row == rows[e]
           days == IF row = NoRow THEN due[e] ELSE due[e] \ Captured(row)
           at == [capture[Daemon] EXCEPT !.pc = "fetch", !.event = e, !.days = days,
                                         !.anchor = AnchorDate(row)]
<1>1. /\ capture[Daemon].pc = "next" /\ capture[Daemon] \in Capture
      /\ capture \in [Capturer -> Capture]
      /\ UNCHANGED <<rows, due>>
  BY Naturals DEF NextEvent, NoWrite, tableVars, IInv, TypeOK
<1>2. e \in Event
  BY MaxIn DEF NextEvent
<1>3. /\ visited' = visited \cup {e}
      /\ \/ log' = log \cup Entries(e, days, "event_missing") /\ UNCHANGED capture
         \/ log' = log \cup Entries(e, days, "no_data") /\ UNCHANGED capture
         \/ /\ row # NoRow /\ UNCHANGED log
            /\ capture' = [capture EXCEPT ![Daemon] =
                 IF days = {} THEN capture[Daemon] ELSE at]
  BY DEF NextEvent
<1>4. at.pc = "fetch" /\ at.event = e /\ at.days = days
  BY <1>1 DEF Capture
<1>5. \A d \in due[e] : d \in days \/ (row # NoRow /\ d \in Captured(row))
  OBVIOUS
<1> HIDE DEF e, days, open, at
<1>6. log \subseteq log' /\ capture'[Daemon].pc # "idle"
  BY <1>1, <1>3, <1>4, Naturals
<1>7. ASSUME NEW d \in days
      PROVE  \/ \E status \in Status : [event |-> e, day |-> d, status |-> status] \in log'
             \/ capture'[Daemon].pc \in Busy /\ capture'[Daemon].event = e
                /\ d \in capture'[Daemon].days
  <2>1. CASE log' = log \cup Entries(e, days, "event_missing")
    BY <1>7, <2>1 DEF Entries, Status
  <2>2. CASE log' = log \cup Entries(e, days, "no_data")
    BY <1>7, <2>2 DEF Entries, Status
  <2>3. CASE capture' = [capture EXCEPT ![Daemon] = IF days = {} THEN capture[Daemon] ELSE at]
    BY <1>1, <1>4, <1>7, <2>3, Naturals DEF Busy
  <2> QED
    BY <1>3, <2>1, <2>2, <2>3
<1> SUFFICES ASSUME NEW f \in Event, NEW d \in due[f]
             PROVE  Settled(f, d)' \/ Pending(f, d)'
  BY <1>1 DEF PassOK
<1>8. CASE f = e
  <2>1. CASE d \in days
    BY <1>6, <1>7, <1>8, <2>1 DEF Settled, Pending
  <2>2. CASE d \in Captured(rows[f])
    BY <1>1, <2>2 DEF Settled
  <2> QED
    BY <1>5, <1>8, <2>1, <2>2
<1>9. CASE f # e
  <2>1. Settled(f, d) => Settled(f, d)'
    BY <1>1, <1>6 DEF Settled
  <2>2. Pending(f, d) => Pending(f, d)'
    BY <1>1, <1>3, <1>6, <1>9 DEF Pending, Busy
  <2> QED
    BY <2>1, <2>2 DEF PassOK
<1> QED
  BY <1>8, <1>9

\* A pass begins with every due event to come, and ends with none.
LEMMA StartPassComplete ==
    ASSUME IInv, StartPass
    PROVE  PassOK'
<1> DEFINE found == [e \in Event |->
                       IF e \in Scanned THEN DueDays(rows[e], now) ELSE {}]
<1>1. /\ due' = found /\ visited' = {}
      /\ capture' = [capture EXCEPT ![Daemon] =
           IF \E e \in Event : found[e] # {}
           THEN [NoCapture EXCEPT !.pc = "next"] ELSE NoCapture]
      /\ capture \in [Capturer -> Capture]
  BY DEF StartPass, IInv, TypeOK
<1> HIDE DEF found
<1>2. (\E e \in Event : found[e] # {}) => capture'[Daemon].pc # "idle"
  BY <1>1, Naturals DEF NoCapture
<1> QED
  BY <1>1, <1>2 DEF PassOK, Pending

LEMMA EndPassComplete ==
    ASSUME IInv, PassOK, [Next]_vars, EndPass
    PROVE  PassOK'
<1>1. \A e \in Event : due[e] # {} => e \in visited
  BY DEF EndPass
<1>2. capture[Daemon].pc \notin Busy
  BY DEF EndPass, Busy
<1>3. \A e \in Event : \A d \in due[e] : Settled(e, d)
  BY <1>1, <1>2 DEF PassOK, Pending
<1>4. UNCHANGED <<due, log>>
  BY DEF EndPass, passVars
<1> QED
  BY <1>3, <1>4, SettledStays DEF PassOK

\* Nothing is due to a pass that raised or died.
LEMMA AbandonedComplete ==
    ASSUME PassRaises \/ Crash
    PROVE  PassOK'
  BY DEF PassRaises, Crash, PassOK

LEMMA AccountKept ==
    ASSUME IInv, PassOK, [Next]_vars
    PROVE  PassOK'
<1>1. capture \in [Capturer -> Capture]
  BY DEF IInv, TypeOK
<1>2. ASSUME NEW r \in Refresher, LoadForRefresh(r) \/ RefreshStep(r)
      PROVE  UNCHANGED <<due, visited, log, capture>>
  BY <1>2 DEF RefreshStep, LoadForRefresh, Decide, FetchReturns, CheckMarket,
     Persist, RefreshFails, RefreshFrame, passVars
<1>3. ASSUME NEW c \in Revisitor, LoadForCapture(c) \/ CaptureStep(c)
      PROVE  UNCHANGED <<due, visited, log>> /\ capture'[Daemon] = capture[Daemon]
  <2>1. c # Daemon
    BY SlotAssumption
  <2> QED
    BY <1>1, <1>3, <2>1, Naturals DEF CaptureStep, LoadForCapture, FetchFollowup,
       FollowupFails, AppendRead, AppendWrite, AppendFails, Logged, passVars
<1>4. SaveEvent \/ DeleteEvent \/ Tick \/ UNCHANGED vars =>
        UNCHANGED <<due, visited, log, capture>>
  BY DEF SaveEvent, DeleteEvent, Tick, SlotFrame, passVars, vars
<1>5. CASE PassStep
  BY <1>5, StartPassComplete, NextEventComplete, EndPassComplete, DaemonCaptures
     DEF PassStep
<1> QED
  BY <1>2, <1>3, <1>4, <1>5, PassStands, AbandonedComplete DEF Next

\* A pass that returned has accounted for every day it found due, whatever
\* failed, was deleted, was captured by others or raised under it.
THEOREM PassesAreComplete == Spec => []PassIsComplete
<1>1. Init => PassOK
  BY DEF Init, PassOK
<1>2. PassOK => PassIsComplete
  BY DEF PassOK, Pending, Settled, PassIsComplete
<1>3. IInv /\ PassOK /\ [Next]_vars => PassOK'
  BY AccountKept
<1> QED
  BY <1>1, <1>2, <1>3, EvidenceInvariant, PTL DEF Spec
===========================================================================
