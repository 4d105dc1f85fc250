------------------------ MODULE AtomicEvidenceProofs ------------------------
(***************************************************************************)
(* The writers of the market evidence implement AtomicEvidence, for every  *)
(* number of refreshes, revisits, events and days and every bound.         *)
(***************************************************************************)
EXTENDS RevisitProofs

---------------------------------------------------------------------------
(* The two modules share their words.                                      *)

LEMMA SameWords ==
    /\ Atomic!Event = Event /\ Atomic!Row = Row /\ Atomic!Tickers = Tickers
    /\ Atomic!Snapshot = Snapshot
    /\ \A tickers : Atomic!Label(tickers) = Label(tickers)
    /\ \A row : Atomic!AnchorDate(row) = AnchorDate(row)
<1>1. Atomic!Tag = Tag /\ Atomic!Verdict = Verdict
  BY DEF Atomic!Tag, Tag, Atomic!Verdict, Verdict
<1>2. Atomic!TickerRows = TickerRows
  BY <1>1 DEF Atomic!TickerRows, TickerRows
<1>3. Atomic!Tickers = Tickers /\ Atomic!Snapshot = Snapshot
  BY <1>1, <1>2 DEF Atomic!Tickers, Tickers, Atomic!Snapshot, Snapshot
<1>4. Atomic!Row = Row
  BY <1>1, <1>3 DEF Atomic!Row, Row
<1>5. Atomic!Event = Event
  BY DEF Atomic!Event, Event
<1>6. /\ \A tickers : Atomic!Label(tickers) = Label(tickers)
      /\ \A row : Atomic!AnchorDate(row) = AnchorDate(row)
  BY DEF Atomic!Label, Label, Atomic!AnchorDate, AnchorDate
<1> QED
  BY <1>3, <1>4, <1>5, <1>6

---------------------------------------------------------------------------
(* No stamp and no captured day is still to come.                          *)

\* A capture asks for the returns from the row's own anchor, and appends
\* days that have come.
ReadyOK(x) ==
    x.pc \in Busy =>
        /\ x.event \in Event /\ x.event <= lastId
        /\ rows[x.event] # NoRow =>
              IF x.pc = "fetch"
              THEN x.anchor = AnchorDate(rows[x.event])
              ELSE \A d \in x.days : AnchorDate(rows[x.event]) + d <= now

TimeOK ==
    /\ \A r \in Refresher : refresh[r].pc \in {"fetch", "persist"} => refresh[r].at <= now
    /\ \A c \in Capturer : ReadyOK(capture[c])

LEMMA NowMoves ==
    ASSUME [Next]_vars
    PROVE  now' = now \/ Tick
<1>1. ASSUME NEW r \in Refresher, LoadForRefresh(r) \/ RefreshStep(r)
      PROVE  now' = now
  BY <1>1 DEF RefreshStep, LoadForRefresh, Decide, FetchReturns, CheckMarket, Persist,
     RefreshFails, RefreshFrame
<1>2. ASSUME NEW c \in Capturer, LoadForCapture(c) \/ CaptureStep(c)
      PROVE  now' = now
  BY <1>2 DEF CaptureStep, LoadForCapture, FetchFollowup, FollowupFails,
     AppendRead, AppendWrite, AppendFails, CaptureFrame
<1>3. StartPass \/ NextEvent \/ EndPass \/ PassRaises => now' = now
  BY DEF StartPass, NextEvent, EndPass, PassRaises, CaptureFrame
<1>4. SaveEvent \/ DeleteEvent \/ Crash \/ UNCHANGED vars => now' = now
  BY DEF SaveEvent, DeleteEvent, Crash, vars
<1> QED
  BY <1>1, <1>2, <1>3, <1>4, Naturals DEF Next, PassStep

LEMMA TimeFacts ==
    ASSUME IInv, [Next]_vars
    PROVE  /\ lastId \in Nat /\ lastId' \in Nat /\ now \in Nat /\ now' \in Nat
           /\ lastId <= lastId' /\ now <= now'
<1>1. /\ lastId \in Nat /\ lastId' \in Nat /\ now \in Nat /\ now' \in Nat
  BY NextInvariant, Naturals DEF IInv, TypeOK
<1>2. now <= now'
  BY <1>1, NowMoves DEF Tick
<1> QED
  BY <1>1, <1>2, OnlySaveCreates

\* No write moves the date a row's returns count from.
LEMMA AnchorStays ==
    ASSUME IInv, [Next]_vars, NEW e \in Event, rows[e] # NoRow, rows'[e] # NoRow
    PROVE  AnchorDate(rows'[e]) = AnchorDate(rows[e])
<1>1. rows \in [Event -> Row \cup {NoRow}] /\ rows[e] \in Row
  BY DEF IInv, TypeOK
<1>2. SUFFICES ASSUME rows'[e] # rows[e]
               PROVE  rows'[e].date = rows[e].date /\ rows'[e].saved = rows[e].saved
  BY DEF AnchorDate
<1>3. ASSUME NEW r \in Refresher, Persist(r)
      PROVE  rows'[e].date = rows[e].date /\ rows'[e].saved = rows[e].saved
  <2> DEFINE x == refresh[r]
  <2>1. x.event \in Event
    BY <1>3 DEF IInv, TypeOK, RefreshOK, Persist, Refresh
  <2>2. x.event = e
    BY <1>1, <1>2, <1>3, <2>1 DEF Persist
  <2>3. rows'[e] = WithRefresh(rows[e], x.tickers, x.at)
    BY <1>1, <1>3, <2>1, <2>2 DEF Persist
  <2> QED
    BY <1>1, <2>3 DEF WithRefresh, Row
<1>4. ASSUME NEW c \in Capturer, AppendWrite(c)
      PROVE  rows'[e].date = rows[e].date /\ rows'[e].saved = rows[e].saved
  <2>1. capture[c].event = e
    BY <1>1, <1>2, <1>4, AppendCaptures
  <2>2. rows'[e] = WithSnapshot(rows[e], rows[e], Day(c), capture[c].tag)
    <3>1. rows' = [rows EXCEPT ![e] = WithSnapshot(rows[e], rows[e], Day(c), capture[c].tag)]
      BY <1>4, <2>1, AppendedRow
    <3> QED
      BY <1>1, <3>1
  <2> QED
    BY <1>1, <2>2 DEF WithSnapshot, Row
<1>5. ~SaveEvent
  <2>1. SaveEvent => rows'[e] = rows[e]
    BY <1>1, SavedRow
  <2> QED
    BY <1>2, <2>1
<1>6. ~DeleteEvent
  BY <1>1, <1>2 DEF DeleteEvent
<1> QED
  BY <1>2, <1>3, <1>4, <1>5, <1>6, RowWriters

LEMMA AnchorIsNat ==
    ASSUME IInv, NEW e \in Event, rows[e] # NoRow
    PROVE  AnchorDate(rows[e]) \in Nat
  BY RowParts DEF IInv, TypeOK

\* What a capture relies on stays true whatever the others do.
LEMMA ReadyStays ==
    ASSUME IInv, [Next]_vars, NEW x \in Capture, ReadyOK(x)
    PROVE  ReadyOK(x)'
<1> SUFFICES ASSUME x.pc \in Busy
             PROVE  /\ x.event \in Event /\ x.event <= lastId'
                    /\ rows'[x.event] # NoRow =>
                          IF x.pc = "fetch"
                          THEN x.anchor = AnchorDate(rows'[x.event])
                          ELSE \A d \in x.days : AnchorDate(rows'[x.event]) + d <= now'
  BY DEF ReadyOK
<1>1. /\ x.event \in Event /\ x.event <= lastId /\ x.event \in Nat /\ x.days \in SUBSET Nat
  BY Naturals DEF ReadyOK, Capture
<1>2. x.event <= lastId'
  BY <1>1, TimeFacts
<1>3. ASSUME rows'[x.event] # NoRow
      PROVE  IF x.pc = "fetch"
             THEN x.anchor = AnchorDate(rows'[x.event])
             ELSE \A d \in x.days : AnchorDate(rows'[x.event]) + d <= now'
  <2>1. rows[x.event] # NoRow
    BY <1>1, <1>3, OnlySaveCreates
  <2>2. AnchorDate(rows'[x.event]) = AnchorDate(rows[x.event]) /\ AnchorDate(rows[x.event]) \in Nat
    BY <1>1, <1>3, <2>1, AnchorStays, AnchorIsNat
  <2>3. CASE x.pc = "fetch"
    BY <2>1, <2>2, <2>3 DEF ReadyOK
  <2>4. CASE x.pc # "fetch"
    <3>1. \A d \in x.days : AnchorDate(rows[x.event]) + d <= now
      BY <2>1, <2>4 DEF ReadyOK
    <3> QED
      BY <1>1, <2>2, <2>4, <3>1, TimeFacts
  <2> QED
    BY <2>3, <2>4
<1> QED
  BY <1>1, <1>2, <1>3

\* A slot that is not busy relies on nothing.
LEMMA IdleIsReady ==
    ASSUME NEW x, x.pc \in {"idle", "next"}
    PROVE  ReadyOK(x)
  BY DEF ReadyOK, Busy

---------------------------------------------------------------------------
(* Captures.                                                               *)

\* What every slot holds after the step is ready before it.
AllReady == \A c \in Capturer : \E x \in Capture : x = capture'[c] /\ ReadyOK(x)

LEMMA SlotMoves ==
    ASSUME IInv, TimeOK, NEW c \in Capturer, NEW x \in Capture, ReadyOK(x),
           capture' = [capture EXCEPT ![c] = x]
    PROVE  AllReady
<1>1. capture \in [Capturer -> Capture]
  BY DEF IInv, TypeOK
<1> SUFFICES ASSUME NEW d \in Capturer
             PROVE  \E y \in Capture : y = capture'[d] /\ ReadyOK(y)
  BY DEF AllReady
<1>2. CASE d = c
  BY <1>1, <1>2
<1>3. CASE d # c
  <2>1. capture'[d] = capture[d] /\ capture[d] \in Capture /\ ReadyOK(capture[d])
    BY <1>1, <1>3 DEF TimeOK
  <2> QED
    BY <2>1
<1> QED
  BY <1>2, <1>3

LEMMA SlotsStay ==
    ASSUME IInv, TimeOK, UNCHANGED capture
    PROVE  AllReady
<1> SUFFICES ASSUME NEW d \in Capturer
             PROVE  \E y \in Capture : y = capture'[d] /\ ReadyOK(y)
  BY DEF AllReady
<1>1. capture'[d] = capture[d] /\ capture[d] \in Capture /\ ReadyOK(capture[d])
  BY DEF IInv, TypeOK, TimeOK
<1> QED
  BY <1>1

\* Days that are left of an append have come like the others.
LEMMA ContinueReady ==
    ASSUME IInv, TimeOK, NEW c \in Capturer, capture[c].pc \in {"append", "write"},
           NEW days \in SUBSET capture[c].days, NEW x, x = Continue(c, days)
    PROVE  x \in Capture /\ ReadyOK(x)
<1>1. capture[c].pc \in Busy /\ capture[c].days \in SUBSET Days /\ ReadyOK(capture[c])
  BY DEF Busy, IInv, TypeOK, TimeOK, Capture
<1>2. /\ x \in Capture /\ x.pc \in {"idle", "next", "append"}
      /\ x.pc = "append" => x.event = capture[c].event /\ x.days = days
  BY <1>1, ContinueType DEF IInv
<1>3. CASE x.pc = "append"
  BY <1>1, <1>2, <1>3 DEF ReadyOK
<1>4. CASE x.pc # "append"
  BY <1>2, <1>4, IdleIsReady
<1> QED
  BY <1>2, <1>3, <1>4

\* Continuing with no day is the same for any slot.
LEMMA ContinueEnds ==
    ASSUME IInv, NEW c \in Capturer, capture[c].pc \in Busy
    PROVE  Continue(c, {}) \in Capture /\ ReadyOK(Continue(c, {}))
<1>1. Continue(c, {}) \in Capture /\ Continue(c, {}).pc \in {"idle", "next"}
  BY ContinueType DEF IInv
<1> QED
  BY <1>1, IdleIsReady

LEMMA LoadReady ==
    ASSUME IInv, TimeOK, NEW c \in Capturer, LoadForCapture(c)
    PROVE  AllReady
<1>1. PICK e \in Event :
        /\ rows[e] # NoRow
        /\ capture' = [capture EXCEPT ![c] =
            [NoCapture EXCEPT !.pc = "fetch", !.event = e, !.days = Days,
                              !.anchor = AnchorDate(rows[e])]]
  BY DEF LoadForCapture
<1> DEFINE x == [NoCapture EXCEPT !.pc = "fetch", !.event = e, !.days = Days,
                                  !.anchor = AnchorDate(rows[e])]
<1>2. AnchorDate(rows[e]) \in Nat /\ e \in Nat /\ e <= lastId
  BY <1>1, AnchorIsNat, Naturals DEF IInv, IdsOK
<1>3. /\ x \in Capture /\ x.pc = "fetch" /\ x.event = e
      /\ x.anchor = AnchorDate(rows[e])
  BY <1>2, NoCaptureType, DayAssumption DEF Capture, NoCapture
<1>4. capture' = [capture EXCEPT ![c] = x]
  BY <1>1
<1> HIDE DEF x
<1>5. ReadyOK(x)
  BY <1>2, <1>3 DEF ReadyOK
<1> QED
  BY <1>3, <1>4, <1>5, SlotMoves

LEMMA FetchReady ==
    ASSUME IInv, TimeOK, NEW c \in Capturer, FetchFollowup(c)
    PROVE  AllReady
<1> DEFINE days == capture[c].days
<1>1. PICK o \in Followups(capture[c].anchor, now) :
        capture' = [capture EXCEPT ![c] =
             IF days \cap o.ready = {} THEN Continue(c, {})
             ELSE [Continue(c, days \cap o.ready) EXCEPT !.tag = o.tag]]
  BY DEF FetchFollowup
<1>2. /\ capture[c].pc = "fetch" /\ capture[c].pc \in Busy /\ o.tag \in Tag
      /\ days \cap o.ready \in SUBSET Days /\ ReadyOK(capture[c])
      /\ \A d \in o.ready : capture[c].anchor + d <= now
  BY DEF FetchFollowup, Busy, Followups, IInv, TypeOK, Capture, TimeOK
<1>3. CASE days \cap o.ready = {}
  BY <1>1, <1>2, <1>3, ContinueEnds, SlotMoves
<1>4. CASE days \cap o.ready # {}
  <2> DEFINE y == Continue(c, days \cap o.ready)
             x == [y EXCEPT !.tag = o.tag]
  <2>1. /\ y \in Capture /\ y.pc \in {"idle", "next", "append"}
        /\ (y.pc = "append" => y.event = capture[c].event /\ y.days = days \cap o.ready)
    BY <1>2, ContinueType DEF IInv
  <2>2. capture' = [capture EXCEPT ![c] = x]
    BY <1>1, <1>4
  <2> HIDE DEF y
  <2>3. x \in Capture /\ x.pc = y.pc /\ x.event = y.event /\ x.days = y.days
    BY <1>2, <2>1 DEF Capture
  <2> HIDE DEF x
  <2>4. ReadyOK(x)
    <3>1. y.pc = "append" => ReadyOK(x)
      <4> SUFFICES ASSUME y.pc = "append" PROVE ReadyOK(x)
        OBVIOUS
      <4>1. x.event = capture[c].event /\ x.days = days \cap o.ready /\ x.pc = "append"
        BY <2>1, <2>3
      <4>2. /\ capture[c].event \in Event /\ capture[c].event <= lastId
            /\ rows[capture[c].event] # NoRow => capture[c].anchor = AnchorDate(rows[capture[c].event])
        BY <1>2 DEF ReadyOK
      <4> QED
        BY <1>2, <4>1, <4>2 DEF ReadyOK
    <3>2. y.pc # "append" => ReadyOK(x)
      BY <2>1, <2>3, IdleIsReady
    <3> QED
      BY <3>1, <3>2
  <2> QED
    BY <2>2, <2>3, <2>4, SlotMoves
<1> QED
  BY <1>3, <1>4

LEMMA AppendReady ==
    ASSUME IInv, TimeOK, NEW c \in Capturer, AppendRead(c) \/ AppendWrite(c) \/ AppendFails(c)
    PROVE  AllReady
<1>1. /\ capture[c] \in Capture /\ capture[c].pc \in {"append", "write"}
      /\ capture[c].pc \in Busy /\ capture[c].event \in Event /\ ReadyOK(capture[c])
  BY DEF AppendRead, AppendWrite, AppendFails, Busy, IInv, TypeOK, CaptureOK, TimeOK
<1>2. Later(c) \in SUBSET capture[c].days
  BY DEF Later
<1>3. ASSUME NEW days \in SUBSET capture[c].days, capture' = [capture EXCEPT ![c] = Continue(c, days)]
      PROVE  AllReady
  <2>1. PICK x : x = Continue(c, days)
    OBVIOUS
  <2>2. x \in Capture /\ ReadyOK(x)
    BY <1>1, <2>1, ContinueReady
  <2> QED
    BY <1>3, <2>1, <2>2, SlotMoves
<1>4. ASSUME AppendRead(c), rows[capture[c].event] # NoRow,
             capture' = [capture EXCEPT ![c].pc = "write", ![c].read = rows[capture[c].event]]
      PROVE  AllReady
  <2> DEFINE x == [capture[c] EXCEPT !.pc = "write", !.read = rows[capture[c].event]]
  <2>1. rows[capture[c].event] \in Row
    BY <1>1, <1>4 DEF IInv, TypeOK
  <2>2. /\ x \in Capture /\ x.pc = "write" /\ x.event = capture[c].event
        /\ x.days = capture[c].days
    BY <1>1, <2>1 DEF Capture
  <2>3. capture' = [capture EXCEPT ![c] = x]
    BY <1>1, <1>4 DEF IInv, TypeOK
  <2>4. capture[c].pc = "append"
    BY <1>4 DEF AppendRead
  <2> HIDE DEF x
  <2>5. ReadyOK(x)
    BY <1>1, <2>2, <2>4 DEF ReadyOK
  <2> QED
    BY <2>2, <2>3, <2>5, SlotMoves
<1>5. CASE AppendRead(c)
  BY <1>2, <1>3, <1>4, <1>5 DEF AppendRead
<1>6. CASE AppendWrite(c)
  BY <1>2, <1>3, <1>6 DEF AppendWrite
<1>7. CASE AppendFails(c)
  BY <1>2, <1>3, <1>7 DEF AppendFails
<1> QED
  BY <1>5, <1>6, <1>7

LEMMA PassReady ==
    ASSUME IInv, TimeOK, StartPass \/ EndPass \/ PassRaises
    PROVE  AllReady
<1>1. PICK x \in {NoCapture, [NoCapture EXCEPT !.pc = "next"]} :
          capture' = [capture EXCEPT ![Daemon] = x]
  BY DEF StartPass, EndPass, PassRaises
<1>2. x \in Capture /\ x.pc \in {"idle", "next"}
  BY <1>1, NoCaptureType, NextType
<1>3. ReadyOK(x) /\ Daemon \in Capturer
  BY <1>2, IdleIsReady, Naturals
<1> QED
  BY <1>1, <1>2, <1>3, SlotMoves

LEMMA NextEventReady ==
    ASSUME IInv, TimeOK, NextEvent
    PROVE  AllReady
<1> DEFINE open == {e \in Event : due[e] # {} /\ e \notin visited}
           e == Max(open)
           row == rows[e]
           days == IF row = NoRow THEN due[e] ELSE due[e] \ Captured(row)
<1>1. /\ capture[Daemon] \in Capture /\ capture[Daemon].pc = "next"
      /\ due \in [Event -> SUBSET Anchors] /\ capture \in [Capturer -> Capture]
  BY Naturals DEF NextEvent, IInv, TypeOK
<1>2. e \in Event
  BY MaxIn DEF NextEvent
<1>3. days \in SUBSET Days
  BY <1>1, <1>2, Naturals
<1>4. \/ UNCHANGED capture
      \/ /\ row # NoRow
         /\ capture' = [capture EXCEPT ![Daemon] =
              IF days = {} THEN @
              ELSE [@ EXCEPT !.pc = "fetch", !.event = e, !.days = days,
                             !.anchor = AnchorDate(row)]]
  BY DEF NextEvent
<1> HIDE DEF e, days, open
<1>5. CASE UNCHANGED capture
  BY <1>5, SlotsStay
<1>6. CASE days = {} /\ capture' = [capture EXCEPT ![Daemon] = capture[Daemon]]
  <2>1. capture' = capture
    BY <1>1, <1>6, Naturals
  <2> QED
    BY <2>1, SlotsStay
<1>7. CASE /\ days # {} /\ row # NoRow
           /\ capture' = [capture EXCEPT ![Daemon] =
                [capture[Daemon] EXCEPT !.pc = "fetch", !.event = e, !.days = days,
                                        !.anchor = AnchorDate(row)]]
  <2> DEFINE x == [capture[Daemon] EXCEPT !.pc = "fetch", !.event = e,
                                          !.days = days, !.anchor = AnchorDate(row)]
  <2>1. AnchorDate(row) \in Nat /\ e \in Nat /\ e <= lastId
    BY <1>2, <1>7, AnchorIsNat, Naturals DEF IInv, IdsOK
  <2>2. x \in Capture /\ x.pc = "fetch" /\ x.event = e /\ x.anchor = AnchorDate(row)
    BY <1>1, <1>3, <2>1 DEF Capture
  <2>3. capture' = [capture EXCEPT ![Daemon] = x]
    BY <1>7
  <2> HIDE DEF x
  <2>4. ReadyOK(x)
    BY <1>2, <2>1, <2>2 DEF ReadyOK
  <2> QED
    BY <2>2, <2>3, <2>4, Naturals, SlotMoves
<1> QED
  BY <1>4, <1>5, <1>6, <1>7

LEMMA CrashReady ==
    ASSUME IInv, Crash
    PROVE  AllReady
<1>1. \A c \in Capturer : capture'[c] = NoCapture
  BY DEF Crash
<1>2. NoCapture \in Capture /\ ReadyOK(NoCapture)
  BY NoCaptureType, IdleIsReady
<1> QED
  BY <1>1, <1>2 DEF AllReady

LEMMA StepReady ==
    ASSUME IInv, TimeOK, [Next]_vars
    PROVE  AllReady
<1>1. ASSUME NEW r \in Refresher, LoadForRefresh(r) \/ RefreshStep(r)
      PROVE  AllReady
  <2>1. UNCHANGED capture
    BY <1>1 DEF RefreshStep, LoadForRefresh, Decide, FetchReturns, CheckMarket, Persist,
       RefreshFails, RefreshFrame
  <2> QED
    BY <2>1, SlotsStay
<1>2. ASSUME NEW c \in Capturer, CaptureStep(c)
      PROVE  AllReady
  <2>1. CASE FollowupFails(c)
    <3>1. capture[c].pc \in Busy /\ capture' = [capture EXCEPT ![c] = Continue(c, {})]
      BY <2>1 DEF FollowupFails, Busy
    <3> QED
      BY <3>1, ContinueEnds, SlotMoves
  <2> QED
    BY <1>2, <2>1, FetchReady, AppendReady DEF CaptureStep
<1>3. ASSUME NEW c \in Revisitor, LoadForCapture(c)
      PROVE  AllReady
  BY <1>3, Naturals, LoadReady
<1>4. CASE PassStep \/ PassRaises
  BY <1>2, <1>4, Naturals, PassReady, NextEventReady DEF PassStep
<1>5. CASE SaveEvent \/ DeleteEvent \/ Tick \/ UNCHANGED vars
  <2>1. UNCHANGED capture
    BY <1>5 DEF SaveEvent, DeleteEvent, Tick, SlotFrame, vars
  <2> QED
    BY <2>1, SlotsStay
<1>6. CASE Crash
  BY <1>6, CrashReady
<1> QED
  BY <1>1, <1>2, <1>3, <1>4, <1>5, <1>6, Naturals DEF Next

---------------------------------------------------------------------------
(* Refreshes.                                                              *)

\* A refresh is stamped with the time it began or came back.
StampOK(x) == x.pc \in {"fetch", "persist"} => x.at <= now

LEMMA StampStays ==
    ASSUME IInv, [Next]_vars, NEW x \in Refresh, StampOK(x)
    PROVE  StampOK(x)'
<1>1. x.at \in Nat
  BY DEF Refresh
<1> QED
  BY <1>1, TimeFacts DEF StampOK

LEMMA StepStamped ==
    ASSUME IInv, TimeOK, [Next]_vars, NEW r \in Refresher
    PROVE  StampOK(refresh'[r])
<1>1. /\ refresh \in [Refresher -> Refresh] /\ now \in Nat
      /\ \A q \in Refresher : StampOK(refresh[q])
  BY Naturals DEF IInv, TypeOK, TimeOK, StampOK
<1>2. StampOK(NoRefresh)
  BY DEF StampOK, NoRefresh
<1>3. \A x, tickers, at : at <= now => StampOK(ToPersist(x, tickers, at))
  BY DEF StampOK, ToPersist, NoRefresh
<1>4. ASSUME NEW q \in Refresher, NEW x, StampOK(x), refresh' = [refresh EXCEPT ![q] = x]
      PROVE  StampOK(refresh'[r])
  BY <1>1, <1>4
<1>5. ASSUME UNCHANGED refresh
      PROVE  StampOK(refresh'[r])
  BY <1>1, <1>5
<1>6. ASSUME NEW q \in Refresher, LoadForRefresh(q)
      PROVE  StampOK(refresh'[r])
  <2>1. PICK e \in Event, kind \in Kind, force \in BOOLEAN :
          refresh' = [refresh EXCEPT ![q] =
            [NoRefresh EXCEPT !.pc = "loaded", !.kind = kind, !.event = e,
                              !.base = BaseOf(rows[e]), !.force = force]]
    BY <1>6 DEF LoadForRefresh
  <2> DEFINE x == [NoRefresh EXCEPT !.pc = "loaded", !.kind = kind, !.event = e,
                                    !.base = BaseOf(rows[e]), !.force = force]
  <2>2. StampOK(x)
    BY DEF StampOK, NoRefresh
  <2> HIDE DEF x
  <2> QED
    BY <1>4, <2>1, <2>2 DEF x
<1>7. ASSUME NEW q \in Refresher, Decide(q)
      PROVE  StampOK(refresh'[r])
  <2>1. \/ refresh' = [refresh EXCEPT ![q].pc = "check"]
        \/ refresh' = [refresh EXCEPT ![q].pc = "fetch", ![q].at = now]
        \/ EndRefresh(q)
    BY <1>7 DEF Decide
  <2>2. /\ StampOK([refresh[q] EXCEPT !.pc = "check"])
        /\ StampOK([refresh[q] EXCEPT !.pc = "fetch", !.at = now])
    BY <1>1 DEF StampOK, Refresh
  <2>3. \E x : StampOK(x) /\ refresh' = [refresh EXCEPT ![q] = x]
    BY <1>1, <1>2, <2>1, <2>2 DEF EndRefresh
  <2> QED
    BY <1>4, <2>3
<1>8. ASSUME NEW q \in Refresher, FetchReturns(q)
      PROVE  StampOK(refresh'[r])
  <2>1. refresh[q].at <= now
    BY <1>1, <1>8 DEF FetchReturns, StampOK
  <2>2. PICK tickers : refresh' = [refresh EXCEPT ![q] = ToPersist(refresh[q], tickers, refresh[q].at)]
    BY <1>8 DEF FetchReturns
  <2> QED
    BY <1>3, <1>4, <2>1, <2>2
<1>9. ASSUME NEW q \in Refresher, CheckMarket(q)
      PROVE  StampOK(refresh'[r])
  <2>1. PICK tickers : refresh' = [refresh EXCEPT ![q] = ToPersist(refresh[q], tickers, now)]
    BY <1>1, <1>9 DEF CheckMarket
  <2> QED
    BY <1>1, <1>3, <1>4, <2>1
<1>10. ASSUME NEW q \in Refresher, Persist(q) \/ RefreshFails(q)
       PROVE  StampOK(refresh'[r])
  BY <1>2, <1>4, <1>10 DEF Persist, RefreshFails, EndRefresh
<1>11. ASSUME NEW c \in Capturer, LoadForCapture(c) \/ CaptureStep(c)
       PROVE  StampOK(refresh'[r])
  <2>1. UNCHANGED refresh
    BY <1>11 DEF CaptureStep, LoadForCapture, FetchFollowup, FollowupFails,
       AppendRead, AppendWrite, AppendFails, CaptureFrame
  <2> QED
    BY <1>5, <2>1
<1>12. CASE StartPass \/ NextEvent \/ EndPass \/ PassRaises \/ SaveEvent \/ DeleteEvent \/ Tick
           \/ UNCHANGED vars
  <2>1. UNCHANGED refresh
    BY <1>12 DEF StartPass, NextEvent, EndPass, PassRaises, CaptureFrame, SaveEvent, DeleteEvent,
       Tick, SlotFrame, vars
  <2> QED
    BY <1>5, <2>1
<1>13. CASE Crash
  BY <1>2, <1>13 DEF Crash
<1> QED
  BY <1>6, <1>7, <1>8, <1>9, <1>10, <1>11, <1>12, <1>13, Naturals DEF Next, PassStep, RefreshStep

LEMMA InitTime == Init => TimeOK
  BY IdleIsReady, NoCaptureType DEF Init, TimeOK, NoRefresh

LEMMA NextTime == IInv /\ TimeOK /\ [Next]_vars => TimeOK'
<1> SUFFICES ASSUME IInv, TimeOK, [Next]_vars
             PROVE  TimeOK'
  OBVIOUS
<1>1. ASSUME NEW c \in Capturer
      PROVE  ReadyOK(capture[c])'
  <2>1. PICK x \in Capture : x = capture'[c] /\ ReadyOK(x)
    BY StepReady DEF AllReady
  <2>2. ReadyOK(x)'
    BY <2>1, ReadyStays
  <2> QED
    BY <2>1, <2>2
<1>2. ASSUME NEW r \in Refresher
      PROVE  StampOK(refresh[r])'
  <2>1. refresh' \in [Refresher -> Refresh]
    BY NextInvariant DEF IInv, TypeOK
  <2>2. PICK x \in Refresh : x = refresh'[r]
    BY <2>1
  <2>3. StampOK(x)
    BY <2>2, StepStamped
  <2>4. StampOK(x)'
    BY <2>3, StampStays
  <2> QED
    BY <2>2, <2>4
<1> QED
  BY <1>1, <1>2 DEF TimeOK, StampOK

---------------------------------------------------------------------------
(* The refinement.                                                         *)

LEMMA WritesOne ==
    ASSUME NEW e \in Event, NEW row, rows \in [Event -> Row \cup {NoRow}],
           rows' = [rows EXCEPT ![e] = row], UNCHANGED now
    PROVE  rows'[e] = row /\ Atomic!Writes(e)
<1>1. rows'[e] = row
  OBVIOUS
<1> QED
  BY <1>1 DEF Atomic!Writes

LEMMA PersistIsCheck ==
    ASSUME IInv, TimeOK, NEW r \in Refresher, Persist(r)
    PROVE  UNCHANGED <<rows, lastId, now>> \/ \E e \in Event : Atomic!Check(e)
<1> DEFINE x == refresh[r]
           e == x.event
           row == WithRefresh(rows[e], x.tickers, x.at)
<1>1. e \in Event /\ x.tickers \in Tickers /\ x.at \in Nat /\ x.at <= now /\ now \in Nat
  BY Naturals DEF IInv, TypeOK, RefreshOK, Persist, Refresh, TimeOK
<1>2. /\ rows \in [Event -> Row \cup {NoRow}]
      /\ rows' = [rows EXCEPT ![e] = IF rows[e] = NoRow THEN NoRow ELSE row]
      /\ UNCHANGED <<lastId, now>>
  BY DEF IInv, TypeOK, Persist, RefreshFrame
<1>3. CASE rows[e] = NoRow
  <2>1. rows' = rows
    BY <1>1, <1>2, <1>3
  <2> QED
    BY <1>2, <2>1
<1>4. CASE rows[e] # NoRow
  <2>1. rows[e] \in Row
    BY <1>1, <1>2, <1>4
  <2>2. row \in Row /\ row.tickers = x.tickers /\ row.checked = x.at
    BY <1>1, <2>1, WithRefreshType DEF WithRefresh, Row
  <2>3. row = [rows[e] EXCEPT !.tickers = x.tickers, !.checked = x.at, !.verdict = Label(x.tickers)]
    BY DEF WithRefresh
  <2> HIDE DEF row
  <2>4. rows'[e] = row /\ Atomic!Writes(e)
    <3>1. rows' = [rows EXCEPT ![e] = row]
      BY <1>2, <1>4
    <3> HIDE DEF e
    <3> QED
      BY <1>1, <1>2, <3>1, WritesOne
  <2>5. row # NoRow
    BY <2>2, RowParts
  <2>6. Atomic!Label(x.tickers) = Label(x.tickers) /\ Atomic!Tickers = Tickers
    BY SameWords
  <2>7. x.at \in 0..now
    BY <1>1
  <2>8. /\ rows'[e].tickers = x.tickers /\ rows'[e].checked = x.at
        /\ Atomic!Label(rows'[e].tickers) = Label(x.tickers)
    BY <2>2, <2>4, <2>6
  <2>9. rows'[e] = [rows[e] EXCEPT !.tickers = rows'[e].tickers, !.checked = rows'[e].checked,
                                   !.verdict = Atomic!Label(rows'[e].tickers)]
    BY <2>3, <2>4, <2>8
  <2>10. rows'[e].tickers \in Atomic!Tickers /\ rows'[e].checked \in 0..now
    BY <1>1, <2>6, <2>7, <2>8
  <2>11. rows'[e] # NoRow /\ UNCHANGED lastId
    BY <1>2, <2>4, <2>5
  <2> HIDE DEF e, x
  <2>12. Atomic!Check(e)
    BY <1>4, <2>4, <2>9, <2>10, <2>11 DEF Atomic!Check
  <2> QED
    BY <1>1, <2>12
<1> QED
  BY <1>3, <1>4

LEMMA AppendIsCapture ==
    ASSUME IInv, TimeOK, NEW c \in Capturer, AppendWrite(c)
    PROVE  \E e \in Event, day \in Days : Atomic!Capture(e, day)
<1> DEFINE e == capture[c].event
           day == Day(c)
           snap == capture[c].tag
           row == WithSnapshot(rows[e], rows[e], day, snap)
<1>1. /\ e \in Event /\ day \in Days /\ snap \in Snapshot /\ rows[e] \in Row
      /\ rows' = [rows EXCEPT ![e] = row]
  BY AppendedRow, Zenon
<1>2. /\ UNCHANGED <<lastId, now>> /\ rows \in [Event -> Row \cup {NoRow}]
      /\ capture[c].pc = "write" /\ capture[c].pc \in Busy
  BY DEF IInv, TypeOK, AppendWrite, CaptureFrame, Busy
<1>3. rows[e] # NoRow /\ rows[e].verdict = Label(rows[e].tickers)
  BY <1>1, RowParts DEF IInv, VerdictMatchesTickers
<1>4. AnchorDate(rows[e]) + day <= now
  <2>1. day \in capture[c].days
    BY <1>2, DayType DEF IInv
  <2>2. ReadyOK(capture[c])
    BY DEF TimeOK
  <2> QED
    BY <1>2, <1>3, <2>1, <2>2 DEF ReadyOK
<1>5. row = [rows[e] EXCEPT !.snaps = [rows[e].snaps EXCEPT ![day] = snap]]
  <2>1. PICK old \in Row : old = rows[e]
    BY <1>1
  <2>2. row = [old EXCEPT !.snaps = [old.snaps EXCEPT ![day] = snap], !.verdict = Label(old.tickers)]
    BY <2>1 DEF WithSnapshot
  <2>3. Label(old.tickers) = old.verdict
    BY <1>3, <2>1
  <2> HIDE DEF row, day, snap
  <2>4. row = [old EXCEPT !.snaps = [old.snaps EXCEPT ![day] = snap]]
    BY <2>2, <2>3 DEF Row
  <2> QED
    BY <2>1, <2>4
<1> HIDE DEF row
<1>6. rows'[e] = row /\ Atomic!Writes(e)
  <2> HIDE DEF e
  <2> QED
    BY <1>1, <1>2, WritesOne
<1>7. Atomic!AnchorDate(rows[e]) = AnchorDate(rows[e]) /\ Atomic!Snapshot = Snapshot
  BY SameWords
<1> HIDE DEF day, snap, e
<1>8. Atomic!Capture(e, day)
  BY <1>1, <1>2, <1>3, <1>4, <1>5, <1>6, <1>7 DEF Atomic!Capture
<1> QED
  BY <1>1, <1>8

LEMMA SaveIsSave ==
    ASSUME IInv, SaveEvent
    PROVE  \E e \in Event : Atomic!Save(e)
<1> DEFINE e == lastId + 1
<1>1. e \in Event /\ lastId' = e /\ UNCHANGED now /\ rows \in [Event -> Row \cup {NoRow}] /\ now \in Nat
  BY SavedRow, Naturals DEF SaveEvent, IInv, TypeOK
<1>2. PICK date \in 0..now \cup {NoDate}, tickers \in Tickers, checked \in {now, Never} :
        rows' = [rows EXCEPT ![e] = NewRow(date, now, tickers, checked)]
  BY DEF SaveEvent
<1> DEFINE row == NewRow(date, now, tickers, checked)
<1>3. /\ row \in Row /\ row.saved = now /\ row.snaps = [d \in Days |-> NoSnap]
      /\ row.verdict = Label(row.tickers)
  <2>1. date \in Nat \cup {NoDate} /\ checked \in Nat \cup {Never}
    BY <1>1, <1>2
  <2> QED
    BY <1>1, <2>1, NewRowType DEF NewRow
<1> HIDE DEF row, e
<1>4. rows'[e] = row /\ Atomic!Writes(e)
  BY <1>1, <1>2, WritesOne DEF row
<1>5. Atomic!Label(row.tickers) = Label(row.tickers) /\ Atomic!Row = Row
  BY SameWords
<1>6. Atomic!Save(e)
  BY <1>1, <1>3, <1>4, <1>5 DEF Atomic!Save, e
<1> QED
  BY <1>1, <1>6

LEMMA DeleteIsErase ==
    ASSUME IInv, DeleteEvent
    PROVE  \E e \in Event : Atomic!Erase(e)
<1>1. PICK e \in Event : rows' = [rows EXCEPT ![e] = NoRow]
  BY DEF DeleteEvent
<1>2. UNCHANGED <<lastId, now>> /\ rows \in [Event -> Row \cup {NoRow}]
  BY DEF DeleteEvent, IInv, TypeOK
<1>3. rows'[e] = NoRow /\ Atomic!Writes(e)
  BY <1>1, <1>2, WritesOne
<1> QED
  BY <1>2, <1>3 DEF Atomic!Erase

LEMMA StepIsAtomic ==
    ASSUME IInv, TimeOK, [Next]_vars
    PROVE  [Atomic!Next]_<<rows, lastId, now>>
<1>1. Atomic!Event = Event
  BY SameWords
<1>2. CASE UNCHANGED <<rows, lastId>>
  BY <1>2, NowMoves DEF Tick, Atomic!Next, Atomic!Wait
<1>3. ASSUME NEW r \in Refresher, Persist(r)
      PROVE  [Atomic!Next]_<<rows, lastId, now>>
  BY <1>1, <1>3, PersistIsCheck DEF Atomic!Next
<1>4. ASSUME NEW c \in Capturer, AppendWrite(c)
      PROVE  [Atomic!Next]_<<rows, lastId, now>>
  BY <1>1, <1>4, AppendIsCapture DEF Atomic!Next
<1>5. CASE SaveEvent
  BY <1>1, <1>5, SaveIsSave DEF Atomic!Next
<1>6. CASE DeleteEvent
  BY <1>1, <1>6, DeleteIsErase DEF Atomic!Next
<1> QED
  BY <1>2, <1>3, <1>4, <1>5, <1>6, RowWriters

\* No snapshot is taken and no check is stamped before its time, by calls
\* that may come back long after they loaded the row.
THEOREM NothingIsEarly == Spec => []TimeOK
<1> QED
  BY EvidenceInvariant, InitTime, NextTime, PTL DEF Spec

\* Overlapping refreshes, captures, saves and deletes of the events table act
\* like single writes, a refresh on the tickers, stamp and verdict only, a
\* capture on one day's snapshot only (update_event_market_refresh,
\* append_revisit_snapshot under BEGIN IMMEDIATE); which list a refresh writes
\* is not restricted, so one refresh may still undo another.
THEOREM EvidenceIsAtomic == Spec => ImplementsAtomicEvidence
<1>1. Init => Atomic!Init
  BY SameWords, EventBoundAssumption DEF Init, Atomic!Init
<1>2. IInv /\ TimeOK /\ [Next]_vars => [Atomic!Next]_<<rows, lastId, now>>
  BY StepIsAtomic
<1> QED
  BY <1>1, <1>2, EvidenceInvariant, NothingIsEarly, PTL
     DEF Spec, ImplementsAtomicEvidence, Atomic!Spec
=============================================================================
