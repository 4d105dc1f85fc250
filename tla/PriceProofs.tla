----------------------------- MODULE PriceProofs -----------------------------
(****************************************************************************)
(* Proofs about the price cache, for every number of threads, tickers,      *)
(* start dates and days and every period.                                   *)
(****************************************************************************)
EXTENDS PriceProperties, TLAPS

---------------------------------------------------------------------------
(* The invariant. *)

TypeInv ==
    /\ bars \in [Series -> Frame]
    /\ omitted \subseteq [series : Series, day : Day]
    /\ today \in Day
    /\ trading \in BOOLEAN
    /\ pc \in [Req -> Label]
    /\ job \in [Req -> Job]

\* Nothing is stored for a day to come.
PastInv == \A s \in Series : \A d \in Held(bars[s]) : d <= today

\* A bar that the trailing refresh still owes its final value.
Owed(s, d) ==
    /\ bars[s][d] = "open"
    /\ [series |-> s, day |-> d] \notin late \cup omitted
    /\ d >= today - Period

\* The days of a series with a close, or left without one by an answer over them.
Answered(s) == Closed(bars[s]) \cup {d \in Day : [series |-> s, day |-> d] \in omitted}

\* Within a window of today or of yesterday every day between two cached ones has
\* been answered.
Convex(s) ==
    \A e \in {today - 1, today}, a, b \in Held(bars[s]), d \in Day :
        e - Period <= a /\ a < d /\ d < b /\ b <= e => d \in Answered(s)
Settled(s) == \A d \in Day, e \in Held(bars[s]) : Owed(s, d) => e <= d
SeriesInv ==
    \A s \in Series :
        /\ Held(bars[s]) \subseteq Answered(s)
        /\ s.adjusted => Convex(s) /\ Settled(s)

\* A gap is the window, or touches days that were cached when it was planned.
Attached(gap, held, window) ==
    \/ gap = window
    \/ \E H \in SUBSET (held \cap window) :
          H # {} /\ (gap = Prefix(window, H) \/ gap = Suffix(window, H, TRUE))

GapOK(gap, k, end) ==
    /\ gap \subseteq Window(k, end)
    /\ Adjusted(k) =>
          /\ Attached(gap, Held(bars[SeriesOf(k)]), Window(k, end))
          /\ \A d \in Day : Owed(SeriesOf(k), d) /\ (\E x \in gap : x > d) => d \in gap

CallLabel == {"read", "ask", "write", "reread", "have"}
\* What a thread at label l with the locals j relies on.
ThreadOK(l, j) ==
    /\ l \in CallLabel => j.end \in {today - 1, today}
    /\ j.mode = "lookup" =>
          /\ \A k \in j.todo : Adjusted(k)
          /\ l \in CallLabel => Adjusted(j.key)
    /\ l \in {"ask", "write", "reread"} => j.mode = "fetch"
    /\ l \in {"ask", "write"} => j.gaps # <<>>
    /\ l \in {"ask", "write"} => \A i \in DOMAIN j.gaps : GapOK(j.gaps[i], j.key, j.end)
    /\ l = "write" => Held(j.frame) \subseteq Head(j.gaps)
    /\ l = "have" /\ j.mode = "lookup" /\ j.complete =>
          Window(j.key, j.end) \subseteq Answered(SeriesOf(j.key))
ThreadInv == \A r \in Req : ThreadOK(pc[r], job[r])

PriceInv == TypeInv /\ PastInv /\ SeriesInv /\ ThreadInv

---------------------------------------------------------------------------
(* Constants, windows and plans. *)

LEMMA PriceBounds == Period \in Nat /\ MaxDay \in Nat /\ MaxDay > 0 /\ Day \subseteq Nat
  BY PricesAreBounded DEF Day

LEMMA SeriesFacts ==
    ASSUME NEW k \in Key
    PROVE  SeriesOf(k) \in Series /\ (SeriesOf(k).adjusted <=> Adjusted(k))
  BY DEF SeriesOf, Series, Key, Adjusted

LEMMA WindowFacts ==
    ASSUME NEW k \in Key, NEW end \in Int
    PROVE  /\ Window(k, end) \subseteq Day
           /\ \A x \in Window(k, end) : x <= end
           /\ Adjusted(k) =>
                 \A x \in Day : x \in Window(k, end) <=> end - Period <= x /\ x <= end
<1>1. From(k, end) \in Int
  <2>1. k.start \in Start \cup {0}
    BY DEF Key, PeriodStart
  <2>2. k.start \in Int
    <3>1. 1..MaxDay \subseteq Int /\ 0 \in Int
      BY PriceBounds
    <3> QED
      BY <2>1, <3>1, StartsAreDays
  <2> QED
    BY <2>2, PriceBounds DEF From
<1> QED
  BY <1>1, PriceBounds DEF Window, From

LEMMA NoJobFacts ==
    /\ NoJob \in Job
    /\ NoJob.gaps = <<>> /\ NoJob.todo = {} /\ NoJob.mode = "fetch"
<1>1. (CHOOSE k \in Key : TRUE) \in Key
  <2>1. PICK t \in Ticker : TRUE
    BY TickersAreNamed
  <2>2. [ticker |-> t, start |-> PeriodStart] \in Key
    BY <2>1 DEF Key
  <2> QED
    BY <2>2
<1>2. 1 \in Day /\ NoFrame \in Frame
  BY PriceBounds DEF Day, NoFrame, Frame, Bar
<1> QED
  BY <1>1, <1>2 DEF NoJob, Job, Mode

LEMMA AddGapFacts ==
    ASSUME NEW gaps \in Seq(SUBSET Day), NEW gap \in SUBSET Day
    PROVE  /\ AddGap(gaps, gap) \in Seq(SUBSET Day)
           /\ \A i \in DOMAIN AddGap(gaps, gap) :
                 AddGap(gaps, gap)[i] = gap \/ \E k \in DOMAIN gaps : AddGap(gaps, gap)[i] = gaps[k]
           /\ AddGap(gaps, gap) = <<>> => gaps = <<>> /\ gap = {}
<1>1. CASE gap = {}
  BY <1>1 DEF AddGap
<1>2. CASE gap # {}
  <2>1. AddGap(gaps, gap) = Append(gaps, gap)
    BY <1>2 DEF AddGap
  <2>2. /\ Append(gaps, gap) \in Seq(SUBSET Day) /\ Len(gaps) \in Nat
        /\ Len(Append(gaps, gap)) = Len(gaps) + 1
        /\ Append(gaps, gap) # <<>>
    OBVIOUS
  <2>3. ASSUME NEW i \in DOMAIN Append(gaps, gap)
        PROVE  Append(gaps, gap)[i] = gap \/ \E k \in DOMAIN gaps : Append(gaps, gap)[i] = gaps[k]
    OBVIOUS
  <2> QED
    BY <2>1, <2>2, <2>3
<1> QED
  BY <1>1, <1>2

\* What a plan consists of.
LEMMA PlanFacts ==
    ASSUME NEW W \in SUBSET Day, NEW H \in SUBSET Day, NEW b \in BOOLEAN
    PROVE  /\ Plan(W, H, b) \in Seq(SUBSET Day)
           /\ \A i \in DOMAIN Plan(W, H, b) :
                 \/ Plan(W, H, b)[i] = W
                 \/ H # {} /\ Plan(W, H, b)[i] \in {Prefix(W, H), Suffix(W, H, b)}
           /\ Plan(W, H, b) = <<>> => H # {} /\ Prefix(W, H) = {} /\ Suffix(W, H, b) = {}
<1> DEFINE p == Prefix(W, H)
           s == Suffix(W, H, b)
           A == AddGap(<<>>, p)
<1>1. p \in SUBSET Day /\ s \in SUBSET Day /\ <<>> \in Seq(SUBSET Day)
  BY DEF Prefix, Suffix
<1>2. CASE H = {}
  BY <1>2 DEF Plan
<1>3. CASE H # {}
  <2>1. Plan(W, H, b) = AddGap(A, s)
    BY <1>3 DEF Plan
  <2> HIDE DEF p, s
  <2>2. A \in Seq(SUBSET Day) /\ (A = <<>> => p = {})
    BY <1>1, AddGapFacts
  <2>3. \A i \in DOMAIN A : A[i] = p
    <3>1. \A k \in DOMAIN <<>> : FALSE
      OBVIOUS
    <3> QED
      BY <1>1, <3>1, AddGapFacts
  <2> HIDE DEF A
  <2>4. /\ AddGap(A, s) \in Seq(SUBSET Day)
        /\ \A i \in DOMAIN AddGap(A, s) : AddGap(A, s)[i] \in {p, s}
        /\ AddGap(A, s) = <<>> => p = {} /\ s = {}
    BY <1>1, <2>2, <2>3, AddGapFacts
  <2> QED
    BY <1>3, <2>1, <2>4 DEF p, s
<1> QED
  BY <1>2, <1>3

LEMMA TrailingFacts ==
    /\ Trailing(TRUE) = 1 /\ Trailing(FALSE) = 0
    /\ \A W, H : Suffix(W, H, TRUE) = {d \in W : \A h \in H : d > h - 1}
    /\ \A W, H : Suffix(W, H, FALSE) = {d \in W : \A h \in H : d > h - 0}
  BY DEF Trailing, Suffix

---------------------------------------------------------------------------
(* Planning. *)

\* Every gap that is planned may be written later.
LEMMA PlannedGapsOK ==
    ASSUME TypeInv, SeriesInv, NEW k \in Key, NEW end \in Day, end \in {today - 1, today},
           NEW days \in Cached(k, Window(k, end)),
           NEW i \in DOMAIN Plan(Window(k, end), days, Adjusted(k))
    PROVE  GapOK(Plan(Window(k, end), days, Adjusted(k))[i], k, end)
<1> DEFINE W == Window(k, end)
           s == SeriesOf(k)
           g == Plan(W, days, Adjusted(k))[i]
<1>1. /\ W \subseteq Day /\ end \in Int
      /\ Adjusted(k) => \A x \in Day : x \in W <=> end - Period <= x /\ x <= end
  BY WindowFacts, PriceBounds
<1>2. days \in SUBSET Day /\ days \subseteq Held(bars[s]) \cap W /\ Adjusted(k) \in BOOLEAN
  BY <1>1 DEF Cached, Adjusted, Held
<1>3. g = W \/ (days # {} /\ g \in {Prefix(W, days), Suffix(W, days, Adjusted(k))})
  BY <1>1, <1>2, PlanFacts
<1>4. g \subseteq W
  BY <1>3 DEF Prefix, Suffix
<1>5. ASSUME Adjusted(k)
      PROVE  /\ Attached(g, Held(bars[s]), W)
             /\ \A d \in Day : Owed(s, d) /\ (\E x \in g : x > d) => d \in g
  <2>1. Attached(g, Held(bars[s]), W)
    BY <1>2, <1>3, <1>5 DEF Attached
  <2>2. ASSUME NEW d \in Day, Owed(s, d), NEW x \in g, x > d
        PROVE  d \in g
    <3>1. d \in W
      <4>1. d \in Int /\ x \in Int /\ today \in Int /\ Period \in Int /\ x <= end /\ d >= today - Period
        <5>1. d \in Day /\ x \in Day /\ today \in Day /\ x \in W
          BY <1>1, <1>4, <2>2 DEF TypeInv
        <5>2. Day \subseteq Int /\ Period \in Int
          BY PriceBounds
        <5>3. x <= end
          BY <5>1, <1>1, <1>5
        <5> QED
          BY <2>2, <5>1, <5>2, <5>3 DEF Owed
      <4>2. end - Period <= d /\ d <= end
        BY <1>1, <2>2, <4>1
      <4> QED
        BY <1>1, <1>5, <4>2
    <3>2. ASSUME days # {}, g = Prefix(W, days)
          PROVE  d \in g
      <4>1. x \in Day /\ \A h \in days : x < h
        BY <1>1, <1>4, <2>2, <3>2 DEF Prefix
      <4>2. ASSUME NEW h \in days
            PROVE  d < h
        <5>1. h \in Int /\ x \in Int /\ d \in Int /\ x < h
          <6>1. \A y \in Day : y \in Int
            BY PriceBounds
          <6> QED
            BY <1>2, <4>1, <6>1
        <5> QED
          BY <2>2, <5>1
      <4> QED
        BY <3>1, <3>2, <4>2 DEF Prefix
    <3>3. ASSUME days # {}, g = Suffix(W, days, TRUE)
          PROVE  d \in g
      <4>1. ASSUME NEW h \in days
            PROVE  d > h - 1
        <5>1. Settled(s) /\ h \in Held(bars[s]) /\ h \in Day
          BY <1>2, <1>5, SeriesFacts DEF SeriesInv
        <5>2. h <= d
          BY <2>2, <5>1 DEF Settled
        <5> QED
          BY <5>1, <5>2, PriceBounds
      <4> QED
        BY <3>1, <3>3, <4>1 DEF Suffix, Trailing
    <3> QED
      BY <1>3, <1>5, <3>1, <3>2, <3>3
  <2> QED
    BY <2>1, <2>2
<1> QED
  BY <1>4, <1>5 DEF GapOK

\* When a caller that does not refresh has no gap to plan, every day of its window
\* has been answered.
LEMMA EmptyPlanCovers ==
    ASSUME TypeInv, SeriesInv, NEW k \in Key, NEW end \in Day, end \in {today - 1, today},
           Adjusted(k), NEW days \in Cached(k, Window(k, end)),
           Plan(Window(k, end), days, FALSE) = <<>>
    PROVE  Window(k, end) \subseteq Answered(SeriesOf(k))
<1> DEFINE W == Window(k, end)
           s == SeriesOf(k)
<1>1. /\ W \subseteq Day /\ end \in Int
      /\ \A x \in Day : x \in W <=> end - Period <= x /\ x <= end
  BY WindowFacts, PriceBounds
<1>2. days \in SUBSET Day
  BY <1>1 DEF Cached, Held
<1>3. days # {} /\ Prefix(W, days) = {} /\ Suffix(W, days, FALSE) = {}
  BY <1>1, <1>2, PlanFacts
<1>4. days = Held(bars[s]) \cap W
  BY <1>3 DEF Cached
<1>5. SUFFICES ASSUME NEW x \in W PROVE x \in Answered(s)
  OBVIOUS
<1>6. PICK a \in days : ~(x < a)
  BY <1>3 DEF Prefix
<1>7. PICK b \in days : ~(x > b - 0)
  BY <1>3, TrailingFacts
<1>8. /\ a \in Day /\ b \in Day /\ x \in Day
      /\ a \in Int /\ b \in Int /\ x \in Int /\ a <= x /\ x <= b
  <2>1. a \in Day /\ b \in Day /\ x \in Day /\ a \in Int /\ b \in Int /\ x \in Int
    <3>1. a \in Day /\ b \in Day /\ x \in Day
      BY <1>1, <1>2, <1>5, <1>6, <1>7
    <3>2. Day \subseteq Int
      BY PriceBounds
    <3> QED
      BY <3>1, <3>2
  <2> QED
    BY <1>6, <1>7, <2>1
<1>9. end - Period <= a /\ b <= end /\ a \in Held(bars[s]) /\ b \in Held(bars[s])
  BY <1>1, <1>2, <1>4, <1>6, <1>7
<1>10. Convex(s) /\ Held(bars[s]) \subseteq Answered(s)
  BY SeriesFacts DEF SeriesInv
<1>11. CASE x = a \/ x = b
  BY <1>9, <1>10, <1>11
<1>12. CASE x # a /\ x # b
  <2>1. a < x /\ x < b
    BY <1>8, <1>12
  <2> QED
    BY <1>8, <1>9, <1>10, <2>1 DEF Convex
<1> QED
  BY <1>11, <1>12

---------------------------------------------------------------------------
(* Steps that leave the bars and the day alone. *)

LEMMA ThreadStays ==
    ASSUME NEW l, NEW j, UNCHANGED <<bars, late, omitted, today>>, ThreadOK(l, j)
    PROVE  ThreadOK(l, j)'
  BY DEF ThreadOK, GapOK, Attached, Owed, Answered

LEMMA BarsStay ==
    ASSUME UNCHANGED <<bars, late, omitted, today>>, PastInv, SeriesInv
    PROVE  PastInv' /\ SeriesInv'
  BY DEF PastInv, SeriesInv, Convex, Settled, Owed, Answered

\* One thread moves to label l with the locals j.
LEMMA ThreadMoves ==
    ASSUME TypeInv, PastInv, SeriesInv, ThreadInv, UNCHANGED <<bars, late, omitted, today, trading>>,
           NEW r \in Req, NEW l \in Label, NEW j \in Job, ThreadOK(l, j),
           pc' = [pc EXCEPT ![r] = l], job' = [job EXCEPT ![r] = j]
    PROVE  PriceInv'
<1>1. TypeInv'
  BY DEF TypeInv
<1>2. ASSUME NEW q \in Req
      PROVE  ThreadOK(pc[q], job[q])'
  <2>1. ThreadOK(pc'[q], job'[q])
    BY DEF TypeInv, ThreadInv
  <2>2. PICK l2, j2 : l2 = pc'[q] /\ j2 = job'[q]
    OBVIOUS
  <2>3. ThreadOK(l2, j2)'
    BY <2>1, <2>2, ThreadStays
  <2> QED
    BY <2>2, <2>3
<1> QED
  BY <1>1, <1>2, BarsStay DEF PriceInv, ThreadInv

\* A thread that is not in a call relies on its keys only.
LEMMA BetweenCalls ==
    ASSUME NEW l, NEW j, l \notin CallLabel, j.mode = "lookup" => \A k \in j.todo : Adjusted(k)
    PROVE  ThreadOK(l, j)
  BY DEF ThreadOK, CallLabel

\* The locals of thread r, and where it is.
LEMMA ThreadHas ==
    ASSUME PriceInv, NEW r \in Req
    PROVE  /\ ThreadOK(pc[r], job[r])
           /\ pc[r] \in Label
           /\ job[r] \in Job
           /\ job[r].mode \in Mode /\ job[r].todo \subseteq Key /\ job[r].key \in Key
           /\ job[r].end \in Day /\ job[r].gaps \in Seq(SUBSET Day) /\ job[r].frame \in Frame
           /\ job[r].days \in SUBSET Day /\ job[r].reads \in SUBSET Ticker
           /\ today \in Day /\ today \in Int /\ job[r].end \in Int
<1>1. /\ ThreadOK(pc[r], job[r])
      /\ pc[r] \in Label
      /\ job[r] \in Job
      /\ job[r].mode \in Mode /\ job[r].todo \subseteq Key /\ job[r].key \in Key
      /\ job[r].end \in Day /\ job[r].gaps \in Seq(SUBSET Day) /\ job[r].frame \in Frame
      /\ job[r].days \in SUBSET Day /\ job[r].reads \in SUBSET Ticker
      /\ today \in Day
  BY DEF PriceInv, TypeInv, ThreadInv, Job
<1>2. \A d \in Day : d \in Int
  BY PriceBounds
<1> QED
  BY <1>1, <1>2

LEMMA LabelsAre ==
    /\ {"idle", "next", "evict"} \cup CallLabel \subseteq Label
    /\ "idle" \notin CallLabel /\ "next" \notin CallLabel /\ "evict" \notin CallLabel
  BY DEF Label, CallLabel

LEMMA StartReadStep ==
    ASSUME PriceInv, NEW r \in Req, NEW mode \in Mode, NEW keys \in SUBSET Key,
           StartRead(r, mode, keys)
    PROVE  PriceInv'
<1> DEFINE j == [NoJob EXCEPT !.mode = mode, !.todo = keys]
<1>1. j \in Job /\ j.mode = mode /\ j.todo = keys
  BY NoJobFacts DEF Job
<1>2. mode = "lookup" => \A k \in keys : Adjusted(k)
  BY DEF StartRead
<1>3. ThreadOK("next", j)
  BY <1>1, <1>2, LabelsAre, BetweenCalls
<1>4. /\ pc' = [pc EXCEPT ![r] = "next"] /\ job' = [job EXCEPT ![r] = j]
      /\ UNCHANGED <<bars, late, omitted, today, trading>>
  BY DEF StartRead, Goto
<1> HIDE DEF j
<1> QED
  BY <1>1, <1>3, <1>4, LabelsAre, ThreadMoves DEF PriceInv

LEMMA HitStep ==
    ASSUME PriceInv, NEW r \in Req, NEW k \in Key, Hit(r, k)
    PROVE  PriceInv'
<1> DEFINE j == [job[r] EXCEPT !.todo = @ \ {k}]
<1>1. j \in Job /\ j.mode = job[r].mode /\ j.todo = job[r].todo \ {k}
  BY ThreadHas DEF Job
<1>2. job[r].mode = "lookup" => \A x \in job[r].todo : Adjusted(x)
  BY ThreadHas DEF ThreadOK
<1>3. ThreadOK("next", j)
  BY <1>1, <1>2, LabelsAre, BetweenCalls
<1>4. /\ pc' = [pc EXCEPT ![r] = "next"] /\ job' = [job EXCEPT ![r] = j]
      /\ UNCHANGED <<bars, late, omitted, today, trading>>
  BY DEF Hit, PriceInv, TypeInv
<1> HIDE DEF j
<1> QED
  BY <1>1, <1>3, <1>4, LabelsAre, ThreadMoves DEF PriceInv

LEMMA MissStep ==
    ASSUME PriceInv, NEW r \in Req, NEW k \in Key, Miss(r, k)
    PROVE  PriceInv'
<1> DEFINE j == [job[r] EXCEPT !.todo = @ \ {k}, !.key = k, !.end = today]
<1>1. j \in Job /\ j.mode = job[r].mode /\ j.todo = job[r].todo \ {k} /\ j.key = k /\ j.end = today
  BY ThreadHas DEF Job
<1>2. job[r].mode = "lookup" => \A x \in job[r].todo : Adjusted(x)
  BY ThreadHas DEF ThreadOK
<1>3. k \in job[r].todo
  BY DEF Miss
<1>4. ThreadOK("read", j)
  BY <1>1, <1>2, <1>3 DEF ThreadOK
<1>5. /\ pc' = [pc EXCEPT ![r] = "read"] /\ job' = [job EXCEPT ![r] = j]
      /\ UNCHANGED <<bars, late, omitted, today, trading>>
  BY DEF Miss, Goto, PriceInv, TypeInv
<1> HIDE DEF j
<1> QED
  BY <1>1, <1>4, <1>5, LabelsAre, ThreadMoves DEF PriceInv, CallLabel

\* The call is over and the next window is up.
LEMMA AdvanceStep ==
    ASSUME PriceInv, NEW r \in Req, Advance(r), UNCHANGED <<bars, late, omitted, today, trading>>
    PROVE  PriceInv'
<1> DEFINE j == [NoJob EXCEPT !.mode = job[r].mode, !.todo = job[r].todo, !.reads = job[r].reads]
<1>1. j \in Job /\ j.mode = job[r].mode /\ j.todo = job[r].todo
  BY ThreadHas, NoJobFacts DEF Job
<1>2. job[r].mode = "lookup" => \A x \in job[r].todo : Adjusted(x)
  BY ThreadHas DEF ThreadOK
<1>3. ThreadOK("next", j)
  BY <1>1, <1>2, LabelsAre, BetweenCalls
<1>4. pc' = [pc EXCEPT ![r] = "next"] /\ job' = [job EXCEPT ![r] = j]
  BY DEF Advance, Goto
<1> HIDE DEF j
<1> QED
  BY <1>1, <1>3, <1>4, LabelsAre, ThreadMoves DEF PriceInv

LEMMA FinishStep ==
    ASSUME PriceInv, NEW r \in Req, Finish(r), UNCHANGED <<bars, late, omitted, today, trading>>
    PROVE  PriceInv'
<1>1. ThreadOK("idle", NoJob)
  BY NoJobFacts, LabelsAre, BetweenCalls
<1>2. pc' = [pc EXCEPT ![r] = "idle"] /\ job' = [job EXCEPT ![r] = NoJob]
  BY DEF Finish, Goto
<1> QED
  BY <1>1, <1>2, NoJobFacts, LabelsAre, ThreadMoves DEF PriceInv

LEMMA EndReadStep ==
    ASSUME PriceInv, NEW r \in Req, EndRead(r)
    PROVE  PriceInv'
<1>1. CASE job[r].mode = "lookup"
  <2> DEFINE j == [job[r] EXCEPT !.todo = {}]
  <2>1. j \in Job /\ j.todo = {}
    BY ThreadHas DEF Job
  <2>2. ThreadOK("evict", j)
    BY <2>1, LabelsAre, BetweenCalls
  <2>3. /\ pc' = [pc EXCEPT ![r] = "evict"] /\ job' = [job EXCEPT ![r] = j]
        /\ UNCHANGED <<bars, late, omitted, today, trading>>
    BY <1>1 DEF EndRead, Goto
  <2> HIDE DEF j
  <2> QED
    BY <2>1, <2>2, <2>3, LabelsAre, ThreadMoves DEF PriceInv
<1>2. CASE job[r].mode # "lookup"
  BY <1>2, FinishStep DEF EndRead
<1> QED
  BY <1>1, <1>2

---------------------------------------------------------------------------
(* The steps of a call. *)

LEMMA PlanFetchStep ==
    ASSUME PriceInv, NEW r \in Req, PlanFetch(r)
    PROVE  PriceInv'
<1> DEFINE k == job[r].key
           W == Window(k, job[r].end)
<1>1. /\ pc[r] = "read" /\ job[r].mode = "fetch"
      /\ UNCHANGED <<bars, late, omitted, today, trading>>
  BY DEF PlanFetch
<1>2. job[r].end \in {today - 1, today} /\ k \in Key /\ W \subseteq Day /\ Adjusted(k) \in BOOLEAN
  <2>1. k \in Key /\ job[r].end \in Int /\ Adjusted(k) \in BOOLEAN
    BY ThreadHas DEF Adjusted
  <2>2. job[r].end \in {today - 1, today}
    BY <1>1, ThreadHas DEF ThreadOK, CallLabel
  <2> QED
    BY <2>1, <2>2, WindowFacts
<1>3. PICK days \in Cached(k, W) :
          LET gaps == Plan(W, days, Adjusted(k)) IN
          IF gaps = <<>>
          THEN Goto(r, "have") /\ job' = [job EXCEPT ![r].days = days]
          ELSE Goto(r, "ask") /\ job' = [job EXCEPT ![r].gaps = gaps]
  BY DEF PlanFetch
<1> DEFINE gaps == Plan(W, days, Adjusted(k))
<1>4. days \in SUBSET Day
  BY <1>2 DEF Cached, Held
<1>5. gaps \in Seq(SUBSET Day)
  BY <1>2, <1>4, PlanFacts
<1>6. CASE gaps = <<>>
  <2> DEFINE j == [job[r] EXCEPT !.days = days]
  <2>1. /\ j \in Job /\ j.mode = "fetch" /\ j.end = job[r].end
    BY <1>1, <1>4, ThreadHas DEF Job
  <2>2. ThreadOK("have", j)
    BY <1>2, <2>1 DEF ThreadOK
  <2>3. pc' = [pc EXCEPT ![r] = "have"] /\ job' = [job EXCEPT ![r] = j]
    BY <1>3, <1>6 DEF Goto, PriceInv, TypeInv
  <2> HIDE DEF j
  <2> QED
    BY <1>1, <2>1, <2>2, <2>3, LabelsAre, ThreadMoves DEF PriceInv, CallLabel
<1>7. CASE gaps # <<>>
  <2> DEFINE j == [job[r] EXCEPT !.gaps = gaps]
  <2>1. /\ j \in Job /\ j.mode = "fetch" /\ j.end = job[r].end /\ j.key = k /\ j.gaps = gaps
    BY <1>1, <1>5, ThreadHas DEF Job
  <2>2. \A i \in DOMAIN gaps : GapOK(gaps[i], k, job[r].end)
    BY <1>2, <1>3, ThreadHas, PlannedGapsOK DEF PriceInv
  <2> HIDE DEF gaps
  <2>3. ThreadOK("ask", j)
    BY <1>2, <1>7, <2>1, <2>2 DEF ThreadOK, gaps
  <2>4. pc' = [pc EXCEPT ![r] = "ask"] /\ job' = [job EXCEPT ![r] = j]
    BY <1>3, <1>7 DEF Goto, PriceInv, TypeInv, gaps
  <2> HIDE DEF j
  <2> QED
    BY <1>1, <2>1, <2>3, <2>4, LabelsAre, ThreadMoves DEF PriceInv, CallLabel
<1> QED
  BY <1>6, <1>7

LEMMA ReadBlockedStep ==
    ASSUME PriceInv, NEW r \in Req, ReadBlocked(r)
    PROVE  PriceInv'
<1> DEFINE k == job[r].key
           W == Window(k, job[r].end)
<1>1. /\ pc[r] = "read" /\ job[r].mode # "fetch"
      /\ UNCHANGED <<bars, late, omitted, today, trading>>
  BY DEF ReadBlocked
<1>2. job[r].end \in {today - 1, today} /\ k \in Key /\ W \subseteq Day
  <2>1. k \in Key /\ job[r].end \in Int
    BY ThreadHas
  <2>2. job[r].end \in {today - 1, today}
    BY <1>1, ThreadHas DEF ThreadOK, CallLabel
  <2> QED
    BY <2>1, <2>2, WindowFacts
<1>3. PICK days \in Cached(k, W) :
          job' = [job EXCEPT
              ![r].days = days,
              ![r].reads = IF job[r].mode = "lookup" THEN @ \cup {k.ticker} ELSE @,
              ![r].complete = (Plan(W, days, FALSE) = <<>>)]
  BY DEF ReadBlocked
<1> DEFINE reads == IF job[r].mode = "lookup" THEN job[r].reads \cup {k.ticker} ELSE job[r].reads
           complete == (Plan(W, days, FALSE) = <<>>)
           j == [job[r] EXCEPT !.days = days, !.reads = reads, !.complete = complete]
<1>4. days \in SUBSET Day /\ reads \in SUBSET Ticker /\ complete \in BOOLEAN
  BY <1>2, ThreadHas DEF Cached, Held, Key
<1> HIDE DEF reads
<1>5. /\ j \in Job /\ j.mode = job[r].mode /\ j.todo = job[r].todo /\ j.key = k
      /\ j.end = job[r].end /\ j.days = days /\ (j.complete <=> complete)
  <2> HIDE DEF complete
  <2> QED
    BY <1>4, ThreadHas DEF Job
<1>6. /\ job[r].mode = "lookup" => Adjusted(k)
      /\ job[r].mode = "lookup" => \A x \in job[r].todo : Adjusted(x)
  BY <1>1, ThreadHas DEF ThreadOK, CallLabel
<1>7. job[r].mode = "lookup" /\ complete => W \subseteq Answered(SeriesOf(k))
  BY <1>2, <1>3, <1>6, ThreadHas, EmptyPlanCovers DEF PriceInv
<1>8. ThreadOK("have", j)
  <2> HIDE DEF j, complete, W
  <2>1. Window(j.key, j.end) = W
    BY <1>5 DEF W
  <2> QED
    BY <1>2, <1>5, <1>6, <1>7, <2>1 DEF ThreadOK
<1>9. pc' = [pc EXCEPT ![r] = "have"] /\ job' = [job EXCEPT ![r] = j]
  BY <1>3 DEF ReadBlocked, Goto, PriceInv, TypeInv, reads
<1> HIDE DEF j
<1> QED
  BY <1>1, <1>5, <1>8, <1>9, LabelsAre, ThreadMoves DEF PriceInv, CallLabel

LEMMA RereadStep ==
    ASSUME PriceInv, NEW r \in Req, Reread(r)
    PROVE  PriceInv'
<1> DEFINE W == Window(job[r].key, job[r].end)
<1>1. pc[r] = "reread" /\ UNCHANGED <<bars, late, omitted, today, trading>>
  BY DEF Reread
<1>2. /\ job[r].end \in {today - 1, today} /\ job[r].mode = "fetch"
      /\ W \subseteq Day
  <2>1. job[r].key \in Key /\ job[r].end \in Int
    BY ThreadHas
  <2>2. job[r].end \in {today - 1, today} /\ job[r].mode = "fetch"
    BY <1>1, ThreadHas DEF ThreadOK, CallLabel
  <2> QED
    BY <2>1, <2>2, WindowFacts
<1>3. PICK days \in Cached(job[r].key, W) : job' = [job EXCEPT ![r].days = days]
  BY DEF Reread
<1> DEFINE j == [job[r] EXCEPT !.days = days]
<1>4. j \in Job /\ j.mode = "fetch" /\ j.end = job[r].end
  BY <1>2, <1>3, ThreadHas DEF Job, Cached, Held
<1>5. ThreadOK("have", j)
  BY <1>2, <1>4 DEF ThreadOK
<1>6. pc' = [pc EXCEPT ![r] = "have"] /\ job' = [job EXCEPT ![r] = j]
  BY <1>3 DEF Reread, Goto, PriceInv, TypeInv
<1> HIDE DEF j
<1> QED
  BY <1>1, <1>4, <1>5, <1>6, LabelsAre, ThreadMoves DEF PriceInv, CallLabel

LEMMA QuoteFacts ==
    ASSUME NEW d \in Day
    PROVE  Quote(d) \in {"open", "final"} /\ (Quote(d) = "open" => d = today)
  BY DEF Quote

LEMMA AnswerFacts ==
    ASSUME NEW days \in SUBSET Day, NEW nulls \in SUBSET days
    PROVE  Answer(days, nulls) \in Frame /\ Held(Answer(days, nulls)) = days
<1>1. \A d \in Day : Answer(days, nulls)[d] =
          IF d \in nulls THEN "null" ELSE IF d \in days THEN Quote(d) ELSE "none"
  BY DEF Answer
<1>2. Answer(days, nulls) \in Frame
  BY QuoteFacts DEF Answer, Frame, Bar
<1> QED
  BY <1>1, <1>2, QuoteFacts DEF Held

LEMMA AskProviderStep ==
    ASSUME PriceInv, NEW r \in Req, AskProvider(r)
    PROVE  PriceInv'
<1> DEFINE k == job[r].key
           e == job[r].end
           gaps == job[r].gaps
           g == Head(gaps)
<1>1. pc[r] = "ask" /\ UNCHANGED <<bars, late, omitted, today, trading>>
  BY DEF AskProvider
<1>2. /\ e \in {today - 1, today} /\ job[r].mode = "fetch"
      /\ gaps # <<>> /\ \A i \in DOMAIN gaps : GapOK(gaps[i], k, e)
  BY <1>1, ThreadHas DEF ThreadOK, CallLabel
<1>3. gaps \in Seq(SUBSET Day) /\ k \in Key /\ e \in Int /\ e <= today /\ today \in Int
  BY <1>2, ThreadHas
<1>4. ASSUME gaps # <<>>
      PROVE  /\ g \in SUBSET Day /\ GapOK(g, k, e)
             /\ Tail(gaps) \in Seq(SUBSET Day)
             /\ \A i \in DOMAIN Tail(gaps) : GapOK(Tail(gaps)[i], k, e)
  <2>1. /\ Tail(gaps) \in Seq(SUBSET Day) /\ g = gaps[1] /\ 1 \in DOMAIN gaps
        /\ \A i \in DOMAIN Tail(gaps) : Tail(gaps)[i] = gaps[i + 1] /\ i + 1 \in DOMAIN gaps
    BY <1>3, <1>4
  <2> QED
    BY <1>2, <1>3, <2>1
<1>5. ASSUME NEW days \in SUBSET g, NEW nulls \in SUBSET g, nulls \subseteq days,
             job' = [job EXCEPT ![r].frame = Answer(days, nulls)], Goto(r, "write")
      PROVE  PriceInv'
  <2> DEFINE f == Answer(days, nulls)
             j == [job[r] EXCEPT !.frame = f]
  <2>1. f \in Frame /\ Held(f) \subseteq g
    <3>1. days \in SUBSET Day /\ nulls \in SUBSET days
      BY <1>2, <1>4, <1>5
    <3> QED
      BY <3>1, AnswerFacts
  <2> HIDE DEF f
  <2>2. /\ j \in Job /\ j.mode = "fetch" /\ j.end = e /\ j.key = k
        /\ j.gaps = gaps /\ j.frame = f
    BY <1>2, <2>1, ThreadHas DEF Job
  <2>3. ThreadOK("write", j)
    <3> HIDE DEF j, g
    <3> QED
      BY <1>2, <2>1, <2>2 DEF ThreadOK, g
  <2>4. pc' = [pc EXCEPT ![r] = "write"] /\ job' = [job EXCEPT ![r] = j]
    BY <1>5 DEF Goto, PriceInv, TypeInv, f
  <2> HIDE DEF j
  <2> QED
    BY <1>1, <2>2, <2>3, <2>4, LabelsAre, ThreadMoves DEF PriceInv, CallLabel
<1>6. CASE gaps # <<>> /\ job' = [job EXCEPT ![r].gaps = Tail(@)]
                       /\ Goto(r, AfterGap(Tail(gaps)))
  <2> DEFINE j == [job[r] EXCEPT !.gaps = Tail(gaps)]
             l == AfterGap(Tail(gaps))
  <2>1. j \in Job /\ j.mode = "fetch" /\ j.end = e /\ j.key = k /\ j.gaps = Tail(gaps)
    BY <1>2, <1>4, <1>6, ThreadHas DEF Job
  <2>2. l \in {"ask", "reread"} /\ (l = "ask" => Tail(gaps) # <<>>)
    BY DEF AfterGap
  <2>3. pc' = [pc EXCEPT ![r] = l] /\ job' = [job EXCEPT ![r] = j]
    BY <1>6 DEF Goto, PriceInv, TypeInv
  <2> HIDE DEF j, l
  <2>4. ThreadOK(l, j)
    BY <1>2, <1>4, <1>6, <2>1, <2>2 DEF ThreadOK
  <2> QED
    BY <1>1, <2>1, <2>2, <2>3, <2>4, LabelsAre, ThreadMoves DEF PriceInv, CallLabel
<1> QED
  BY <1>2, <1>5, <1>6 DEF AskProvider

---------------------------------------------------------------------------
(* Writing bars. *)

\* The bars and the ghosts after thread r has written its frame.
Written(r) ==
    LET s == SeriesOf(job[r].key)
        frame == job[r].frame
    IN
    /\ bars' = [bars EXCEPT ![s] = Upsert(@, frame)]
    /\ late' = {l \in late \cup StaleBars(s, frame) : bars'[l.series][l.day] = "open"}
    /\ omitted' = (omitted \cup DaysOf(s, Head(job[r].gaps))) \ DaysOf(s, Closed(frame))

\* The gap that thread r has an answer for.
LEMMA WritingHas ==
    ASSUME PriceInv, NEW r \in Req, pc[r] = "write"
    PROVE  /\ job[r].gaps # <<>> /\ job[r].end \in {today - 1, today}
           /\ Head(job[r].gaps) \in SUBSET Day
           /\ Held(job[r].frame) \subseteq Head(job[r].gaps)
           /\ GapOK(Head(job[r].gaps), job[r].key, job[r].end)
<1>1. /\ job[r].gaps # <<>> /\ job[r].gaps \in Seq(SUBSET Day)
      /\ job[r].end \in {today - 1, today}
      /\ Held(job[r].frame) \subseteq Head(job[r].gaps)
      /\ \A i \in DOMAIN job[r].gaps : GapOK(job[r].gaps[i], job[r].key, job[r].end)
  BY ThreadHas DEF ThreadOK, CallLabel
<1>2. 1 \in DOMAIN job[r].gaps /\ Head(job[r].gaps) = job[r].gaps[1]
  BY <1>1
<1> QED
  BY <1>1, <1>2

LEMMA WrittenBars ==
    ASSUME PriceInv, NEW r \in Req, Written(r)
    PROVE  LET s == SeriesOf(job[r].key)
               f == job[r].frame IN
           /\ bars' \in [Series -> Frame]
           /\ \A q \in Series : q # s => bars'[q] = bars[q]
           /\ \A d \in Day : bars'[s][d] = IF f[d] # "none" THEN f[d] ELSE bars[s][d]
           /\ Held(bars'[s]) = Held(bars[s]) \cup Held(f)
<1> DEFINE s == SeriesOf(job[r].key)
           f == job[r].frame
<1>1. s \in Series /\ f \in Frame /\ bars \in [Series -> Frame]
  BY ThreadHas, SeriesFacts DEF PriceInv, TypeInv
<1>2. Upsert(bars[s], f) \in Frame
  BY <1>1 DEF Upsert, Frame, Bar
<1>3. bars' = [bars EXCEPT ![s] = Upsert(bars[s], f)]
  BY DEF Written
<1>4. /\ bars' \in [Series -> Frame] /\ bars'[s] = Upsert(bars[s], f)
      /\ \A q \in Series : q # s => bars'[q] = bars[q]
  BY <1>1, <1>2, <1>3
<1>5. \A d \in Day : bars'[s][d] = IF f[d] # "none" THEN f[d] ELSE bars[s][d]
  BY <1>4 DEF Upsert
<1> QED
  BY <1>4, <1>5 DEF Held

\* The day x of series q counts as left out afterwards.
LEMMA WrittenOmitted ==
    ASSUME PriceInv, NEW r \in Req, Written(r), NEW q, NEW x
    PROVE  [series |-> q, day |-> x] \in omitted' <=>
               /\ \/ [series |-> q, day |-> x] \in omitted
                  \/ q = SeriesOf(job[r].key) /\ x \in Head(job[r].gaps)
               /\ ~ (q = SeriesOf(job[r].key) /\ x \in Closed(job[r].frame))
<1>1. ASSUME NEW days
      PROVE  [series |-> q, day |-> x] \in DaysOf(SeriesOf(job[r].key), days) <=>
                 q = SeriesOf(job[r].key) /\ x \in days
  BY DEF DaysOf
<1> QED
  BY <1>1 DEF Written

\* A write answers its gap, and what was answered stays so.
LEMMA WrittenAnswered ==
    ASSUME PriceInv, NEW r \in Req, pc[r] = "write", Written(r), NEW q \in Series
    PROVE  /\ Answered(q) \subseteq Answered(q)'
           /\ q = SeriesOf(job[r].key) => Head(job[r].gaps) \subseteq Answered(q)'
           /\ Held(bars'[q]) \subseteq Answered(q)'
<1> DEFINE s == SeriesOf(job[r].key)
           f == job[r].frame
           g == Head(job[r].gaps)
<1>1. Held(f) \subseteq g /\ g \in SUBSET Day /\ f \in Frame
  BY WritingHas, ThreadHas
<1>2. Held(bars[q]) \subseteq Answered(q)
  BY DEF PriceInv, SeriesInv
<1>3. CASE q # s
  <2>1. bars'[q] = bars[q]
    BY <1>3, WrittenBars
  <2>2. \A x \in Day : [series |-> q, day |-> x] \in omitted' <=> [series |-> q, day |-> x] \in omitted
    BY <1>3, WrittenOmitted
  <2> QED
    BY <1>2, <1>3, <2>1, <2>2 DEF Answered
<1>4. CASE q = s
  <2>1. \A d \in Day : bars'[q][d] = IF f[d] # "none" THEN f[d] ELSE bars[q][d]
    BY <1>4, WrittenBars
  <2>2. ASSUME NEW d \in Day, d \in g \/ d \in Answered(q)
        PROVE  d \in Answered(q)'
    <3>1. CASE d \in Closed(f)
      BY <2>1, <3>1 DEF Answered, Closed
    <3>2. CASE d \notin Closed(f) /\ f[d] # "none"
      <4>1. d \in g
        BY <1>1, <3>2 DEF Held
      <4>2. [series |-> q, day |-> d] \in omitted'
        BY <1>4, <3>2, <4>1, WrittenOmitted
      <4> QED
        BY <4>2 DEF Answered
    <3>3. CASE f[d] = "none"
      <4>1. d \notin Closed(f) /\ bars'[q][d] = bars[q][d]
        BY <2>1, <3>3 DEF Closed
      <4>2. CASE d \in Closed(bars[q])
        BY <4>1, <4>2 DEF Answered, Closed
      <4>3. CASE d \in g \/ [series |-> q, day |-> d] \in omitted
        <5>1. [series |-> q, day |-> d] \in omitted'
          BY <1>4, <4>1, <4>3, WrittenOmitted
        <5> QED
          BY <5>1 DEF Answered
      <4> QED
        BY <2>2, <4>2, <4>3 DEF Answered
    <3> QED
      BY <3>1, <3>2, <3>3
  <2>3. Answered(q) \subseteq Day
    BY DEF Answered, Closed
  <2>4. Held(bars'[q]) \subseteq Held(bars[q]) \cup g
    BY <1>1, <1>4, WrittenBars
  <2> QED
    BY <1>1, <1>2, <2>2, <2>3, <2>4
<1> QED
  BY <1>3, <1>4

\* What is owed afterwards was owed before and is not of the gap that was
\* answered, or is of today.
LEMMA WrittenOwed ==
    ASSUME PriceInv, NEW r \in Req, pc[r] = "write", Written(r), UNCHANGED <<today, trading>>,
           NEW q \in Series, NEW d \in Day, Owed(q, d)'
    PROVE  \/ d = today
           \/ /\ Owed(q, d)
              /\ q = SeriesOf(job[r].key) => d \notin Head(job[r].gaps)
<1> DEFINE s == SeriesOf(job[r].key)
           f == job[r].frame
           g == Head(job[r].gaps)
           x == [series |-> q, day |-> d]
<1>1. bars'[q][d] = "open" /\ x \notin late' /\ x \notin omitted' /\ d >= today - Period
  BY DEF Owed
<1>2. x \notin late \cup StaleBars(s, f)
  <2>1. bars'[x.series][x.day] = "open"
    BY <1>1
  <2> HIDE DEF x
  <2> QED
    BY <1>1, <2>1 DEF Written
<1>3. CASE q = s /\ d \in g
  <2>1. d \in Closed(f)
    BY <1>1, <1>3, WrittenOmitted
  <2>2. f[d] = "open"
    BY <1>1, <1>3, <2>1, WrittenBars DEF Closed
  <2>3. Quote(d) # "final"
    BY <1>2, <1>3, <2>2 DEF StaleBars
  <2> QED
    BY <2>3, QuoteFacts
<1>4. CASE ~(q = s /\ d \in g)
  <2>1. q = s => f[d] = "none"
    BY <1>4, WritingHas DEF Held
  <2>2. bars[q][d] = "open"
    BY <1>1, <2>1, WrittenBars
  <2>3. q = s => d \notin Closed(f)
    BY <2>1 DEF Closed
  <2>4. x \notin omitted
    BY <1>1, <2>3, WrittenOmitted
  <2> QED
    BY <1>1, <1>2, <1>4, <2>2, <2>4 DEF Owed
<1> QED
  BY <1>3, <1>4

LEMMA WrittenPast ==
    ASSUME PriceInv, NEW r \in Req, pc[r] = "write", Written(r), UNCHANGED <<today, trading>>
    PROVE  PastInv'
<1> DEFINE k == job[r].key
           f == job[r].frame
<1>1. Held(f) \subseteq Window(k, job[r].end) /\ job[r].end \in {today - 1, today}
  BY WritingHas DEF GapOK
<1>2. \A d \in Held(f) : d <= today
  <2> TAKE d \in Held(f)
  <2>1. d <= job[r].end /\ d \in Day
    BY <1>1, ThreadHas, WindowFacts
  <2>2. d \in Int
    BY <2>1, PriceBounds
  <2> QED
    BY <1>1, <2>1, <2>2, ThreadHas
<1>3. ASSUME NEW s \in Series, NEW d \in Held(bars'[s])
      PROVE  d <= today
  BY <1>2, <1>3, WrittenBars DEF PriceInv, PastInv
<1> QED
  BY <1>3 DEF PastInv, Held

LEMMA WrittenConvex ==
    ASSUME PriceInv, NEW r \in Req, pc[r] = "write", Written(r), UNCHANGED <<today, trading>>,
           NEW s \in Series, s.adjusted
    PROVE  Convex(s)'
<1> DEFINE k == job[r].key
           e == job[r].end
           g == Head(job[r].gaps)
           W == Window(k, e)
           H == Held(bars[s])
<1>1. Convex(s) /\ H \subseteq Answered(s) /\ Answered(s) \subseteq Answered(s)'
  BY WrittenAnswered DEF PriceInv, SeriesInv
<1>2. CASE s # SeriesOf(k)
  <2>1. bars'[s] = bars[s]
    BY <1>2, WrittenBars
  <2> QED
    BY <1>1, <2>1 DEF Convex, Held
<1>3. CASE s = SeriesOf(k)
  <2>1. /\ Adjusted(k) /\ e \in {today - 1, today} /\ g \subseteq W /\ Attached(g, H, W)
    BY <1>3, ThreadHas, WritingHas, SeriesFacts DEF GapOK
  <2>2. /\ W \subseteq Day
        /\ \A x \in Day : x \in W <=> e - Period <= x /\ x <= e
    BY <2>1, ThreadHas, WindowFacts
  <2>3. Held(bars'[s]) \subseteq H \cup g /\ H \subseteq Day /\ g \subseteq Answered(s)'
    <3>1. Held(bars'[s]) = H \cup Held(job[r].frame) /\ H \subseteq Day
      BY <1>3, WrittenBars DEF Held
    <3> QED
      BY <1>3, <3>1, WritingHas, WrittenAnswered
  <2>4. /\ \A x \in Day : x \in Int
        /\ today \in Int /\ e \in Int /\ Period \in Int
    BY ThreadHas, PriceBounds
  <2> SUFFICES ASSUME NEW c \in {today - 1, today}, NEW a \in H \cup g, NEW b \in H \cup g,
                      NEW d \in Day, c - Period <= a, a < d, d < b, b <= c, d \notin g
               PROVE  d \in Answered(s)
    BY <1>1, <2>3 DEF Convex
  <2>5. /\ a \in Day /\ b \in Day /\ a \in Int /\ b \in Int /\ d \in Int
    BY <2>1, <2>2, <2>3, <2>4
  <2>6. CASE a \in H /\ b \in H
    BY <1>1, <2>6 DEF Convex
  \* Nothing is between the window of yesterday and that of today.
  <2>7. d <= e /\ e - Period <= d
    BY <2>1, <2>4, <2>5
  <2>8. d \in W
    BY <2>2, <2>7
  <2>9. CASE ~(a \in H /\ b \in H)
    <3>1. PICK X \in SUBSET (H \cap W) :
              X # {} /\ (g = Prefix(W, X) \/ g = Suffix(W, X, TRUE))
      BY <2>1, <2>8 DEF Attached
    <3>2. CASE g = Prefix(W, X)
      <4>1. PICK h \in X : ~(d < h)
        BY <2>8, <3>1, <3>2 DEF Prefix
      <4>2. h \in H /\ h \in Day /\ h \in Int /\ h <= d
        <5>1. h \in H /\ h \in Day
          BY <2>3, <3>1, <4>1
        <5>2. h \in Int
          BY <2>4, <5>1
        <5> QED
          BY <2>5, <4>1, <5>1, <5>2
      <4>3. b \notin g
        BY <2>5, <3>2, <4>1, <4>2 DEF Prefix
      <4>4. a \in g /\ b \in H
        BY <2>9, <4>3
      <4>5. a < h
        BY <3>2, <4>1, <4>4 DEF Prefix
      <4>6. c - Period <= h
        BY <2>4, <2>5, <4>2, <4>5
      <4>7. CASE h = d
        BY <1>1, <4>2, <4>7
      <4>8. CASE h < d
        BY <1>1, <4>2, <4>4, <4>6, <4>8 DEF Convex
      <4> QED
        BY <2>5, <4>2, <4>7, <4>8
    <3>3. CASE g = Suffix(W, X, TRUE)
      <4>1. PICK h \in X : ~(d > h - 1)
        BY <2>8, <3>1, <3>3 DEF Suffix, Trailing
      <4>2. h \in H /\ h \in Day /\ h \in Int /\ d < h
        <5>1. h \in H /\ h \in Day
          BY <2>3, <3>1, <4>1
        <5>2. h \in Int
          BY <2>4, <5>1
        <5>3. ~(d > h - 1)
          BY <4>1
        <5> QED
          BY <2>5, <5>1, <5>2, <5>3
      <4>3. a \notin g
        <5>1. \A x \in g : x > h - 1
          BY <3>3, <4>1 DEF Suffix, Trailing
        <5> QED
          BY <2>5, <4>2, <5>1
      <4>4. a \in H /\ b \in g
        BY <2>9, <4>3
      <4>5. h <= b
        <5>1. b > h - 1
          BY <3>3, <4>1, <4>4 DEF Suffix, Trailing
        <5> QED
          BY <2>5, <4>2, <5>1
      <4>6. h <= c
        BY <2>4, <2>5, <4>2, <4>5
      <4> QED
        BY <1>1, <4>2, <4>4, <4>6 DEF Convex
    <3> QED
      BY <3>1, <3>2, <3>3
  <2> QED
    BY <2>6, <2>9
<1> QED
  BY <1>2, <1>3

LEMMA WrittenSettled ==
    ASSUME PriceInv, NEW r \in Req, pc[r] = "write", Written(r), UNCHANGED <<today, trading>>,
           NEW s \in Series, s.adjusted
    PROVE  Settled(s)'
<1> DEFINE k == job[r].key
           g == Head(job[r].gaps)
<1>1. \A e \in Held(bars'[s]) : e <= today
  BY WrittenPast DEF PastInv, Held
<1> SUFFICES ASSUME NEW d \in Day, NEW e \in Held(bars'[s]), Owed(s, d)'
             PROVE  e <= d
  BY DEF Settled, Held
<1>2. CASE d = today
  BY <1>1, <1>2
<1>3. CASE d # today
  <2>1. Owed(s, d) /\ (s = SeriesOf(k) => d \notin g)
    BY <1>3, WrittenOwed
  <2>2. \A x \in Held(bars[s]) : x <= d
    BY <2>1 DEF PriceInv, SeriesInv, Settled
  <2>3. CASE s # SeriesOf(k)
    BY <2>2, <2>3, WrittenBars
  <2>4. CASE s = SeriesOf(k)
    <3>1. Adjusted(k)
      BY <2>4, ThreadHas, SeriesFacts
    <3>2. ~ \E x \in g : x > d
      BY <2>1, <2>4, <3>1, WritingHas DEF GapOK
    <3>3. \A x \in Day : x \in Int
      BY PriceBounds
    <3>4. e \in Held(bars[s]) \cup g
      BY <2>4, WritingHas, WrittenBars
    <3> QED
      BY <2>2, <3>2, <3>3, <3>4 DEF Held
  <2> QED
    BY <2>3, <2>4
<1> QED
  BY <1>2, <1>3

\* The other threads keep what they rely on: days are only added, and what is
\* owed afterwards was owed before or is of today.
LEMMA WrittenGap ==
    ASSUME PriceInv, NEW r \in Req, pc[r] = "write", Written(r), UNCHANGED <<today, trading>>,
           NEW k \in Key, NEW e \in Day, e \in {today - 1, today}, NEW gap, GapOK(gap, k, e)
    PROVE  GapOK(gap, k, e)'
<1> DEFINE s == SeriesOf(k)
<1>1. s \in Series /\ gap \subseteq Window(k, e)
  BY SeriesFacts DEF GapOK
<1>2. Held(bars[s]) \subseteq Held(bars'[s])
  <2>1. CASE s = SeriesOf(job[r].key)
    BY <2>1, WrittenBars
  <2>2. CASE s # SeriesOf(job[r].key)
    BY <1>1, <2>2, WrittenBars
  <2> QED
    BY <2>1, <2>2
<1>3. ASSUME NEW d \in Day, NEW x \in gap, Owed(s, d)', x > d
      PROVE  Owed(s, d)
  <2>1. /\ x \in Day /\ x <= e
        /\ \A y \in Day : y \in Int
    BY <1>1, PriceBounds, WindowFacts
  <2>2. today \in Int /\ e <= today
    <3>1. today \in Int /\ e \in Int
      BY <2>1 DEF PriceInv, TypeInv
    <3> QED
      BY <3>1
  <2>3. d # today
    <3>1. x \in Int /\ e \in Int
      BY <2>1
    <3> QED
      BY <1>3, <2>1, <2>2, <3>1
  <2> QED
    BY <1>1, <1>3, <2>3, WrittenOwed
<1>4. Adjusted(k) => Attached(gap, Held(bars'[s]), Window(k, e))
  BY <1>2 DEF GapOK, Attached
<1>5. Adjusted(k) => \A d \in Day : Owed(s, d)' /\ (\E x \in gap : x > d) => d \in gap
  BY <1>3 DEF GapOK
<1> QED
  BY <1>1, <1>3, <1>4, <1>5 DEF GapOK

LEMMA WrittenThread ==
    ASSUME PriceInv, NEW r \in Req, pc[r] = "write", Written(r), UNCHANGED <<today, trading>>,
           NEW l, NEW j \in Job, ThreadOK(l, j)
    PROVE  ThreadOK(l, j)'
<1>1. j.key \in Key /\ j.end \in Day
  BY DEF Job
<1>2. CASE l \in {"ask", "write"}
  <2>1. j.end \in {today - 1, today}
    BY <1>2 DEF ThreadOK, CallLabel
  <2>2. \A i \in DOMAIN j.gaps : GapOK(j.gaps[i], j.key, j.end)'
    <3> TAKE i \in DOMAIN j.gaps
    <3>1. GapOK(j.gaps[i], j.key, j.end)
      BY <1>2 DEF ThreadOK
    <3> QED
      BY <1>1, <2>1, <3>1, WrittenGap
  <2> QED
    BY <1>2, <2>2 DEF ThreadOK
<1>3. CASE l = "have"
  <2>1. Answered(SeriesOf(j.key)) \subseteq Answered(SeriesOf(j.key))'
    BY <1>1, SeriesFacts, WrittenAnswered
  <2> QED
    BY <1>3, <2>1 DEF ThreadOK
<1>4. CASE l \notin {"ask", "write", "have"}
  BY <1>4 DEF ThreadOK
<1> QED
  BY <1>2, <1>3, <1>4

LEMMA WriteRowsStep ==
    ASSUME PriceInv, NEW r \in Req, WriteRows(r)
    PROVE  PriceInv'
<1> DEFINE gaps == Tail(job[r].gaps)
           l == AfterGap(gaps)
           j == [job[r] EXCEPT !.frame = NoFrame, !.gaps = gaps]
<1>1. pc[r] = "write" /\ UNCHANGED <<today, trading>>
  BY DEF WriteRows
<1>2. /\ j \in Job /\ j.mode = job[r].mode /\ j.end = job[r].end /\ j.key = job[r].key
      /\ j.gaps = gaps /\ j.todo = job[r].todo
      /\ \A i \in DOMAIN gaps : GapOK(gaps[i], job[r].key, job[r].end)
  <2>1. NoFrame \in Frame
    BY DEF NoFrame, Frame, Bar
  <2>2. /\ gaps \in Seq(SUBSET Day)
        /\ \A i \in DOMAIN gaps : gaps[i] = job[r].gaps[i + 1] /\ i + 1 \in DOMAIN job[r].gaps
    BY <1>1, ThreadHas, WritingHas
  <2>3. \A i \in DOMAIN job[r].gaps : GapOK(job[r].gaps[i], job[r].key, job[r].end)
    BY <1>1, ThreadHas DEF ThreadOK
  <2> HIDE DEF gaps
  <2> QED
    BY <2>1, <2>2, <2>3, ThreadHas DEF Job
<1>3. l \in {"ask", "reread"} /\ (l = "ask" => gaps # <<>>)
  BY DEF AfterGap
<1>4. pc' = [pc EXCEPT ![r] = l] /\ job' = [job EXCEPT ![r] = j]
  BY DEF WriteRows, Goto, PriceInv, TypeInv
<1>5. ThreadOK(l, j)
  <2> HIDE DEF j, l, gaps
  <2>1. /\ j.end \in {today - 1, today} /\ j.mode = "fetch"
        /\ \A i \in DOMAIN j.gaps : GapOK(j.gaps[i], j.key, j.end)
    BY <1>1, <1>2, ThreadHas DEF ThreadOK, CallLabel
  <2> QED
    BY <1>2, <1>3, <2>1 DEF ThreadOK
<1> HIDE DEF j, l, gaps
<1>6. CASE Written(r)
  <2>1. TypeInv'
    <3>1. omitted' \subseteq [series : Series, day : Day]
      <4>1. SeriesOf(job[r].key) \in Series
        BY ThreadHas, SeriesFacts
      <4>2. DaysOf(SeriesOf(job[r].key), Head(job[r].gaps)) \subseteq [series : Series, day : Day]
        BY <1>1, <4>1, WritingHas DEF DaysOf
      <4> QED
        BY <1>6, <4>2 DEF Written, PriceInv, TypeInv
    <3> QED
      BY <1>1, <1>2, <1>3, <1>4, <1>6, <3>1, WrittenBars, LabelsAre DEF PriceInv, TypeInv, CallLabel
  <2>2. ASSUME NEW s \in Series
        PROVE  /\ (Held(bars[s]) \subseteq Answered(s))'
               /\ s.adjusted => Convex(s)' /\ Settled(s)'
    BY <1>1, <1>6, WrittenAnswered, WrittenConvex, WrittenSettled
  <2>3. ASSUME NEW q \in Req
        PROVE  ThreadOK(pc[q], job[q])'
    <3>1. ThreadOK(pc'[q], job'[q]) /\ job'[q] \in Job
      BY <1>2, <1>4, <1>5, ThreadHas DEF PriceInv, TypeInv
    <3>2. PICK l2, j2 : l2 = pc'[q] /\ j2 = job'[q]
      OBVIOUS
    <3>3. ThreadOK(l2, j2)'
      BY <1>1, <1>6, <3>1, <3>2, WrittenThread
    <3> QED
      BY <3>2, <3>3
  <2> QED
    BY <1>1, <1>6, <2>1, <2>2, <2>3, WrittenPast DEF PriceInv, SeriesInv, ThreadInv
<1>7. CASE UNCHANGED <<bars, late, omitted>>
  BY <1>1, <1>2, <1>3, <1>4, <1>5, <1>7, LabelsAre, ThreadMoves DEF PriceInv, CallLabel
<1> QED
  BY <1>6, <1>7 DEF WriteRows, Written

---------------------------------------------------------------------------
(* The environment. *)

LEMMA CloseSessionStep ==
    ASSUME PriceInv, CloseSession
    PROVE  PriceInv'
<1>1. UNCHANGED <<bars, late, omitted, today, pc, job>> /\ trading' = FALSE
  BY DEF CloseSession
<1>2. TypeInv'
  BY <1>1 DEF PriceInv, TypeInv
<1>3. ASSUME NEW q \in Req
      PROVE  ThreadOK(pc[q], job[q])'
  <2>1. PICK l2, j2 : l2 = pc[q] /\ j2 = job[q]
    OBVIOUS
  <2>2. ThreadOK(l2, j2)'
    BY <1>1, <2>1, ThreadHas, ThreadStays
  <2> QED
    BY <1>1, <2>1, <2>2
<1> QED
  BY <1>1, <1>2, <1>3, BarsStay DEF PriceInv, ThreadInv

\* No bar of the new day is cached, and what is owed then is owed already.
LEMMA NextDayStep ==
    ASSUME PriceInv, NextDay
    PROVE  PriceInv'
<1>1. /\ UNCHANGED <<bars, late, omitted, pc, job>>
      /\ today' = today + 1 /\ trading' = TRUE /\ today < MaxDay
      /\ \A r \in Req : Calling(r) => job[r].end = today
  BY DEF NextDay
<1>2. /\ \A x \in Day : x \in Int
      /\ today \in Int /\ today >= 1 /\ Period \in Nat /\ MaxDay \in Nat
  BY PriceBounds DEF PriceInv, TypeInv, Day
<1>3. TypeInv'
  <2>1. today' \in Day
    BY <1>1, <1>2 DEF Day
  <2> QED
    BY <1>1, <2>1 DEF PriceInv, TypeInv
<1>4. \A s \in Series : Held(bars[s]) \subseteq Day /\ \A d \in Held(bars[s]) : d <= today
  BY DEF PriceInv, PastInv, Held
<1>5. PastInv'
  <2>1. ASSUME NEW s \in Series, NEW d \in Held(bars[s])
        PROVE  d <= today + 1
    BY <1>2, <1>4
  <2> QED
    BY <1>1, <2>1 DEF PastInv
<1>6. ASSUME NEW s, NEW d \in Day, Owed(s, d)'
      PROVE  Owed(s, d)
  <2>1. bars'[s][d] = "open" /\ [series |-> s, day |-> d] \notin (late \cup omitted)' /\ d >= today' - Period
    BY <1>6 DEF Owed
  <2>2. bars[s][d] = "open" /\ [series |-> s, day |-> d] \notin late \cup omitted
    BY <1>1, <2>1
  <2>3. d >= today - Period
    BY <1>1, <1>2, <2>1
  <2> QED
    BY <2>2, <2>3 DEF Owed
<1>7. ASSUME NEW s \in Series, s.adjusted
      PROVE  Convex(s)' /\ Settled(s)'
  <2>1. Convex(s) /\ Settled(s)
    BY <1>7 DEF PriceInv, SeriesInv
  <2>2. ASSUME NEW e \in {today, today + 1}, NEW a \in Held(bars[s]), NEW b \in Held(bars[s]),
               NEW d \in Day, e - Period <= a, a < d, d < b, b <= e
        PROVE  d \in Answered(s)
    <3>1. a \in Int /\ b \in Int /\ d \in Int /\ b <= today
      BY <1>2, <1>4
    <3>2. today - Period <= a
      BY <1>2, <2>2, <3>1
    <3> QED
      BY <2>1, <2>2, <3>1, <3>2 DEF Convex
  <2>3. today' - 1 = today
    BY <1>1, <1>2
  <2>4. Convex(s)'
    BY <1>1, <2>2, <2>3 DEF Convex, Answered
  <2>5. Settled(s)'
    BY <1>1, <1>6, <2>1 DEF Settled
  <2> QED
    BY <2>4, <2>5
<1>8. ASSUME NEW k \in Key, NEW e \in Day, NEW gap, GapOK(gap, k, e)
      PROVE  GapOK(gap, k, e)'
  BY <1>1, <1>6, <1>8 DEF GapOK, Attached
<1>9. ASSUME NEW r \in Req, NEW l, NEW j, l = pc[r], j = job[r]
      PROVE  ThreadOK(l, j)'
  <2>1. ThreadOK(l, j) /\ j.key \in Key /\ j.end \in Day
    BY <1>9, ThreadHas
  <2>2. l \in CallLabel => j.end = today
    BY <1>1, <1>9 DEF CallLabel, Calling
  <2>3. l \in CallLabel => j.end \in {today' - 1, today'}
    BY <1>1, <1>2, <2>2
  <2>4. l \in {"ask", "write"} => \A i \in DOMAIN j.gaps : GapOK(j.gaps[i], j.key, j.end)'
    BY <1>8, <2>1 DEF ThreadOK
  <2>5. UNCHANGED Answered(SeriesOf(j.key))
    BY <1>1 DEF Answered
  <2> QED
    BY <2>1, <2>3, <2>4, <2>5 DEF ThreadOK
<1>10. ThreadInv'
  <2> SUFFICES ASSUME NEW r \in Req PROVE ThreadOK(pc[r], job[r])'
    BY DEF ThreadInv
  <2>1. PICK l, j : l = pc[r] /\ j = job[r]
    OBVIOUS
  <2>2. ThreadOK(l, j)'
    BY <1>9, <2>1
  <2> QED
    BY <1>1, <2>1, <2>2
<1>11. \A s \in Series : (Held(bars[s]) \subseteq Answered(s))'
  BY <1>1 DEF PriceInv, SeriesInv, Answered
<1> QED
  BY <1>3, <1>5, <1>7, <1>10, <1>11 DEF PriceInv, SeriesInv

LEMMA RestartStep ==
    ASSUME PriceInv, Restart
    PROVE  PriceInv'
<1>1. /\ UNCHANGED <<bars, late, omitted, today, trading>>
      /\ pc' = [r \in Req |-> "idle"] /\ job' = [r \in Req |-> NoJob]
  BY DEF Restart
<1>2. TypeInv'
  BY <1>1, NoJobFacts, LabelsAre DEF PriceInv, TypeInv
<1>3. ThreadOK("idle", NoJob)
  BY NoJobFacts, LabelsAre, BetweenCalls
<1>4. ThreadOK("idle", NoJob)'
  BY <1>1, <1>3, ThreadStays
<1>5. ThreadInv'
  BY <1>1, <1>4 DEF ThreadInv
<1> QED
  BY <1>1, <1>2, <1>5, BarsStay DEF PriceInv

LEMMA InitHolds == Init => PriceInv
<1> SUFFICES ASSUME Init PROVE PriceInv
  OBVIOUS
<1>1. /\ bars = [s \in Series |-> NoFrame] /\ late = {} /\ omitted = {} /\ today = 1 /\ trading = TRUE
      /\ pc = [r \in Req |-> "idle"] /\ job = [r \in Req |-> NoJob]
  BY DEF Init
<1>2. NoFrame \in Frame /\ Held(NoFrame) = {} /\ 1 \in Day
  BY PriceBounds DEF NoFrame, Frame, Bar, Held, Day
<1>3. TypeInv
  BY <1>1, <1>2, NoJobFacts, LabelsAre DEF TypeInv
<1>4. \A s \in Series : bars[s] = NoFrame /\ Held(bars[s]) = {}
  BY <1>1, <1>2
<1>5. ThreadInv
  <2>1. ThreadOK("idle", NoJob)
    BY NoJobFacts, LabelsAre, BetweenCalls
  <2> QED
    BY <1>1, <2>1 DEF ThreadInv
<1> QED
  BY <1>3, <1>4, <1>5 DEF PriceInv, PastInv, SeriesInv, Convex, Settled

LEMMA NextKeepsInv == PriceInv /\ [Next]_vars => PriceInv'
<1> SUFFICES ASSUME PriceInv, [Next]_vars PROVE PriceInv'
  OBVIOUS
<1>1. ASSUME NEW r \in Req, NEW mode \in Mode, NEW keys \in SUBSET Key, StartRead(r, mode, keys)
      PROVE  PriceInv'
  BY <1>1, StartReadStep
<1>2. ASSUME NEW r \in Req, NEW k \in Key, Hit(r, k) \/ Miss(r, k)
      PROVE  PriceInv'
  BY <1>2, HitStep, MissStep
<1>3. ASSUME NEW r \in Req, ReadStep(r)
      PROVE  PriceInv'
  <2>1. CASE PlanFetch(r) \/ ReadBlocked(r) \/ AskProvider(r) \/ WriteRows(r) \/ Reread(r)
    BY <2>1, PlanFetchStep, ReadBlockedStep, AskProviderStep, WriteRowsStep, RereadStep
  <2>2. CASE NoBars(r) \/ SetMemo(r)
    BY <2>2, AdvanceStep DEF NoBars, SetMemo
  <2> QED
    BY <1>3, <2>1, <2>2 DEF ReadStep
<1>4. ASSUME NEW r \in Req, EndRead(r) \/ Evict(r)
      PROVE  PriceInv'
  BY <1>4, EndReadStep, FinishStep DEF Evict
<1>5. CASE CloseSession \/ NextDay \/ Restart
  BY <1>5, CloseSessionStep, NextDayStep, RestartStep
<1>6. CASE UNCHANGED vars
  <2>1. ASSUME NEW q \in Req
        PROVE  ThreadOK(pc[q], job[q])'
    <3>1. PICK l2, j2 : l2 = pc[q] /\ j2 = job[q]
      OBVIOUS
    <3>2. ThreadOK(l2, j2)'
      BY <1>6, <3>1, ThreadHas, ThreadStays DEF vars
    <3> QED
      BY <1>6, <3>1, <3>2 DEF vars
  <2> QED
    BY <1>6, <2>1, BarsStay DEF PriceInv, TypeInv, ThreadInv, vars
<1> QED
  BY <1>1, <1>2, <1>3, <1>4, <1>5, <1>6 DEF Next

---------------------------------------------------------------------------
(* The theorems. *)

(* The invariant of the price cache: cached days are of the past, every day *)
(* between two of them within a window has a close or was left out by the   *)
(* answer that was stored over it, an owed bar is the last one cached, and  *)
(* every gap a thread has yet to store an answer for still fits the cache,  *)
(* whichever of its days the answer leaves out.                             *)
THEOREM PriceInvariant == Spec => []PriceInv
<1> QED
  BY InitHolds, NextKeepsInv, PTL DEF Spec

(* What a lookup reports as locally complete lacks only closes that the last*)
(* answer stored over their day left out, although _plan_fetch_ranges looks *)
(* at the first and the last cached day only: failed gaps, failed writes and*)
(* races leave no hole of their own.                                        *)
THEOREM CompleteUpToOmissionsAlways == Spec => []CompleteUpToOmissions
<1>1. PriceInv => CompleteUpToOmissions
  BY DEF PriceInv, ThreadInv, ThreadOK, CompleteUpToOmissions, Answered
<1> QED
  BY <1>1, PriceInvariant, PTL

(* The trailing refresh replaces every adjusted bar stored before the close *)
(* before a later day is stored, but for answers written after the close and*)
(* for days that the answer fetching them again left out.                   *)
THEOREM AdjustedSettlesAlways == Spec => []AdjustedSettles
<1>1. ASSUME PriceInv, NEW t \in Ticker, NEW d \in today - Period .. today, d \in Day
      PROVE  LET s == [ticker |-> t, adjusted |-> TRUE] IN
             bars[s][d] = "open" /\ (\E e \in Held(bars[s]) : e > d) =>
                 [series |-> s, day |-> d] \in late \cup omitted
  <2> DEFINE s == [ticker |-> t, adjusted |-> TRUE]
  <2>1. s \in Series /\ s.adjusted
    BY DEF Series
  <2>2. Settled(s)
    BY <1>1, <2>1 DEF PriceInv, SeriesInv
  <2>3. /\ \A x \in Day : x \in Int
        /\ today \in Int /\ Period \in Int
    BY <1>1, PriceBounds DEF PriceInv, TypeInv
  <2>4. d >= today - Period /\ d \in Int
    BY <1>1, <2>3
  <2> HIDE DEF s
  <2> SUFFICES ASSUME bars[s][d] = "open", NEW e \in Held(bars[s]), e > d,
                      [series |-> s, day |-> d] \notin late \cup omitted
               PROVE  FALSE
    BY DEF s
  <2>5. e <= d /\ e \in Day
    BY <1>1, <2>2, <2>4 DEF Settled, Owed, Held
  <2>6. e \in Int
    BY <2>3, <2>5
  <2> QED
    BY <2>4, <2>5, <2>6
<1>2. PriceInv => AdjustedSettles
  BY <1>1 DEF AdjustedSettles
<1> QED
  BY <1>2, PriceInvariant, PTL
=============================================================================
