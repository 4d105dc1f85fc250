---------------------------- MODULE MoversProofs ----------------------------
(***************************************************************************)
(* Proofs about the movers caches, for every number of handlers, slices    *)
(* and events and every TTL.                                               *)
(***************************************************************************)
EXTENDS MoversProperties, FiniteSetTheorems, WellFoundedInduction, TLAPS

---------------------------------------------------------------------------
(* The fingerprint of a table. *)

LEMMA MoverBounds ==
    /\ MaxEvent \in Nat /\ MaxWrite \in Nat /\ MaxTime \in Nat /\ MaxVersion \in Nat
    /\ TodayTTL \in Nat /\ SliceTTL \in [Slice -> Nat]
    /\ TodayWindow \in Nat /\ FallbackWindow \in Nat
  BY BoundsAreNatural, TTLsAreNatural, WindowsAreOrdered

LEMMA IdsAreFinite ==
    ASSUME NEW t \in Table
    PROVE  /\ Ids(t) \subseteq EventId
           /\ IsFiniteSet(Ids(t)) /\ Cardinality(Ids(t)) \in Nat
<1>1. Ids(t) \subseteq EventId /\ IsFiniteSet(EventId)
  BY MoverBounds, FS_Interval DEF Ids, EventId
<1> QED
  BY <1>1, FS_Subset, FS_CardinalityType

Above == {p \in Nat \X Nat : p[1] < p[2]}

\* A set of naturals under a bound has a greatest element.
LEMMA MaxOfNaturals ==
    ASSUME NEW b \in Nat, NEW S \in SUBSET (0..b), S # {}
    PROVE  Max(S) \in S /\ \A y \in S : y <= Max(S)
<1> DEFINE T == {b - x : x \in S}
<1>1. T \in SUBSET Nat /\ T # {}
  <2>1. \A x \in S : b - x \in Nat
    OBVIOUS
  <2> QED
    BY <2>1
<1>2. IsWellFoundedOn(Above, Nat)
  BY NatLessThanWellFounded DEF OpToRel, Above
<1>3. PICK m \in T : \A y \in T : <<y, m>> \notin Above
  BY <1>1, <1>2, WFMin
<1>4. PICK x \in S : m = b - x
  BY <1>3
<1>5. \A y \in S : x >= y
  <2> TAKE y \in S
  <2>1. b - y \in Nat /\ m \in Nat /\ b - y \in T
    BY <1>1
  <2>2. <<b - y, m>> \notin Above
    BY <1>3, <2>1
  <2>3. <<b - y, m>> \in Nat \X Nat /\ <<b - y, m>>[1] = b - y /\ <<b - y, m>>[2] = m
    BY <2>1
  <2>4. ~(b - y < m)
    BY <2>2, <2>3 DEF Above
  <2> QED
    BY <1>4, <2>1, <2>4
<1>6. Max(S) \in S /\ \A y \in S : Max(S) >= y
  BY <1>5 DEF Max
<1> QED
  BY <1>6

LEMMA FingerprintFacts ==
    ASSUME NEW t \in Table
    PROVE  /\ Fingerprint(t).count = Cardinality(Ids(t)) /\ Fingerprint(t).count \in Nat
           /\ Fingerprint(t).max \in 0..MaxEvent
           /\ \A i \in Ids(t) : i <= Fingerprint(t).max
           /\ Fingerprint(t).max \in Ids(t) \cup {0}
           /\ Fingerprint(t) \in [count : Nat, max : Nat]
<1>1. Ids(t) \cup {0} \in SUBSET (0..MaxEvent) /\ Ids(t) \cup {0} # {}
  BY IdsAreFinite, MoverBounds DEF EventId
<1>2. /\ Max(Ids(t) \cup {0}) \in Ids(t) \cup {0}
      /\ \A y \in Ids(t) \cup {0} : y <= Max(Ids(t) \cup {0})
  BY <1>1, MaxOfNaturals, MoverBounds
<1>3. /\ Fingerprint(t).count = Cardinality(Ids(t))
      /\ Fingerprint(t).max = Max(Ids(t) \cup {0})
      /\ Fingerprint(t) = [count |-> Fingerprint(t).count, max |-> Fingerprint(t).max]
  BY DEF Fingerprint
<1>4. Fingerprint(t).max \in 0..MaxEvent /\ Fingerprint(t).count \in Nat
  BY <1>1, <1>2, <1>3, IdsAreFinite
<1> QED
  BY <1>1, <1>2, <1>3, <1>4

---------------------------------------------------------------------------
(* Types. *)

LEMMA MoverLabels ==
    /\ SliceLabel \subseteq Label /\ TodayLabel \subseteq Label /\ WriterLabel \subseteq Label
    /\ "idle" \in Label
    /\ {"load", "check", "serve", "fill", "stamp", "persist"} \subseteq Label
    /\ {"todayServe", "todayLoad", "todayChecked", "todayRecent", "todayData", "todayTs"} \subseteq Label
    /\ {"invalidate", "clearSlices", "clearToday"} \subseteq Label
  BY DEF Label, SliceLabel, TodayLabel, WriterLabel

LEMMA InitialMoverTypes ==
    /\ EmptyTable \in Table
    /\ NoJob \in Job
    /\ EmptyToday \in Today
<1>1. EmptyTable \in Table
  BY DEF EmptyTable, Table
<1>2. (CHOOSE s \in Slice : TRUE) \in Slice
  BY SlicesAreNamed
<1> QED
  BY <1>1, <1>2 DEF NoJob, Job, EmptyToday, Today

LEMMA MoverJobTypes ==
    ASSUME NEW j \in Job
    PROVE  /\ j.slice \in Slice /\ j.now \in Nat /\ j.cached \in Entry \cup {NoEntry}
           /\ j.rows \in Table /\ j.fingerprint \in [count : Nat, max : Nat]
           /\ j.clean \in BOOLEAN /\ j.todo \subseteq Slice
           /\ j.cutoff \in Int /\ j.wide \in BOOLEAN /\ j.whole \in BOOLEAN
  BY DEF Job

LEMMA MoverMove ==
    ASSUME TypeOK, NEW r \in Req, NEW l \in Label, NEW j \in Job
    PROVE  /\ [pc EXCEPT ![r] = l] \in [Req -> Label]
           /\ [job EXCEPT ![r] = j] \in [Req -> Job]
  BY DEF TypeOK

\* Any of the three writers, as far as the types go.
LEMMA WriteType ==
    ASSUME TypeOK, NEW r \in Req, NEW i \in EventId, NEW row \in Row \cup {Absent},
           NEW label \in Label, NEW todo \in SUBSET Slice, Write(r, i, row, label, todo)
    PROVE  /\ events' \in Table /\ writes' \in 0..MaxWrite
           /\ past' \subseteq [id : EventId, row : Row, until : Nat]
           /\ pc' \in [Req -> Label] /\ job' \in [Req -> Job]
           /\ UNCHANGED <<cache, today, now, version>>
<1>1. events' \in Table
  BY DEF Write, TypeOK, Table
<1>2. writes' \in 0..MaxWrite
  BY MoverBounds DEF Write, TypeOK
<1>3. events[i] # Absent => [id |-> i, row |-> events[i], until |-> now] \in [id : EventId, row : Row, until : Nat]
  BY DEF TypeOK, Table
<1>4. past' \subseteq [id : EventId, row : Row, until : Nat]
  BY <1>3 DEF Write, TypeOK
<1>5. pc' \in [Req -> Label]
  BY DEF Write, Goto, TypeOK
<1>6. [NoJob EXCEPT !.todo = todo] \in Job
  BY InitialMoverTypes DEF Job
<1>7. \A q \in Req : [job[q] EXCEPT !.clean = @ /\ pc[q] \notin Filling] \in Job
  BY DEF TypeOK, Job
<1>8. job' \in [Req -> Job]
  BY <1>6, <1>7 DEF Write
<1> QED
  BY <1>1, <1>2, <1>4, <1>5, <1>8 DEF Write

\* A written row has the number and the date of its write.
Dated(row) == row # Absent => row.rev = writes + 1 /\ row.at = now

LEMMA SaveIsWrite ==
    ASSUME TypeOK, NEW r \in Req, NEW stamp \in 0..now, SaveEvent(r, stamp)
    PROVE  /\ NewId \in EventId /\ lastId' = NewId /\ unsettled' = unsettled
           /\ \E row \in Row : Dated(row) /\ Write(r, NewId, row, "clearToday", {})
<1> DEFINE row == [rev |-> writes + 1, at |-> now, saved |-> stamp, checked |-> stamp]
<1>0. writes + 1 \in Nat /\ now \in Nat /\ stamp \in Nat
  BY MoverBounds DEF TypeOK
<1>1. row \in Row /\ row.rev = writes + 1 /\ row.at = now
  BY <1>0 DEF Row
<1>2. Dated(row)
  BY <1>1 DEF Dated
<1>3. Write(r, NewId, row, "clearToday", {})
  BY DEF SaveEvent
<1> HIDE DEF row
<1> QED
  BY <1>1, <1>2, <1>3 DEF SaveEvent

LEMMA RefreshIsWrite ==
    ASSUME TypeOK, NEW r \in Req, NEW i \in EventId, NEW stamp \in 0..now, RefreshEvent(r, i, stamp)
    PROVE  /\ events[i] # Absent /\ lastId' = lastId /\ unsettled' = unsettled \cup {i}
           /\ \E row \in Row : Dated(row) /\ Write(r, i, row, "invalidate", {})
<1> DEFINE row == [rev |-> writes + 1, at |-> now, saved |-> events[i].saved, checked |-> stamp]
<1>1. events[i] \in Row /\ writes \in Nat /\ now \in Nat /\ stamp \in Nat
  BY MoverBounds DEF TypeOK, Table, RefreshEvent
<1>5. events[i].saved \in Nat /\ writes + 1 \in Nat
  BY <1>1 DEF Row
<1>2. row \in Row /\ row.rev = writes + 1 /\ row.at = now
  BY <1>1, <1>5 DEF Row
<1>3. Dated(row)
  BY <1>2 DEF Dated
<1>4. Write(r, i, row, "invalidate", {})
  BY DEF RefreshEvent
<1> HIDE DEF row
<1> QED
  BY <1>2, <1>3, <1>4 DEF RefreshEvent

\* What the sessions of a pass collect.
LEMMA MergedRows ==
    ASSUME TypeOK, NEW rows \in Table, NEW ids \in SUBSET Ids(events)
    PROVE  /\ Merged(rows, ids) \in Table
           /\ Ids(Merged(rows, ids)) = Ids(rows) \cup ids
           /\ \A i \in Ids(Merged(rows, ids)) :
                  \/ i \in Ids(rows) /\ Merged(rows, ids)[i] = rows[i]
                  \/ Merged(rows, ids)[i] = events[i]
<1>1. events \in Table /\ ids \subseteq EventId /\ \A i \in ids : events[i] # Absent
  BY DEF TypeOK, Ids
<1>2. \A i \in EventId :
        Merged(rows, ids)[i] = IF rows[i] = Absent /\ i \in ids THEN events[i] ELSE rows[i]
  BY DEF Merged
<1>3. Merged(rows, ids) \in Table
  BY <1>1 DEF Merged, Table
<1> QED
  BY <1>1, <1>2, <1>3 DEF Ids

LEMMA SessionRows ==
    ASSUME NEW cutoff \in Int
    PROVE  /\ SavedSince(cutoff) \subseteq Ids(events)
           /\ CheckedSince(cutoff) \subseteq Ids(events)
           /\ InWindow(cutoff) \subseteq Ids(events)
  BY DEF SavedSince, CheckedSince, InWindow, Newest

LEMMA MoverTypeStep == TypeOK /\ [Next]_vars => TypeOK'
<1> SUFFICES ASSUME TypeOK, [Next]_vars PROVE TypeOK'
  OBVIOUS
<1>1. TypeOK
  OBVIOUS
<1>2. QED
  <2>1. ASSUME NEW r \in Req, NEW s \in Slice, StartSlice(r, s) PROVE TypeOK'
    <3>1. job[r] \in Job
      BY <1>1 DEF TypeOK
    <3>2. [NoJob EXCEPT !.slice = s, !.now = now] \in Job
      BY <1>1, <3>1, <2>1, InitialMoverTypes DEF TypeOK, Job
    <3>3. pc' \in [Req -> Label]
      BY <1>1, <2>1, <3>1, MoverLabels, MoverMove DEF StartSlice, Goto
    <3>4. job' \in [Req -> Job]
      BY <1>1, <2>1, <3>1, <3>2, InitialMoverTypes, MoverMove DEF StartSlice, TypeOK
    <3> QED
      BY <1>1, <2>1, <3>2, <3>3, <3>4 DEF StartSlice, TypeOK, table
  <2>2. ASSUME NEW r \in Req, LoadCache(r) PROVE TypeOK'
    <3>1. job[r] \in Job
      BY <1>1 DEF TypeOK
    <3>2. [job[r] EXCEPT !.cached = cache[job[r].slice]] \in Job
      BY <1>1, <3>1, <2>2, MoverJobTypes DEF TypeOK, Job
    <3>3. pc' \in [Req -> Label]
      BY <1>1, <2>2, <3>1, MoverLabels, MoverMove DEF LoadCache, Goto
    <3>4. job' \in [Req -> Job]
      BY <1>1, <2>2, <3>1, <3>2, InitialMoverTypes, MoverMove DEF LoadCache, TypeOK
    <3> QED
      BY <1>1, <2>2, <3>2, <3>3, <3>4 DEF LoadCache, TypeOK, table
  <2>3. ASSUME NEW r \in Req, CheckFingerprint(r) PROVE TypeOK'
    <3>1. job[r] \in Job
      BY <1>1 DEF TypeOK
    <3>2. Fresh(job[r]) \in Job
      BY <1>1, <3>1, <2>3, InitialMoverTypes DEF Fresh, Job
    <3>3. pc' \in [Req -> Label]
      BY <1>1, <2>3, <3>1, MoverLabels, MoverMove DEF CheckFingerprint, Goto
    <3>4. job' \in [Req -> Job]
      BY <1>1, <2>3, <3>1, <3>2, InitialMoverTypes, MoverMove DEF CheckFingerprint, TypeOK
    <3> QED
      BY <1>1, <2>3, <3>2, <3>3, <3>4 DEF CheckFingerprint, TypeOK, table
  <2>4. ASSUME NEW r \in Req, Serve(r) PROVE TypeOK'
    <3>1. job[r] \in Job
      BY <1>1 DEF TypeOK
    <3>2. pc' \in [Req -> Label]
      BY <1>1, <2>4, <3>1, MoverLabels, MoverMove DEF Serve, Finish, Goto
    <3>3. job' \in [Req -> Job]
      BY <1>1, <2>4, <3>1, InitialMoverTypes, MoverMove DEF Serve, Finish, TypeOK
    <3> QED
      BY <1>1, <2>4, <3>2, <3>3 DEF Serve, Finish, TypeOK, table
  <2>5. ASSUME NEW r \in Req, FillLoad(r) PROVE TypeOK'
    <3>1. job[r] \in Job
      BY <1>1 DEF TypeOK
    <3>2. [job[r] EXCEPT !.rows = events, !.clean = TRUE] \in Job
      BY <1>1, <3>1, <2>5 DEF TypeOK, Job
    <3>3. pc' \in [Req -> Label]
      BY <1>1, <2>5, <3>1, MoverLabels, MoverMove DEF FillLoad, Goto
    <3>4. job' \in [Req -> Job]
      BY <1>1, <2>5, <3>1, <3>2, InitialMoverTypes, MoverMove DEF FillLoad, TypeOK
    <3> QED
      BY <1>1, <2>5, <3>2, <3>3, <3>4 DEF FillLoad, TypeOK, table
  <2>6. ASSUME NEW r \in Req, FillStamp(r) PROVE TypeOK'
    <3>1. job[r] \in Job
      BY <1>1 DEF TypeOK
    <3>2. Fingerprint(events) \in [count : Nat, max : Nat]
      BY <1>1, <3>1, <2>6, FingerprintFacts DEF TypeOK
    <3>3. [job[r] EXCEPT !.fingerprint = Fingerprint(events)] \in Job
      BY <1>1, <3>1, <2>6, <3>2 DEF Job
    <3>4. pc' \in [Req -> Label]
      BY <1>1, <2>6, <3>1, MoverLabels, MoverMove DEF FillStamp, Goto
    <3>5. job' \in [Req -> Job]
      BY <1>1, <2>6, <3>1, <3>2, <3>3, InitialMoverTypes, MoverMove DEF FillStamp, TypeOK
    <3> QED
      BY <1>1, <2>6, <3>2, <3>3, <3>4, <3>5 DEF FillStamp, TypeOK, table
  <2>7. ASSUME NEW r \in Req, FillPersist(r) PROVE TypeOK'
    <3>1. job[r] \in Job
      BY <1>1 DEF TypeOK
    <3>2. EntryOf(job[r]) \in Entry
      BY <1>1, <3>1, <2>7, MoverJobTypes, MoverBounds DEF TypeOK, EntryOf, Entry
    <3>3. pc' \in [Req -> Label]
      BY <1>1, <2>7, <3>1, MoverLabels, MoverMove DEF FillPersist, Finish, Goto
    <3>4. job' \in [Req -> Job]
      BY <1>1, <2>7, <3>1, <3>2, InitialMoverTypes, MoverMove DEF FillPersist, Finish, TypeOK
    <3> QED
      BY <1>1, <2>7, <3>1, <3>2, <3>3, <3>4, MoverJobTypes DEF FillPersist, Finish, TypeOK, table
  <2>8. ASSUME NEW r \in Req, ReadEndsEarly(r) PROVE TypeOK'
    <3>1. job[r] \in Job
      BY <1>1 DEF TypeOK
    <3>2. pc' \in [Req -> Label]
      BY <1>1, <2>8, <3>1, MoverLabels, MoverMove DEF ReadEndsEarly, Finish, Goto
    <3>3. job' \in [Req -> Job]
      BY <1>1, <2>8, <3>1, InitialMoverTypes, MoverMove DEF ReadEndsEarly, Finish, TypeOK
    <3> QED
      BY <1>1, <2>8, <3>2, <3>3 DEF ReadEndsEarly, Finish, TypeOK, table
  <2>9. ASSUME NEW r \in Req, StartToday(r) PROVE TypeOK'
    <3>1. job[r] \in Job
      BY <1>1 DEF TypeOK
    <3>5. now \in Nat /\ now - TodayWindow \in Int
      BY <1>1, MoverBounds DEF TypeOK
    <3>2. [job[r] EXCEPT !.now = now, !.cutoff = now - TodayWindow] \in Job
      BY <3>1, <3>5 DEF Job
    <3>3. pc' \in [Req -> Label]
      BY <1>1, <2>9, <3>1, MoverLabels, MoverMove DEF StartToday, Goto
    <3>4. job' \in [Req -> Job]
      BY <1>1, <2>9, <3>1, <3>2, InitialMoverTypes, MoverMove DEF StartToday, TypeOK
    <3> QED
      BY <1>1, <2>9, <3>2, <3>3, <3>4 DEF StartToday, TypeOK, table
  <2>10. ASSUME NEW r \in Req, TodayServe(r) PROVE TypeOK'
    <3>1. job[r] \in Job
      BY <1>1 DEF TypeOK
    <3>2. pc' \in [Req -> Label]
      BY <1>1, <2>10, <3>1, MoverLabels, MoverMove DEF TodayServe, Finish, Goto
    <3>3. job' \in [Req -> Job]
      BY <1>1, <2>10, <3>1, InitialMoverTypes, MoverMove DEF TodayServe, Finish, TypeOK
    <3> QED
      BY <1>1, <2>10, <3>2, <3>3 DEF TodayServe, Finish, TypeOK, table
  <2>11. ASSUME NEW r \in Req, TodayLoad(r) PROVE TypeOK'
    <3>1. job[r] \in Job
      BY <1>1 DEF TypeOK
    <3>5. /\ EmptyTable \in Table /\ job[r].cutoff \in Int
          /\ SavedSince(job[r].cutoff) \in SUBSET Ids(events)
      BY <3>1, MoverJobTypes, InitialMoverTypes, SessionRows, WindowsAreOrdered
    <3>6. Merged(EmptyTable, SavedSince(job[r].cutoff)) \in Table
      BY <1>1, <3>5, MergedRows
    <3>2. [job[r] EXCEPT !.rows = Merged(EmptyTable, SavedSince(job[r].cutoff)), !.clean = TRUE,
                         !.whole = FALSE] \in Job
      BY <3>1, <3>6 DEF Job
    <3>3. pc' \in [Req -> Label]
      BY <1>1, <2>11, <3>1, MoverLabels, MoverMove DEF TodayLoad, Goto
    <3>4. job' \in [Req -> Job]
      BY <1>1, <2>11, <3>1, <3>2, InitialMoverTypes, MoverMove DEF TodayLoad, TypeOK
    <3> QED
      BY <1>1, <2>11, <3>3, <3>4 DEF TodayLoad, TypeOK, table
  <2>12. ASSUME NEW r \in Req, TodayChecked(r) PROVE TypeOK'
    <3>1. job[r] \in Job
      BY <1>1 DEF TypeOK
    <3>5. /\ job[r].rows \in Table /\ job[r].cutoff \in Int
          /\ CheckedSince(job[r].cutoff) \in SUBSET Ids(events)
      BY <3>1, MoverJobTypes, InitialMoverTypes, SessionRows, WindowsAreOrdered
    <3>6. Merged(job[r].rows, CheckedSince(job[r].cutoff)) \in Table
      BY <1>1, <3>5, MergedRows
    <3>2. [job[r] EXCEPT !.rows = Merged(job[r].rows, CheckedSince(job[r].cutoff)), !.whole = TRUE] \in Job
      BY <3>1, <3>6 DEF Job
    <3>3. pc' \in [Req -> Label]
      BY <1>1, <2>12, <3>1, MoverLabels, MoverMove DEF TodayChecked, Goto
    <3>4. job' \in [Req -> Job]
      BY <1>1, <2>12, <3>1, <3>2, InitialMoverTypes, MoverMove DEF TodayChecked, TypeOK
    <3> QED
      BY <1>1, <2>12, <3>3, <3>4 DEF TodayChecked, TypeOK, table
  <2>13. ASSUME NEW r \in Req, TodayRecent(r) PROVE TypeOK'
    <3>1. job[r] \in Job
      BY <1>1 DEF TypeOK
    <3>5. /\ job[r].rows \in Table /\ job[r].cutoff \in Int
          /\ InWindow(job[r].cutoff) \in SUBSET Ids(events)
      BY <3>1, MoverJobTypes, InitialMoverTypes, SessionRows, WindowsAreOrdered
    <3>6. Merged(job[r].rows, InWindow(job[r].cutoff)) \in Table
      BY <1>1, <3>5, MergedRows
    <3>2. [job[r] EXCEPT !.rows = Merged(job[r].rows, InWindow(job[r].cutoff))] \in Job
      BY <3>1, <3>6 DEF Job
    <3>3. pc' \in [Req -> Label]
      BY <1>1, <2>13, <3>1, MoverLabels, MoverMove DEF TodayRecent, Goto
    <3>4. job' \in [Req -> Job]
      BY <1>1, <2>13, <3>1, <3>2, InitialMoverTypes, MoverMove DEF TodayRecent, TypeOK
    <3> QED
      BY <1>1, <2>13, <3>3, <3>4 DEF TodayRecent, TypeOK, table
  <2>14. ASSUME NEW r \in Req, TodayWiden(r) PROVE TypeOK'
    <3>1. job[r] \in Job
      BY <1>1 DEF TypeOK
    <3>5. job[r].now \in Nat /\ now - FallbackWindow \in Int
      BY <1>1, <3>1, MoverJobTypes, MoverBounds DEF TypeOK
    <3>2. [NoJob EXCEPT !.now = job[r].now, !.wide = TRUE, !.cutoff = now - FallbackWindow] \in Job
      BY <3>5, InitialMoverTypes DEF Job
    <3>3. pc' \in [Req -> Label]
      BY <1>1, <2>14, <3>1, MoverLabels, MoverMove DEF TodayWiden, Goto
    <3>4. job' \in [Req -> Job]
      BY <1>1, <2>14, <3>1, <3>2, InitialMoverTypes, MoverMove DEF TodayWiden, TypeOK
    <3> QED
      BY <1>1, <2>14, <3>3, <3>4 DEF TodayWiden, TypeOK, table
  <2>15. ASSUME NEW r \in Req, TodayStoreData(r) PROVE TypeOK'
    <3>1. job[r] \in Job
      BY <1>1 DEF TypeOK
    <3>2. [NoJob EXCEPT !.now = job[r].now] \in Job
      BY <1>1, <3>1, <2>15, InitialMoverTypes DEF Job
    <3>3. [today EXCEPT !.data = job[r].rows, !.clean = job[r].clean, !.cutoff = job[r].cutoff,
                       !.whole = job[r].whole] \in Today
      BY <1>1, <3>1, <2>15, MoverJobTypes DEF TypeOK, Today
    <3>4. pc' \in [Req -> Label]
      BY <1>1, <2>15, <3>1, MoverLabels, MoverMove DEF TodayStoreData, Goto
    <3>5. job' \in [Req -> Job]
      BY <1>1, <2>15, <3>1, <3>2, <3>3, InitialMoverTypes, MoverMove DEF TodayStoreData, TypeOK
    <3> QED
      BY <1>1, <2>15, <3>1, <3>2, <3>3, <3>4, <3>5, MoverJobTypes DEF TodayStoreData, TypeOK, table
  <2>16. ASSUME NEW r \in Req, TodayStoreTs(r) PROVE TypeOK'
    <3>1. job[r] \in Job
      BY <1>1 DEF TypeOK
    <3>2. [today EXCEPT !.ts = job[r].now] \in Today
      BY <1>1, <3>1, <2>16, MoverJobTypes DEF TypeOK, Today
    <3>3. pc' \in [Req -> Label]
      BY <1>1, <2>16, <3>1, MoverLabels, MoverMove DEF TodayStoreTs, Finish, Goto
    <3>4. job' \in [Req -> Job]
      BY <1>1, <2>16, <3>1, <3>2, InitialMoverTypes, MoverMove DEF TodayStoreTs, Finish, TypeOK
    <3> QED
      BY <1>1, <2>16, <3>1, <3>2, <3>3, <3>4, MoverJobTypes DEF TodayStoreTs, Finish, TypeOK, table
  <2>17. ASSUME NEW r \in Req, NEW stamp \in 0..now, SaveEvent(r, stamp) PROVE TypeOK'
    <3>1. PICK row \in Row : Write(r, NewId, row, "clearToday", {})
      BY <1>1, <2>17, SaveIsWrite
    <3>3. NewId \in EventId /\ lastId' = NewId /\ unsettled' = unsettled
      BY <2>17 DEF SaveEvent
    <3>2. NewId \in 0..MaxEvent
      BY <3>3, MoverBounds DEF EventId
    <3> QED
      BY <1>1, <3>1, <3>2, <3>3, WriteType, MoverLabels DEF TypeOK
  <2>18. ASSUME NEW r \in Req, NEW i \in EventId, NEW stamp \in 0..now,
               RefreshEvent(r, i, stamp) PROVE TypeOK'
    <3>1. PICK row \in Row : Write(r, i, row, "invalidate", {})
      BY <1>1, <2>18, RefreshIsWrite
    <3>2. lastId' = lastId /\ unsettled' = unsettled \cup {i}
      BY <2>18 DEF RefreshEvent
    <3> QED
      BY <1>1, <3>1, <3>2, WriteType, MoverLabels DEF TypeOK
  <2>19. ASSUME NEW r \in Req, NEW i \in EventId, DeleteEvent(r, i) PROVE TypeOK'
    <3>1. Write(r, i, Absent, "clearSlices", ClearedOnDelete)
      BY <2>19 DEF DeleteEvent
    <3> QED
      BY <1>1, <2>19, <3>1, WriteType, SlicesAreNamed, MoverLabels DEF DeleteEvent, TypeOK
  <2>20. ASSUME NEW r \in Req, Invalidate(r) PROVE TypeOK'
    <3>1. job[r] \in Job
      BY <1>1 DEF TypeOK
    <3>2. pc' \in [Req -> Label]
      BY <1>1, <2>20, <3>1, MoverLabels, MoverMove DEF Invalidate, Goto
    <3>3. job' \in [Req -> Job]
      BY <1>1, <2>20, <3>1, InitialMoverTypes, MoverMove DEF Invalidate, TypeOK
    <3> QED
      BY <1>1, <2>20, <3>2, <3>3 DEF Invalidate, TypeOK, table
  <2>21. ASSUME NEW r \in Req, InvalidateFails(r) PROVE TypeOK'
    <3>1. job[r] \in Job
      BY <1>1 DEF TypeOK
    <3>2. pc' \in [Req -> Label]
      BY <1>1, <2>21, <3>1, MoverLabels, MoverMove DEF InvalidateFails, Goto
    <3>3. job' \in [Req -> Job]
      BY <1>1, <2>21, <3>1, InitialMoverTypes, MoverMove DEF InvalidateFails, TypeOK
    <3> QED
      BY <1>1, <2>21, <3>2, <3>3 DEF InvalidateFails, TypeOK, table
  <2>22. ASSUME NEW r \in Req, NEW s \in Slice, ClearSlice(r, s) PROVE TypeOK'
    <3>1. job[r] \in Job
      BY <1>1 DEF TypeOK
    <3>2. [job[r] EXCEPT !.todo = @ \ {s}] \in Job
      BY <1>1, <3>1, <2>22 DEF Job
    <3>3. pc' \in [Req -> Label]
      BY <1>1, <2>22, <3>1, MoverLabels, MoverMove DEF ClearSlice, Goto
    <3>4. job' \in [Req -> Job]
      BY <1>1, <2>22, <3>1, <3>2, InitialMoverTypes, MoverMove DEF ClearSlice, TypeOK
    <3> QED
      BY <1>1, <2>22, <3>2, <3>3, <3>4 DEF ClearSlice, TypeOK, table
  <2>23. ASSUME NEW r \in Req, SlicesCleared(r) PROVE TypeOK'
    <3>1. job[r] \in Job
      BY <1>1 DEF TypeOK
    <3>2. pc' \in [Req -> Label]
      BY <1>1, <2>23, <3>1, MoverLabels, MoverMove DEF SlicesCleared, Goto
    <3>3. job' \in [Req -> Job]
      BY <1>1, <2>23, <3>1, InitialMoverTypes, MoverMove DEF SlicesCleared, TypeOK
    <3> QED
      BY <1>1, <2>23, <3>2, <3>3 DEF SlicesCleared, TypeOK, table
  <2>24. ASSUME NEW r \in Req, ClearToday(r) PROVE TypeOK'
    <3>1. job[r] \in Job
      BY <1>1 DEF TypeOK
    <3>2. [EmptyToday EXCEPT !.ts = today.ts] \in Today
      BY <1>1, InitialMoverTypes DEF TypeOK, Today
    <3>3. pc' \in [Req -> Label]
      BY <1>1, <2>24, <3>1, MoverLabels, MoverMove DEF ClearToday, Finish, Goto
    <3>4. job' \in [Req -> Job]
      BY <1>1, <2>24, <3>1, <3>2, InitialMoverTypes, MoverMove DEF ClearToday, Finish, TypeOK
    <3> QED
      BY <1>1, <2>24, <3>2, <3>3, <3>4 DEF ClearToday, Finish, TypeOK, table
  <2>25. CASE Tick
    BY <1>1, <2>25 DEF Tick, TypeOK, table
  <2>26. CASE Restart
    BY <1>1, <2>26, MoverLabels, InitialMoverTypes, MoverBounds DEF Restart, TypeOK, table
  <2>27. CASE UNCHANGED vars
    BY <1>1, <2>27 DEF Goto, TypeOK, table, vars
  <2> QED
    BY <1>1, <2>1, <2>2, <2>3, <2>4, <2>5, <2>6, <2>7, <2>8, <2>9, <2>10, <2>11, <2>12, <2>13,
       <2>14, <2>15, <2>16, <2>17, <2>18, <2>19, <2>20, <2>21, <2>22, <2>23, <2>24, <2>25,
       <2>26, <2>27
       DEF Next, Begin, SliceStep, TodayStep, WriterStep

\* The caches and the handlers keep to their types (get_slice, movers_today).
THEOREM MoversTypeCorrect == Spec => []TypeOK
<1>1. Init => TypeOK
  <2> SUFFICES ASSUME Init PROVE TypeOK
    OBVIOUS
  <2>1. pc \in [Req -> Label] /\ job \in [Req -> Job]
    BY MoverLabels, InitialMoverTypes DEF Init
  <2>2. cache \in [Slice -> Entry \cup {NoEntry}] /\ past \subseteq [id : EventId, row : Row, until : Nat]
    BY DEF Init
  <2> QED
    BY <2>1, <2>2, InitialMoverTypes, MoverBounds DEF Init, TypeOK
<1>2. TypeOK /\ [Next]_vars => TypeOK'
  BY MoverTypeStep
<1> QED
  BY <1>1, <1>2, PTL DEF Spec

---------------------------------------------------------------------------
(* A fill without a write in between. *)

\* Ids are handed out once.
IdsOK == \A i \in Ids(events) : i <= lastId

\* What a table and the fingerprint stamped on it say about the events: no id
\* up to the greatest one came back, and rows changed are unsettled.
Matches(payload, fingerprint) ==
    /\ fingerprint = Fingerprint(payload)
    /\ fingerprint.max <= lastId
    /\ \A i \in Ids(events) : i <= fingerprint.max =>
           i \in Ids(payload) /\ (i \notin unsettled => payload[i] = events[i])

FillOK ==
    \A r \in Req :
        /\ pc[r] \in {"stamp", "persist"} /\ job[r].clean => job[r].rows = events
        /\ pc[r] = "persist" /\ job[r].clean => job[r].fingerprint = Fingerprint(events)
EntriesOK ==
    \A s \in Slice : cache[s] # NoEntry /\ cache[s].clean =>
        Matches(cache[s].payload, cache[s].fingerprint)
EntryInv == IdsOK /\ FillOK /\ EntriesOK

\* A table matches itself.
LEMMA EventsMatch ==
    ASSUME TypeOK, IdsOK
    PROVE  Matches(events, Fingerprint(events))
<1>1. Fingerprint(events).max \in Ids(events) \cup {0}
  BY FingerprintFacts DEF TypeOK
<1>2. Fingerprint(events).max <= lastId
  BY <1>1 DEF IdsOK, TypeOK
<1> QED
  BY <1>2 DEF Matches

\* Equal fingerprints mean equal ids.
LEMMA SameFingerprint ==
    ASSUME TypeOK, NEW payload \in Table, NEW fingerprint,
           Matches(payload, fingerprint), fingerprint = Fingerprint(events)
    PROVE  /\ Ids(payload) = Ids(events)
           /\ \A i \in EventId \ unsettled : payload[i] = events[i]
<1>1. events \in Table
  BY DEF TypeOK
<1>2. \A i \in Ids(events) : i <= fingerprint.max
  BY <1>1, FingerprintFacts
<1>3. Ids(events) \subseteq Ids(payload)
  BY <1>2 DEF Matches
<1>4. Cardinality(Ids(events)) = Cardinality(Ids(payload))
  BY <1>1, FingerprintFacts DEF Matches
<1>5. Ids(payload) = Ids(events)
  BY <1>3, <1>4, IdsAreFinite, FS_Subset
<1>6. ASSUME NEW i \in EventId \ unsettled PROVE payload[i] = events[i]
  <2>1. CASE i \in Ids(events)
    BY <1>2, <1>6, <2>1 DEF Matches
  <2>2. CASE i \notin Ids(events)
    BY <1>5, <2>2 DEF Ids
  <2> QED
    BY <2>1, <2>2
<1> QED
  BY <1>5, <1>6

\* A writer leaves no fill clean.
LEMMA WriteFills ==
    ASSUME TypeOK, NEW r \in Req, NEW i \in EventId, NEW row \in Row \cup {Absent},
           NEW label \in WriterLabel, NEW todo \in SUBSET Slice, Write(r, i, row, label, todo)
    PROVE  /\ \A q \in Req : pc'[q] \in Filling => ~job'[q].clean
           /\ pc' = [pc EXCEPT ![r] = label]
           /\ events' = [events EXCEPT ![i] = row] /\ cache' = cache
<1>1. /\ pc' = [pc EXCEPT ![r] = label] /\ events' = [events EXCEPT ![i] = row] /\ cache' = cache
      /\ \A q \in Req : q # r => job'[q] = [job[q] EXCEPT !.clean = @ /\ pc[q] \notin Filling]
  BY DEF Write, Goto
<1>2. pc'[r] \notin Filling /\ \A q \in Req : q # r => pc'[q] = pc[q]
  BY <1>1 DEF TypeOK, WriterLabel, Filling
<1>3. ASSUME NEW q \in Req, pc'[q] \in Filling PROVE ~job'[q].clean
  <2>1. q # r /\ pc[q] \in Filling
    BY <1>2, <1>3
  <2>2. job'[q] = [job[q] EXCEPT !.clean = @ /\ pc[q] \notin Filling] /\ job[q] \in Job
    BY <1>1, <2>1 DEF TypeOK
  <2>3. job'[q].clean = (job[q].clean /\ pc[q] \notin Filling)
    BY <2>2 DEF Job
  <2> QED
    BY <2>1, <2>3
<1> QED
  BY <1>1, <1>3

LEMMA EntryStep == TypeOK /\ EntryInv /\ [Next]_vars => EntryInv'
<1> SUFFICES ASSUME TypeOK, EntryInv, [Next]_vars PROVE EntryInv'
  OBVIOUS
<1>1. TypeOK /\ EntryInv
  OBVIOUS
<1>2. QED
  <2>1. ASSUME NEW r \in Req, NEW s \in Slice, StartSlice(r, s) PROVE EntryInv'
    BY <1>1, <2>1
       DEF EntriesOK, EntryInv, FillOK, Filling, Goto, IdsOK, Matches, StartSlice, TypeOK,
           table
  <2>2. ASSUME NEW r \in Req, LoadCache(r) PROVE EntryInv'
    BY <1>1, <2>2
       DEF EntriesOK, EntryInv, FillOK, Filling, Goto, IdsOK, LoadCache, Matches, TypeOK,
           table
  <2>3. ASSUME NEW r \in Req, CheckFingerprint(r) PROVE EntryInv'
    BY <1>1, <2>3
       DEF CheckFingerprint, EntriesOK, EntryInv, FillOK, Filling, Fresh, Goto, IdsOK,
           Matches, TypeOK, table
  <2>4. ASSUME NEW r \in Req, Serve(r) PROVE EntryInv'
    BY <1>1, <2>4
       DEF EntriesOK, EntryInv, FillOK, Filling, Finish, Goto, IdsOK, Matches, Serve, TypeOK,
           table
  <2>5. ASSUME NEW r \in Req, FillLoad(r) PROVE EntryInv'
    BY <1>1, <2>5
       DEF EntriesOK, EntryInv, FillLoad, FillOK, Filling, Goto, IdsOK, Matches, TypeOK,
           table
  <2>6. ASSUME NEW r \in Req, FillStamp(r) PROVE EntryInv'
    BY <1>1, <2>6
       DEF EntriesOK, EntryInv, FillOK, FillStamp, Filling, Goto, IdsOK, Matches, TypeOK,
           table
  <2>7. ASSUME NEW r \in Req, FillPersist(r) PROVE EntryInv'
    <3>1. /\ UNCHANGED <<events, lastId, unsettled>> /\ pc[r] = "persist"
          /\ cache' = [cache EXCEPT ![job[r].slice] = EntryOf(job[r])]
          /\ pc'[r] = "idle" /\ \A q \in Req : q # r => pc'[q] = pc[q] /\ job'[q] = job[q]
      BY <1>1, <2>7 DEF FillPersist, Finish, Goto, TypeOK, table
    <3>2. /\ EntryOf(job[r]).payload = job[r].rows /\ EntryOf(job[r]).clean = job[r].clean
          /\ EntryOf(job[r]).fingerprint = job[r].fingerprint
      BY DEF EntryOf
    <3>3. job[r].clean => Matches(job[r].rows, job[r].fingerprint)
      BY <1>1, <3>1, EventsMatch DEF EntryInv, FillOK
    <3>4. \A s \in Slice : cache'[s] = IF s = job[r].slice THEN EntryOf(job[r]) ELSE cache[s]
      BY <1>1, <3>1 DEF TypeOK
    <3>5. EntriesOK'
      <4> SUFFICES ASSUME NEW s \in Slice, cache'[s] # NoEntry, cache'[s].clean
                   PROVE  Matches(cache[s].payload, cache[s].fingerprint)'
        BY DEF EntriesOK
      <4>1. Matches(cache'[s].payload, cache'[s].fingerprint)
        BY <1>1, <3>2, <3>3, <3>4 DEF EntryInv, EntriesOK
      <4> QED
        BY <3>1, <4>1 DEF Matches
    <3>6. IdsOK' /\ FillOK'
      BY <1>1, <3>1 DEF EntryInv, IdsOK, FillOK
    <3> QED
      BY <3>5, <3>6 DEF EntryInv
  <2>8. ASSUME NEW r \in Req, ReadEndsEarly(r) PROVE EntryInv'
    BY <1>1, <2>8
       DEF EntriesOK, EntryInv, FillOK, Filling, Finish, Goto, IdsOK, Matches, ReadEndsEarly,
           TypeOK, table
  <2>9. ASSUME NEW r \in Req, StartToday(r) PROVE EntryInv'
    BY <1>1, <2>9
       DEF EntriesOK, EntryInv, FillOK, Filling, Goto, IdsOK, Matches, StartToday, TypeOK,
           table
  <2>10. ASSUME NEW r \in Req, TodayServe(r) PROVE EntryInv'
    BY <1>1, <2>10
       DEF EntriesOK, EntryInv, FillOK, Filling, Finish, Goto, IdsOK, Matches, TodayServe,
           TypeOK, table
  <2>11. ASSUME NEW r \in Req, TodayLoad(r) PROVE EntryInv'
    BY <1>1, <2>11
       DEF EntriesOK, EntryInv, FillOK, Filling, Goto, IdsOK, Matches, TodayLoad, TypeOK,
           table
  <2>12. ASSUME NEW r \in Req, TodayChecked(r) PROVE EntryInv'
    BY <1>1, <2>12
       DEF EntriesOK, EntryInv, FillOK, Filling, Goto, IdsOK, Matches, TodayChecked, TypeOK,
           table
  <2>13. ASSUME NEW r \in Req, TodayRecent(r) PROVE EntryInv'
    BY <1>1, <2>13
       DEF EntriesOK, EntryInv, FillOK, Filling, Goto, IdsOK, Matches, TodayRecent, TypeOK,
           table
  <2>14. ASSUME NEW r \in Req, TodayWiden(r) PROVE EntryInv'
    BY <1>1, <2>14
       DEF EntriesOK, EntryInv, FillOK, Filling, Goto, IdsOK, Matches, TodayWiden, TypeOK,
           table
  <2>15. ASSUME NEW r \in Req, TodayStoreData(r) PROVE EntryInv'
    BY <1>1, <2>15
       DEF EntriesOK, EntryInv, FillOK, Filling, Goto, IdsOK, Matches, TodayStoreData, TypeOK,
           table
  <2>16. ASSUME NEW r \in Req, TodayStoreTs(r) PROVE EntryInv'
    BY <1>1, <2>16
       DEF EntriesOK, EntryInv, FillOK, Filling, Finish, Goto, IdsOK, Matches, TodayStoreTs,
           TypeOK, table
  <2>17. ASSUME NEW r \in Req, NEW stamp \in 0..now, SaveEvent(r, stamp) PROVE EntryInv'
    <3>0. NewId \in EventId /\ \E row \in Row : Write(r, NewId, row, "clearToday", {})
      BY <1>1, <2>17, SaveIsWrite
    <3>1. PICK row \in Row : Write(r, NewId, row, "clearToday", {}) /\ "clearToday" \in WriterLabel
            /\ row \in Row \cup {Absent} /\ {} \in SUBSET Slice
      BY <3>0, SlicesAreNamed DEF WriterLabel
    <3>2. /\ \A q \in Req : pc'[q] \in Filling => ~job'[q].clean
          /\ events' = [events EXCEPT ![NewId] = row] /\ cache' = cache
      BY <1>1, <3>0, <3>1, WriteFills
    <3>3. FillOK'
      BY <3>2 DEF FillOK, Filling
    <3>4. lastId \in Nat /\ Ids(events) \subseteq EventId /\ \A k \in Ids(events) : k <= lastId
      BY <1>1 DEF EntryInv, IdsOK, TypeOK, Ids
    <3>5. lastId' = lastId + 1 /\ NewId = lastId + 1 /\ unsettled' = unsettled
      BY <2>17 DEF SaveEvent, NewId
    <3>6. \A k \in Ids(events') : k = lastId + 1 \/ (k \in Ids(events) /\ events'[k] = events[k])
      BY <1>1, <3>0, <3>1, <3>2, <3>5 DEF TypeOK, Table, Ids
    <3>7. IdsOK'
      <4> SUFFICES ASSUME NEW k \in Ids(events') PROVE k <= lastId + 1
        BY <3>5 DEF IdsOK
      <4> QED
        BY <3>4, <3>6 DEF EventId
    <3>8. EntriesOK'
      <4> SUFFICES ASSUME NEW s \in Slice, cache[s] # NoEntry, cache[s].clean
                   PROVE  Matches(cache[s].payload, cache[s].fingerprint)'
        BY <3>2 DEF EntriesOK
      <4>1. Matches(cache[s].payload, cache[s].fingerprint) /\ cache[s].payload \in Table
        BY <1>1 DEF EntryInv, EntriesOK, TypeOK, Entry
      <4>2. cache[s].fingerprint.max \in 0..MaxEvent
        BY <4>1, FingerprintFacts DEF Matches
      <4>3. ASSUME NEW k \in Ids(events'), k <= cache[s].fingerprint.max
            PROVE  k \in Ids(events) /\ events'[k] = events[k]
        BY <3>4, <3>5, <3>6, <4>1, <4>2, <4>3, MoverBounds DEF Matches
      <4>4. cache[s].fingerprint.max <= lastId'
        BY <3>4, <3>5, <4>1, <4>2 DEF Matches
      <4> QED
        BY <3>2, <3>5, <4>1, <4>3, <4>4 DEF Matches
    <3> QED
      BY <3>3, <3>7, <3>8 DEF EntryInv
  <2>18. ASSUME NEW r \in Req, NEW i \in EventId, NEW stamp \in 0..now,
               RefreshEvent(r, i, stamp) PROVE EntryInv'
    <3>1. PICK row \in Row : Write(r, i, row, "invalidate", {}) /\ "invalidate" \in WriterLabel
            /\ row \in Row \cup {Absent} /\ {} \in SUBSET Slice
      BY <1>1, <2>18, RefreshIsWrite, SlicesAreNamed DEF WriterLabel
    <3>2. /\ \A q \in Req : pc'[q] \in Filling => ~job'[q].clean
          /\ events' = [events EXCEPT ![i] = row] /\ cache' = cache
      BY <1>1, <3>1, WriteFills
    <3>3. FillOK'
      BY <3>2 DEF FillOK, Filling
    <3>4. lastId \in Nat /\ Ids(events) \subseteq EventId /\ \A k \in Ids(events) : k <= lastId
      BY <1>1 DEF EntryInv, IdsOK, TypeOK, Ids
    <3>5. lastId' = lastId /\ unsettled' = unsettled \cup {i}
      BY <2>18 DEF RefreshEvent
    <3>6. \A k \in Ids(events') : k \in Ids(events) /\ (k # i => events'[k] = events[k])
      BY <1>1, <2>18, <3>1, <3>2 DEF RefreshEvent, TypeOK, Table, Ids
    <3>7. IdsOK'
      BY <3>4, <3>5, <3>6 DEF IdsOK
    <3>8. EntriesOK'
      <4> SUFFICES ASSUME NEW s \in Slice, cache[s] # NoEntry, cache[s].clean
                   PROVE  Matches(cache[s].payload, cache[s].fingerprint)'
        BY <3>2 DEF EntriesOK
      <4>1. Matches(cache[s].payload, cache[s].fingerprint)
        BY <1>1 DEF EntryInv, EntriesOK
      <4> QED
        BY <3>2, <3>5, <3>6, <4>1 DEF Matches
    <3> QED
      BY <3>3, <3>7, <3>8 DEF EntryInv
  <2>19. ASSUME NEW r \in Req, NEW i \in EventId, DeleteEvent(r, i) PROVE EntryInv'
    <3>1. Write(r, i, Absent, "clearSlices", ClearedOnDelete) /\ "clearSlices" \in WriterLabel /\ i \in EventId
            /\ Absent \in Row \cup {Absent} /\ ClearedOnDelete \in SUBSET Slice
      BY <1>1, <2>19, SlicesAreNamed DEF DeleteEvent, WriterLabel
    <3>2. /\ \A q \in Req : pc'[q] \in Filling => ~job'[q].clean
          /\ events' = [events EXCEPT ![i] = Absent] /\ cache' = cache
      BY <1>1, <3>1, WriteFills
    <3>3. FillOK'
      BY <3>2 DEF FillOK, Filling
    <3>4. lastId \in Nat /\ Ids(events) \subseteq EventId /\ \A k \in Ids(events) : k <= lastId
      BY <1>1 DEF EntryInv, IdsOK, TypeOK, Ids
    <3>5. lastId' = lastId /\ unsettled' = unsettled
      BY <2>19 DEF DeleteEvent
    <3>6. \A k \in Ids(events') : k # i /\ k \in Ids(events) /\ events'[k] = events[k]
      BY <1>1, <3>1, <3>2 DEF TypeOK, Table, Ids
    <3>7. IdsOK'
      BY <3>4, <3>5, <3>6 DEF IdsOK
    <3>8. EntriesOK'
      <4> SUFFICES ASSUME NEW s \in Slice, cache[s] # NoEntry, cache[s].clean
                   PROVE  Matches(cache[s].payload, cache[s].fingerprint)'
        BY <3>2 DEF EntriesOK
      <4>1. Matches(cache[s].payload, cache[s].fingerprint)
        BY <1>1 DEF EntryInv, EntriesOK
      <4> QED
        BY <3>2, <3>5, <3>6, <4>1 DEF Matches
    <3> QED
      BY <3>3, <3>7, <3>8 DEF EntryInv
  <2>20. ASSUME NEW r \in Req, Invalidate(r) PROVE EntryInv'
    BY <1>1, <2>20
       DEF EntriesOK, EntryInv, FillOK, Filling, Goto, IdsOK, Invalidate, Matches, TypeOK,
           table
  <2>21. ASSUME NEW r \in Req, InvalidateFails(r) PROVE EntryInv'
    BY <1>1, <2>21
       DEF EntriesOK, EntryInv, FillOK, Filling, Goto, IdsOK, InvalidateFails, Matches,
           TypeOK, table
  <2>22. ASSUME NEW r \in Req, NEW s \in Slice, ClearSlice(r, s) PROVE EntryInv'
    BY <1>1, <2>22
       DEF ClearSlice, EntriesOK, EntryInv, FillOK, Filling, Goto, IdsOK, Matches, TypeOK,
           table
  <2>23. ASSUME NEW r \in Req, SlicesCleared(r) PROVE EntryInv'
    BY <1>1, <2>23
       DEF EntriesOK, EntryInv, FillOK, Filling, Goto, IdsOK, Matches, SlicesCleared, TypeOK,
           table
  <2>24. ASSUME NEW r \in Req, ClearToday(r) PROVE EntryInv'
    BY <1>1, <2>24
       DEF ClearToday, EntriesOK, EntryInv, FillOK, Filling, Finish, Goto, IdsOK, Matches,
           TypeOK, table
  <2>25. CASE Tick
    BY <1>1, <2>25
       DEF EntriesOK, EntryInv, FillOK, Filling, Goto, IdsOK, Matches, Tick, TypeOK, table
  <2>26. CASE Restart
    BY <1>1, <2>26
       DEF EntriesOK, EntryInv, FillOK, Filling, Goto, IdsOK, Matches, Restart, TypeOK, table
  <2>27. CASE UNCHANGED vars
    BY <1>1, <2>27
       DEF EntriesOK, EntryInv, FillOK, Filling, Goto, IdsOK, Matches, TypeOK, table, vars
  <2> QED
    BY <1>1, <2>1, <2>2, <2>3, <2>4, <2>5, <2>6, <2>7, <2>8, <2>9, <2>10, <2>11, <2>12, <2>13,
       <2>14, <2>15, <2>16, <2>17, <2>18, <2>19, <2>20, <2>21, <2>22, <2>23, <2>24, <2>25,
       <2>26, <2>27
       DEF Next, Begin, SliceStep, TodayStep, WriterStep

\* The count and the greatest id are enough of a fingerprint for an entry that
\* no write raced (get_events_fingerprint, _recompute_and_persist).
THEOREM CleanEntryIsCurrentAlways == Spec => []CleanEntryIsCurrent
<1>1. Init => EntryInv
  <2> SUFFICES ASSUME Init PROVE EntryInv
    OBVIOUS
  <2>1. IdsOK
    BY DEF Init, IdsOK, Ids, EmptyTable
  <2>2. FillOK /\ EntriesOK
    BY DEF Init, FillOK, EntriesOK
  <2> QED
    BY <2>1, <2>2 DEF EntryInv
<1>2. TypeOK /\ EntryInv /\ [Next]_vars => EntryInv'
  BY EntryStep
<1>3. TypeOK /\ EntryInv => CleanEntryIsCurrent
  <2> SUFFICES ASSUME TypeOK, EntryInv, NEW s \in Slice, cache[s] # NoEntry, cache[s].clean,
                      cache[s].fingerprint = Fingerprint(events)
               PROVE  /\ Ids(cache[s].payload) = Ids(events)
                      /\ \A i \in EventId \ unsettled : cache[s].payload[i] = events[i]
    BY DEF CleanEntryIsCurrent
  <2>1. Matches(cache[s].payload, cache[s].fingerprint) /\ cache[s].payload \in Table
    BY DEF EntryInv, EntriesOK, TypeOK, Entry
  <2> QED
    BY <2>1, SameFingerprint
<1> QED
  BY <1>1, <1>2, <1>3, MoversTypeCorrect, PTL DEF Spec

---------------------------------------------------------------------------
(* The age of what is shown. *)

\* A table read at time b or later: it has every row written before b and no
\* row that was replaced or deleted before b.
Since(payload, b) ==
    /\ b <= now
    /\ \A i \in EventId : events[i] # Absent /\ events[i].at < b => payload[i] = events[i]
    /\ \A old \in past : old.until < b => payload[old.id] # old.row

\* Revisions number the writes, so no row comes back.
RevisionsOK ==
    /\ \A i \in EventId : events[i] # Absent => events[i].rev <= writes
    /\ \A old \in past :
           /\ old.row.rev <= writes
           /\ events[old.id] # Absent => old.row.rev < events[old.id].rev

ReadersOK ==
    \A r \in Req :
        /\ pc[r] \in SliceLabel => job[r].now <= now
        /\ pc[r] \in {"stamp", "persist"} => Since(job[r].rows, job[r].now)
        /\ pc[r] \in {"check", "serve"} /\ job[r].cached # NoEntry =>
               Since(job[r].cached.payload, job[r].cached.builtAt)
        /\ pc[r] = "serve" =>
               job[r].cached # NoEntry /\ ~Expired(job[r].cached, job[r].now, SliceTTL[job[r].slice])
CacheOK ==
    \A s \in Slice : cache[s] # NoEntry => Since(cache[s].payload, cache[s].builtAt)
AgeInv == RevisionsOK /\ ReadersOK /\ CacheOK

LEMMA EventsAreCurrent ==
    ASSUME TypeOK, RevisionsOK, NEW b \in Nat, b <= now
    PROVE  Since(events, b)
<1>1. ASSUME NEW old \in past PROVE events[old.id] # old.row
  <2>1. old.id \in EventId /\ old.row \in Row /\ old.row # Absent
    BY <1>1, NullsAreNoValues DEF TypeOK
  <2>2. CASE events[old.id] = Absent
    BY <2>1, <2>2
  <2>3. CASE events[old.id] # Absent
    <3>1. old.row.rev < events[old.id].rev /\ old.row.rev \in Nat
      BY <1>1, <2>1, <2>3 DEF RevisionsOK, Row
    <3> QED
      BY <3>1
  <2> QED
    BY <2>2, <2>3
<1> QED
  BY <1>1 DEF Since

\* A write is no older than any table that was read before it.
LEMMA WriteKeepsSince ==
    ASSUME TypeOK, NEW r \in Req, NEW i \in EventId, NEW row \in Row \cup {Absent},
           NEW label \in WriterLabel, NEW todo \in SUBSET Slice, Dated(row),
           Write(r, i, row, label, todo),
           NEW payload, NEW b \in Nat, Since(payload, b)
    PROVE  Since(payload, b)'
<1>1. now' = now /\ now \in Nat /\ events' = [events EXCEPT ![i] = row] /\ events \in Table
  BY DEF Write, TypeOK
<1>2. row # Absent => row.at = now
  BY DEF Dated
<1>3. \A k \in EventId : events'[k] # Absent /\ events'[k].at < b => payload[k] = events'[k]
  <2> SUFFICES ASSUME NEW k \in EventId, events'[k] # Absent, events'[k].at < b
               PROVE  payload[k] = events'[k]
    OBVIOUS
  <2>1. CASE k = i
    <3>1. events'[k] = row
      BY <1>1, <2>1 DEF Table
    <3> QED
      BY <1>1, <1>2, <3>1 DEF Since
  <2>2. CASE k # i
    <3>1. events'[k] = events[k]
      BY <1>1, <2>2 DEF Table
    <3> QED
      BY <3>1 DEF Since
  <2> QED
    BY <2>1, <2>2
<1>4. \A old \in past' : old.until < b => payload[old.id] # old.row
  <2> SUFFICES ASSUME NEW old \in past', old.until < b PROVE payload[old.id] # old.row
    OBVIOUS
  <2>1. old \in past \/ old = [id |-> i, row |-> events[i], until |-> now]
    BY DEF Write
  <2>2. CASE old \in past
    BY <2>2 DEF Since
  <2>3. CASE old = [id |-> i, row |-> events[i], until |-> now]
    BY <1>1, <2>3 DEF Since
  <2> QED
    BY <2>1, <2>2, <2>3
<1> QED
  BY <1>1, <1>3, <1>4 DEF Since

LEMMA WriteRevisions ==
    ASSUME TypeOK, RevisionsOK, NEW r \in Req, NEW i \in EventId, NEW row \in Row \cup {Absent},
           NEW label \in WriterLabel, NEW todo \in SUBSET Slice, Dated(row),
           Write(r, i, row, label, todo)
    PROVE  RevisionsOK'
<1>1. /\ writes \in Nat /\ writes' = writes + 1 /\ events \in Table
      /\ events' = [events EXCEPT ![i] = row]
  BY DEF Write, TypeOK
<1>2. row # Absent => row.rev = writes + 1
  BY DEF Dated
<1>3. \A k \in EventId : events[k] # Absent => events[k].rev \in Nat /\ events[k].rev <= writes
  BY <1>1 DEF RevisionsOK, Table, Row
<1>4. \A k \in EventId : events'[k] = IF k = i THEN row ELSE events[k]
  BY <1>1 DEF Table
<1>5. ASSUME NEW old \in past'
      PROVE  /\ old.row.rev <= writes + 1
             /\ events'[old.id] # Absent => old.row.rev < events'[old.id].rev
  <2>1. \/ old \in past
        \/ events[i] # Absent /\ old = [id |-> i, row |-> events[i], until |-> now]
    BY <1>5 DEF Write
  <2>2. old.id \in EventId /\ old.row.rev \in Nat /\ old.row.rev <= writes
    <3>1. CASE old \in past
      BY <3>1 DEF TypeOK, RevisionsOK, Row
    <3>2. CASE events[i] # Absent /\ old = [id |-> i, row |-> events[i], until |-> now]
      BY <1>3, <3>2
    <3> QED
      BY <2>1, <3>1, <3>2
  <2>3. CASE old.id = i
    BY <1>1, <1>2, <1>4, <2>2, <2>3
  <2>4. CASE old.id # i
    BY <1>1, <1>4, <2>1, <2>2, <2>4 DEF RevisionsOK
  <2> QED
    BY <2>3, <2>4
<1>6. \A k \in EventId : events'[k] # Absent => events'[k].rev <= writes + 1
  BY <1>1, <1>2, <1>3, <1>4
<1> QED
  BY <1>1, <1>5, <1>6 DEF RevisionsOK

\* A writer in the first step of its handler leaves the readers as they are.
LEMMA WriteAges ==
    ASSUME TypeOK, AgeInv, NEW r \in Req, NEW i \in EventId, NEW row \in Row \cup {Absent},
           NEW label \in WriterLabel, NEW todo \in SUBSET Slice, Dated(row),
           Write(r, i, row, label, todo)
    PROVE  AgeInv'
<1>1. RevisionsOK'
  BY WriteRevisions DEF AgeInv
<1>2. \A payload : \A b \in Nat : Since(payload, b) => Since(payload, b)'
  BY WriteKeepsSince
<1>3. CacheOK'
  <2>1. cache' = cache /\ \A s \in Slice : cache[s] # NoEntry => cache[s].builtAt \in Nat
    BY DEF Write, TypeOK, Entry
  <2>2. ASSUME NEW s \in Slice, cache[s] # NoEntry
        PROVE  Since(cache[s].payload, cache[s].builtAt)'
    <3>1. PICK payload, b : payload = cache[s].payload /\ b = cache[s].builtAt
      OBVIOUS
    <3>2. Since(payload, b)'
      BY <1>2, <2>1, <2>2, <3>1 DEF AgeInv, CacheOK
    <3> QED
      BY <2>1, <3>1, <3>2 DEF Since
  <2> QED
    BY <2>1, <2>2 DEF CacheOK
<1>4. ReadersOK'
  <2>1. now' = now /\ pc' = [pc EXCEPT ![r] = label] /\ label \notin SliceLabel
    BY DEF Write, Goto, WriterLabel, SliceLabel
  <2>2. ASSUME NEW q \in Req, q # r
        PROVE  /\ pc'[q] = pc[q] /\ job'[q].now = job[q].now /\ job'[q].rows = job[q].rows
               /\ job'[q].cached = job[q].cached /\ job'[q].slice = job[q].slice
    BY <2>2 DEF Write, Goto, TypeOK, Job
  <2> SUFFICES ASSUME NEW q \in Req, pc'[q] \in SliceLabel
               PROVE  /\ job'[q].now <= now'
                      /\ pc'[q] \in {"stamp", "persist"} => Since(job[q].rows, job[q].now)'
                      /\ pc'[q] \in {"check", "serve"} /\ job'[q].cached # NoEntry =>
                             Since(job[q].cached.payload, job[q].cached.builtAt)'
                      /\ pc'[q] = "serve" =>
                             /\ job'[q].cached # NoEntry
                             /\ ~Expired(job'[q].cached, job'[q].now, SliceTTL[job'[q].slice])
    BY DEF ReadersOK, SliceLabel, Expired
  <2>3. q # r /\ pc[q] \in SliceLabel
    BY <2>1 DEF TypeOK
  <2>4. /\ job[q].now <= now /\ job[q].now \in Nat
        /\ job[q].cached # NoEntry => job[q].cached.builtAt \in Nat
    BY <2>3 DEF AgeInv, ReadersOK, TypeOK, Job, Entry
  <2>5. ASSUME pc[q] \in {"stamp", "persist"} PROVE Since(job[q].rows, job[q].now)'
    <3>1. PICK payload, b : payload = job[q].rows /\ b = job[q].now
      OBVIOUS
    <3>2. Since(payload, b)'
      BY <1>2, <2>4, <2>5, <3>1 DEF AgeInv, ReadersOK
    <3> QED
      BY <2>2, <2>3, <3>1, <3>2 DEF Since
  <2>6. ASSUME pc[q] \in {"check", "serve"}, job[q].cached # NoEntry
        PROVE  Since(job[q].cached.payload, job[q].cached.builtAt)'
    <3>1. PICK payload, b : payload = job[q].cached.payload /\ b = job[q].cached.builtAt
      OBVIOUS
    <3>2. Since(payload, b)'
      BY <1>2, <2>4, <2>6, <3>1 DEF AgeInv, ReadersOK
    <3> QED
      BY <2>2, <2>3, <3>1, <3>2 DEF Since
  <2> QED
    BY <2>1, <2>2, <2>3, <2>4, <2>5, <2>6 DEF AgeInv, ReadersOK
<1> QED
  BY <1>1, <1>3, <1>4 DEF AgeInv

LEMMA AgeStep == TypeOK /\ AgeInv /\ [Next]_vars => AgeInv'
<1> SUFFICES ASSUME TypeOK, AgeInv, [Next]_vars PROVE AgeInv'
  OBVIOUS
<1>1. TypeOK /\ AgeInv
  OBVIOUS
<1>2. QED
  <2>1. ASSUME NEW r \in Req, NEW s \in Slice, StartSlice(r, s) PROVE AgeInv'
    BY <1>1, <2>1, MoverJobTypes
       DEF AgeInv, CacheOK, Goto, ReadersOK, RevisionsOK, Since, SliceLabel, StartSlice,
           TypeOK, table
  <2>2. ASSUME NEW r \in Req, LoadCache(r) PROVE AgeInv'
    BY <1>1, <2>2, MoverJobTypes
       DEF AgeInv, CacheOK, Goto, LoadCache, ReadersOK, RevisionsOK, Since, SliceLabel,
           TypeOK, table
  <2>3. ASSUME NEW r \in Req, CheckFingerprint(r) PROVE AgeInv'
    <3>1. /\ UNCHANGED <<events, past, now, writes, cache>> /\ pc[r] = "check"
          /\ \A q \in Req : q # r => pc'[q] = pc[q] /\ job'[q] = job[q]
      BY <1>1, <2>3 DEF CheckFingerprint, Goto, TypeOK, table
    <3>2. CASE Hit(job[r]) /\ Goto(r, "serve") /\ UNCHANGED job
      <4>1. pc'[r] = "serve" /\ job'[r] = job[r]
        BY <1>1, <3>2 DEF Goto, TypeOK
      <4>2. ReadersOK'
        BY <1>1, <3>1, <3>2, <4>1 DEF AgeInv, ReadersOK, Since, SliceLabel, Hit
      <4> QED
        BY <1>1, <3>1, <4>2 DEF AgeInv, RevisionsOK, CacheOK, Since
    <3>3. CASE Goto(r, "fill") /\ job' = [job EXCEPT ![r] = Fresh(job[r])]
      <4>1. pc'[r] = "fill" /\ job'[r].now = job[r].now
        BY <1>1, <3>3, InitialMoverTypes DEF Goto, TypeOK, Fresh, Job
      <4>2. ReadersOK'
        BY <1>1, <3>1, <4>1 DEF AgeInv, ReadersOK, Since, SliceLabel
      <4> QED
        BY <1>1, <3>1, <4>2 DEF AgeInv, RevisionsOK, CacheOK, Since
    <3> QED
      BY <2>3, <3>2, <3>3 DEF CheckFingerprint
  <2>4. ASSUME NEW r \in Req, Serve(r) PROVE AgeInv'
    BY <1>1, <2>4, MoverJobTypes
       DEF AgeInv, CacheOK, Finish, Goto, ReadersOK, RevisionsOK, Serve, Since, SliceLabel,
           TypeOK, table
  <2>5. ASSUME NEW r \in Req, FillLoad(r) PROVE AgeInv'
    <3>1. /\ UNCHANGED <<events, past, now, writes, cache>> /\ pc[r] = "fill" /\ pc'[r] = "stamp"
          /\ \A q \in Req : q # r => pc'[q] = pc[q] /\ job'[q] = job[q]
          /\ job'[r].rows = events /\ job'[r].now = job[r].now
      BY <1>1, <2>5 DEF FillLoad, Goto, TypeOK, Job, table
    <3>2. Since(events, job[r].now) /\ job[r].now <= now
      BY <1>1, <3>1, EventsAreCurrent, MoverJobTypes DEF AgeInv, ReadersOK, SliceLabel, TypeOK
    <3>3. ReadersOK'
      BY <1>1, <3>1, <3>2 DEF AgeInv, ReadersOK, Since, SliceLabel
    <3> QED
      BY <1>1, <3>1, <3>3 DEF AgeInv, RevisionsOK, CacheOK, Since
  <2>6. ASSUME NEW r \in Req, FillStamp(r) PROVE AgeInv'
    BY <1>1, <2>6, MoverJobTypes
       DEF AgeInv, CacheOK, FillStamp, Goto, ReadersOK, RevisionsOK, Since, SliceLabel,
           TypeOK, table
  <2>7. ASSUME NEW r \in Req, FillPersist(r) PROVE AgeInv'
    <3>1. /\ UNCHANGED <<events, past, now, writes>> /\ pc[r] = "persist" /\ pc'[r] = "idle"
          /\ \A q \in Req : q # r => pc'[q] = pc[q] /\ job'[q] = job[q]
          /\ \A s \in Slice : cache'[s] = IF s = job[r].slice THEN EntryOf(job[r]) ELSE cache[s]
      BY <1>1, <2>7 DEF FillPersist, Finish, Goto, TypeOK, table
    <3>2. EntryOf(job[r]).payload = job[r].rows /\ EntryOf(job[r]).builtAt = job[r].now
      BY DEF EntryOf
    <3>3. Since(job[r].rows, job[r].now)
      BY <1>1, <3>1 DEF AgeInv, ReadersOK
    <3>4. CacheOK'
      BY <1>1, <3>1, <3>2, <3>3 DEF AgeInv, CacheOK, Since
    <3>5. ReadersOK'
      BY <1>1, <3>1 DEF AgeInv, ReadersOK, Since, SliceLabel
    <3> QED
      BY <1>1, <3>1, <3>4, <3>5 DEF AgeInv, RevisionsOK
  <2>8. ASSUME NEW r \in Req, ReadEndsEarly(r) PROVE AgeInv'
    BY <1>1, <2>8, MoverJobTypes
       DEF AgeInv, CacheOK, Finish, Goto, ReadEndsEarly, ReadersOK, RevisionsOK, Since,
           SliceLabel, TypeOK, table
  <2>9. ASSUME NEW r \in Req, StartToday(r) PROVE AgeInv'
    BY <1>1, <2>9, MoverJobTypes
       DEF AgeInv, CacheOK, Goto, ReadersOK, RevisionsOK, Since, SliceLabel, StartToday,
           TypeOK, table
  <2>10. ASSUME NEW r \in Req, TodayServe(r) PROVE AgeInv'
    BY <1>1, <2>10, MoverJobTypes
       DEF AgeInv, CacheOK, Finish, Goto, ReadersOK, RevisionsOK, Since, SliceLabel,
           TodayServe, TypeOK, table
  <2>11. ASSUME NEW r \in Req, TodayLoad(r) PROVE AgeInv'
    BY <1>1, <2>11, MoverJobTypes
       DEF AgeInv, CacheOK, Goto, ReadersOK, RevisionsOK, Since, SliceLabel, TodayLoad,
           TypeOK, table
  <2>12. ASSUME NEW r \in Req, TodayChecked(r) PROVE AgeInv'
    BY <1>1, <2>12, MoverJobTypes
       DEF AgeInv, CacheOK, Goto, ReadersOK, RevisionsOK, Since, SliceLabel, TodayChecked,
           TypeOK, table
  <2>13. ASSUME NEW r \in Req, TodayRecent(r) PROVE AgeInv'
    BY <1>1, <2>13, MoverJobTypes
       DEF AgeInv, CacheOK, Goto, ReadersOK, RevisionsOK, Since, SliceLabel, TodayRecent,
           TypeOK, table
  <2>14. ASSUME NEW r \in Req, TodayWiden(r) PROVE AgeInv'
    BY <1>1, <2>14, MoverJobTypes
       DEF AgeInv, CacheOK, Goto, ReadersOK, RevisionsOK, Since, SliceLabel, TodayWiden,
           TypeOK, table
  <2>15. ASSUME NEW r \in Req, TodayStoreData(r) PROVE AgeInv'
    BY <1>1, <2>15, MoverJobTypes
       DEF AgeInv, CacheOK, Goto, ReadersOK, RevisionsOK, Since, SliceLabel, TodayStoreData,
           TypeOK, table
  <2>16. ASSUME NEW r \in Req, TodayStoreTs(r) PROVE AgeInv'
    BY <1>1, <2>16, MoverJobTypes
       DEF AgeInv, CacheOK, Finish, Goto, ReadersOK, RevisionsOK, Since, SliceLabel,
           TodayStoreTs, TypeOK, table
  <2>17. ASSUME NEW r \in Req, NEW stamp \in 0..now, SaveEvent(r, stamp) PROVE AgeInv'
    <3>1. PICK row \in Row : Dated(row) /\ Write(r, NewId, row, "clearToday", {})
      BY <1>1, <2>17, SaveIsWrite
    <3>2. "clearToday" \in WriterLabel /\ NewId \in EventId /\ {} \in SUBSET Slice
      BY <2>17, SlicesAreNamed DEF SaveEvent, WriterLabel
    <3> QED
      BY <1>1, <3>1, <3>2, WriteAges
  <2>18. ASSUME NEW r \in Req, NEW i \in EventId, NEW stamp \in 0..now,
               RefreshEvent(r, i, stamp) PROVE AgeInv'
    <3>1. PICK row \in Row : Dated(row) /\ Write(r, i, row, "invalidate", {})
      BY <1>1, <2>18, RefreshIsWrite
    <3>2. "invalidate" \in WriterLabel /\ {} \in SUBSET Slice
      BY SlicesAreNamed DEF WriterLabel
    <3> QED
      BY <1>1, <3>1, <3>2, WriteAges
  <2>19. ASSUME NEW r \in Req, NEW i \in EventId, DeleteEvent(r, i) PROVE AgeInv'
    <3>1. Write(r, i, Absent, "clearSlices", ClearedOnDelete) /\ "clearSlices" \in WriterLabel /\ i \in EventId
            /\ Dated(Absent) /\ ClearedOnDelete \in SUBSET Slice
      BY <1>1, <2>19, SlicesAreNamed DEF DeleteEvent, Dated, WriterLabel
    <3> QED
      BY <1>1, <3>1, WriteAges
  <2>20. ASSUME NEW r \in Req, Invalidate(r) PROVE AgeInv'
    BY <1>1, <2>20, MoverJobTypes
       DEF AgeInv, CacheOK, Goto, Invalidate, ReadersOK, RevisionsOK, Since, SliceLabel,
           TypeOK, table
  <2>21. ASSUME NEW r \in Req, InvalidateFails(r) PROVE AgeInv'
    BY <1>1, <2>21, MoverJobTypes
       DEF AgeInv, CacheOK, Goto, InvalidateFails, ReadersOK, RevisionsOK, Since, SliceLabel,
           TypeOK, table
  <2>22. ASSUME NEW r \in Req, NEW s \in Slice, ClearSlice(r, s) PROVE AgeInv'
    BY <1>1, <2>22, MoverJobTypes
       DEF AgeInv, CacheOK, ClearSlice, Goto, ReadersOK, RevisionsOK, Since, SliceLabel,
           TypeOK, table
  <2>23. ASSUME NEW r \in Req, SlicesCleared(r) PROVE AgeInv'
    BY <1>1, <2>23, MoverJobTypes
       DEF AgeInv, CacheOK, Goto, ReadersOK, RevisionsOK, Since, SliceLabel, SlicesCleared,
           TypeOK, table
  <2>24. ASSUME NEW r \in Req, ClearToday(r) PROVE AgeInv'
    BY <1>1, <2>24, MoverJobTypes
       DEF AgeInv, CacheOK, ClearToday, Finish, Goto, ReadersOK, RevisionsOK, Since,
           SliceLabel, TypeOK, table
  <2>25. CASE Tick
    BY <1>1, <2>25, MoverJobTypes
       DEF AgeInv, CacheOK, Entry, Goto, Job, ReadersOK, RevisionsOK, Since, SliceLabel, Tick,
           TypeOK, table
  <2>26. CASE Restart
    BY <1>1, <2>26, MoverJobTypes
       DEF AgeInv, CacheOK, Goto, ReadersOK, Restart, RevisionsOK, Since, SliceLabel, TypeOK,
           table
  <2>27. CASE UNCHANGED vars
    BY <1>1, <2>27
       DEF AgeInv, CacheOK, Goto, ReadersOK, RevisionsOK, Since, SliceLabel, TypeOK, table,
           vars
  <2> QED
    BY <1>1, <2>1, <2>2, <2>3, <2>4, <2>5, <2>6, <2>7, <2>8, <2>9, <2>10, <2>11, <2>12, <2>13,
       <2>14, <2>15, <2>16, <2>17, <2>18, <2>19, <2>20, <2>21, <2>22, <2>23, <2>24, <2>25,
       <2>26, <2>27
       DEF Next, Begin, SliceStep, TodayStep, WriterStep

\* A hit hides a write for at most the TTL (get_slice, _recompute_and_persist).
THEOREM HitWithinTTLAlways == Spec => []HitWithinTTL
<1>1. Init => AgeInv
  <2> SUFFICES ASSUME Init PROVE AgeInv
    OBVIOUS
  <2>1. RevisionsOK
    BY DEF Init, RevisionsOK, EmptyTable
  <2>2. ReadersOK /\ CacheOK
    BY DEF Init, ReadersOK, CacheOK, SliceLabel
  <2> QED
    BY <2>1, <2>2 DEF AgeInv
<1>2. TypeOK /\ AgeInv /\ [Next]_vars => AgeInv'
  BY AgeStep
<1>3. TypeOK /\ AgeInv => HitWithinTTL
  <2> SUFFICES ASSUME TypeOK, AgeInv, NEW r \in Req, pc[r] = "serve"
               PROVE  LET shown == job[r].cached.payload
                          since == job[r].now - SliceTTL[job[r].slice] IN
                      /\ \A i \in EventId : events[i] # Absent /\ events[i].at < since => shown[i] = events[i]
                      /\ \A old \in past : old.until < since => shown[old.id] # old.row
    BY DEF HitWithinTTL
  <2> DEFINE b == job[r].cached.builtAt
             since == job[r].now - SliceTTL[job[r].slice]
  <2>1. /\ job[r].cached # NoEntry /\ ~Expired(job[r].cached, job[r].now, SliceTTL[job[r].slice])
        /\ Since(job[r].cached.payload, b)
    BY DEF AgeInv, ReadersOK
  <2>2. b \in Nat /\ job[r].now \in Nat /\ SliceTTL[job[r].slice] \in Nat
    BY <2>1, MoverBounds DEF TypeOK, Job, Entry
  <2>3. since \in Int /\ since <= b
    BY <2>1, <2>2 DEF Expired
  <2>4. \A i \in EventId : events[i] # Absent => events[i].at \in Nat
    BY DEF TypeOK, Table, Row
  <2>5. \A old \in past : old.until \in Nat
    BY DEF TypeOK
  <2> HIDE DEF b, since
  <2>6. \A i \in EventId : events[i] # Absent /\ events[i].at < since => events[i].at < b
    BY <2>2, <2>3, <2>4
  <2>7. \A old \in past : old.until < since => old.until < b
    BY <2>2, <2>3, <2>5
  <2> QED
    BY <2>1, <2>6, <2>7 DEF Since, since
<1> QED
  BY <1>1, <1>2, <1>3, MoversTypeCorrect, PTL DEF Spec

---------------------------------------------------------------------------
(* The in-memory list. *)

\* What the sessions of a pass have read without a write in between is true, and
\* so is a list that no write raced, or a writer has still to clear it.
TodayInv ==
    /\ \A r \in Req : pc[r] \in {"todayChecked", "todayRecent", "todayData"} /\ job[r].clean =>
           TrueSince(job[r].rows, job[r].cutoff, job[r].whole)
    /\ today.data # NoData /\ today.clean =>
           \/ TrueSince(today.data, today.cutoff, today.whole)
           \/ \E r \in Req : pc[r] \in WriterLabel

\* A session adds rows as they are.
LEMMA SessionKeepsTrue ==
    ASSUME TypeOK, NEW rows \in Table, NEW cutoff \in Int, NEW ids \in SUBSET Ids(events),
           NEW whole \in BOOLEAN, NEW more \in BOOLEAN,
           TrueSince(rows, cutoff, whole),
           more => whole \/ CheckedSince(cutoff) \subseteq ids
    PROVE  TrueSince(Merged(rows, ids), cutoff, more)
<1>1. /\ Ids(Merged(rows, ids)) = Ids(rows) \cup ids
      /\ \A i \in Ids(Merged(rows, ids)) :
             \/ i \in Ids(rows) /\ Merged(rows, ids)[i] = rows[i]
             \/ Merged(rows, ids)[i] = events[i]
  BY MergedRows
<1> QED
  BY <1>1 DEF TrueSince

\* A step that leaves the table, the list and the other handlers alone, and
\* whose own reading stays true.
LEMMA QuietStep ==
    ASSUME TypeOK, TodayInv, NEW r \in Req, UNCHANGED <<events, today>>,
           pc[r] \notin WriterLabel,
           \A q \in Req : q # r => pc'[q] = pc[q] /\ job'[q] = job[q],
           pc'[r] \in {"todayChecked", "todayRecent", "todayData"} /\ job'[r].clean =>
               TrueSince(job'[r].rows, job'[r].cutoff, job'[r].whole)
    PROVE  TodayInv'
<1>1. ASSUME NEW q \in Req, pc'[q] \in {"todayChecked", "todayRecent", "todayData"}, job'[q].clean
      PROVE  TrueSince(job[q].rows, job[q].cutoff, job[q].whole)'
  <2>1. TrueSince(job'[q].rows, job'[q].cutoff, job'[q].whole)
    BY <1>1 DEF TodayInv
  <2> QED
    BY <2>1 DEF TrueSince, SavedSince, CheckedSince
<1>2. ASSUME today'.data # NoData, today'.clean
      PROVE  \/ TrueSince(today.data, today.cutoff, today.whole)'
             \/ \E q \in Req : pc'[q] \in WriterLabel
  <2>1. CASE TrueSince(today.data, today.cutoff, today.whole)
    BY <2>1 DEF TrueSince, SavedSince, CheckedSince
  <2>2. CASE \E q \in Req : pc[q] \in WriterLabel
    BY <2>2
  <2> QED
    BY <1>2, <2>1, <2>2 DEF TodayInv
<1> QED
  BY <1>1, <1>2 DEF TodayInv

LEMMA ListStep == TypeOK /\ TodayInv /\ [Next]_vars => TodayInv'
<1> SUFFICES ASSUME TypeOK, TodayInv, [Next]_vars PROVE TodayInv'
  OBVIOUS
<1>1. TypeOK /\ TodayInv
  OBVIOUS
<1>2. QED
  <2>1. ASSUME NEW r \in Req, NEW s \in Slice, StartSlice(r, s) PROVE TodayInv'
    BY <1>1, <2>1, QuietStep DEF StartSlice, Goto, TypeOK, WriterLabel, table
  <2>2. ASSUME NEW r \in Req, LoadCache(r) PROVE TodayInv'
    BY <1>1, <2>2, QuietStep DEF LoadCache, Goto, TypeOK, WriterLabel, table
  <2>3. ASSUME NEW r \in Req, CheckFingerprint(r) PROVE TodayInv'
    BY <1>1, <2>3, QuietStep DEF CheckFingerprint, Goto, TypeOK, WriterLabel, table
  <2>4. ASSUME NEW r \in Req, Serve(r) PROVE TodayInv'
    BY <1>1, <2>4, QuietStep DEF Serve, Finish, Goto, TypeOK, WriterLabel, table
  <2>5. ASSUME NEW r \in Req, FillLoad(r) PROVE TodayInv'
    BY <1>1, <2>5, QuietStep DEF FillLoad, Goto, TypeOK, WriterLabel, table
  <2>6. ASSUME NEW r \in Req, FillStamp(r) PROVE TodayInv'
    BY <1>1, <2>6, QuietStep DEF FillStamp, Goto, TypeOK, WriterLabel, table
  <2>7. ASSUME NEW r \in Req, FillPersist(r) PROVE TodayInv'
    BY <1>1, <2>7, QuietStep DEF FillPersist, Finish, Goto, TypeOK, WriterLabel, table
  <2>8. ASSUME NEW r \in Req, ReadEndsEarly(r) PROVE TodayInv'
    BY <1>1, <2>8, QuietStep DEF ReadEndsEarly, Finish, Goto, TypeOK, WriterLabel, table
  <2>9. ASSUME NEW r \in Req, StartToday(r) PROVE TodayInv'
    BY <1>1, <2>9, QuietStep DEF StartToday, Goto, TypeOK, WriterLabel, table
  <2>10. ASSUME NEW r \in Req, TodayServe(r) PROVE TodayInv'
    BY <1>1, <2>10, QuietStep DEF TodayServe, Finish, Goto, TypeOK, WriterLabel, table
  <2>11. ASSUME NEW r \in Req, TodayLoad(r) PROVE TodayInv'
    <3>1. /\ UNCHANGED <<events, today>> /\ pc[r] = "todayLoad" /\ pc'[r] = "todayChecked"
          /\ \A q \in Req : q # r => pc'[q] = pc[q] /\ job'[q] = job[q]
      BY <1>1, <2>11 DEF TodayLoad, Goto, TypeOK, table
    <3>2. job[r] \in Job /\ job[r].cutoff \in Int /\ job[r].rows \in Table
      BY <1>1 DEF TypeOK, Job
    <3>3. /\ job'[r].rows = Merged(EmptyTable, SavedSince(job[r].cutoff))
          /\ job'[r].cutoff = job[r].cutoff /\ job'[r].whole = FALSE
      BY <1>1, <2>11, <3>2 DEF TodayLoad, TypeOK, Job
    <3>5. SavedSince(job[r].cutoff) \in SUBSET Ids(events) /\ EmptyTable \in Table /\ Ids(EmptyTable) = {}
      BY <3>2, SessionRows, InitialMoverTypes DEF EmptyTable, Ids
    <3>4. TrueSince(job'[r].rows, job'[r].cutoff, job'[r].whole)
      BY <1>1, <3>3, <3>5, MergedRows DEF TrueSince
    <3> QED
      BY <1>1, <3>1, <3>4, QuietStep DEF WriterLabel
  <2>12. ASSUME NEW r \in Req, TodayChecked(r) PROVE TodayInv'
    <3>1. /\ UNCHANGED <<events, today>> /\ pc[r] = "todayChecked" /\ pc'[r] = "todayRecent"
          /\ \A q \in Req : q # r => pc'[q] = pc[q] /\ job'[q] = job[q]
      BY <1>1, <2>12 DEF TodayChecked, Goto, TypeOK, table
    <3>2. job[r] \in Job /\ job[r].cutoff \in Int /\ job[r].rows \in Table
      BY <1>1 DEF TypeOK, Job
    <3>3. /\ job'[r].cutoff = job[r].cutoff /\ job'[r].clean = job[r].clean
          /\ \/ /\ job'[r].rows = Merged(job[r].rows, CheckedSince(job[r].cutoff))
                /\ job'[r].whole = TRUE
             \/ job'[r].rows = job[r].rows /\ job'[r].whole = job[r].whole
      BY <1>1, <2>12, <3>2 DEF TodayChecked, TypeOK, Job
    <3>5. CheckedSince(job[r].cutoff) \in SUBSET Ids(events) /\ job[r].whole \in BOOLEAN
      BY <3>2, SessionRows DEF Job
    <3>6. job[r].clean => TrueSince(job[r].rows, job[r].cutoff, job[r].whole)
      BY <1>1, <3>1 DEF TodayInv
    <3>4. job'[r].clean => TrueSince(job'[r].rows, job'[r].cutoff, job'[r].whole)
      BY <1>1, <3>2, <3>3, <3>5, <3>6, SessionKeepsTrue
    <3> QED
      BY <1>1, <3>1, <3>4, QuietStep DEF WriterLabel
  <2>13. ASSUME NEW r \in Req, TodayRecent(r) PROVE TodayInv'
    <3>1. /\ UNCHANGED <<events, today>> /\ pc[r] = "todayRecent" /\ pc'[r] = "todayData"
          /\ \A q \in Req : q # r => pc'[q] = pc[q] /\ job'[q] = job[q]
      BY <1>1, <2>13 DEF TodayRecent, Goto, TypeOK, table
    <3>2. job[r] \in Job /\ job[r].cutoff \in Int /\ job[r].rows \in Table
      BY <1>1 DEF TypeOK, Job
    <3>3. /\ job'[r].cutoff = job[r].cutoff /\ job'[r].clean = job[r].clean
          /\ \/ /\ job'[r].rows = Merged(job[r].rows, InWindow(job[r].cutoff))
                /\ job'[r].whole = job[r].whole
             \/ job'[r].rows = job[r].rows /\ job'[r].whole = job[r].whole
      BY <1>1, <2>13, <3>2 DEF TodayRecent, TypeOK, Job
    <3>5. InWindow(job[r].cutoff) \in SUBSET Ids(events) /\ job[r].whole \in BOOLEAN
      BY <3>2, SessionRows DEF Job
    <3>6. job[r].clean => TrueSince(job[r].rows, job[r].cutoff, job[r].whole)
      BY <1>1, <3>1 DEF TodayInv
    <3>4. job'[r].clean => TrueSince(job'[r].rows, job'[r].cutoff, job'[r].whole)
      BY <1>1, <3>2, <3>3, <3>5, <3>6, SessionKeepsTrue
    <3> QED
      BY <1>1, <3>1, <3>4, QuietStep DEF WriterLabel
  <2>14. ASSUME NEW r \in Req, TodayWiden(r) PROVE TodayInv'
    BY <1>1, <2>14, QuietStep DEF TodayWiden, Goto, TypeOK, WriterLabel, table
  <2>15. ASSUME NEW r \in Req, TodayStoreData(r) PROVE TodayInv'
    <3>1. /\ events' = events /\ pc[r] = "todayData" /\ pc'[r] = "todayTs"
          /\ \A q \in Req : q # r => pc'[q] = pc[q] /\ job'[q] = job[q]
      BY <1>1, <2>15 DEF TodayStoreData, Goto, TypeOK, table
    <3>2. /\ today'.data = job[r].rows /\ today'.clean = job[r].clean
          /\ today'.cutoff = job[r].cutoff /\ today'.whole = job[r].whole
      BY <1>1, <2>15 DEF TodayStoreData, TypeOK, Today
    <3>3. ASSUME today'.clean PROVE TrueSince(today.data, today.cutoff, today.whole)'
      <4>1. TrueSince(today'.data, today'.cutoff, today'.whole)
        BY <1>1, <3>1, <3>2, <3>3 DEF TodayInv
      <4> QED
        BY <3>1, <4>1 DEF TrueSince, SavedSince, CheckedSince
    <3>4. ASSUME NEW q \in Req, pc'[q] \in {"todayChecked", "todayRecent", "todayData"}, job'[q].clean
          PROVE  TrueSince(job[q].rows, job[q].cutoff, job[q].whole)'
      <4>1. TrueSince(job'[q].rows, job'[q].cutoff, job'[q].whole)
        BY <1>1, <3>1, <3>4 DEF TodayInv
      <4> QED
        BY <3>1, <4>1 DEF TrueSince, SavedSince, CheckedSince
    <3> QED
      BY <3>3, <3>4 DEF TodayInv
  <2>16. ASSUME NEW r \in Req, TodayStoreTs(r) PROVE TodayInv'
    <3>1. /\ events' = events /\ pc[r] = "todayTs" /\ pc'[r] = "idle"
          /\ \A q \in Req : q # r => pc'[q] = pc[q] /\ job'[q] = job[q]
          /\ today'.data = today.data /\ today'.clean = today.clean
          /\ today'.cutoff = today.cutoff /\ today'.whole = today.whole
      BY <1>1, <2>16 DEF TodayStoreTs, Finish, Goto, TypeOK, Today, table
    <3> QED
      BY <1>1, <3>1 DEF TodayInv, TrueSince, SavedSince, CheckedSince, WriterLabel
  <2>17. ASSUME NEW r \in Req, NEW stamp \in 0..now, SaveEvent(r, stamp) PROVE TodayInv'
    <3>0. NewId \in EventId /\ \E row \in Row : Write(r, NewId, row, "clearToday", {})
      BY <1>1, <2>17, SaveIsWrite
    <3>1. PICK row \in Row : Write(r, NewId, row, "clearToday", {}) /\ "clearToday" \in WriterLabel
            /\ row \in Row \cup {Absent} /\ {} \in SUBSET Slice
      BY <3>0, SlicesAreNamed DEF WriterLabel
    <3>2. /\ \A q \in Req : pc'[q] \in Filling => ~job'[q].clean
          /\ pc' = [pc EXCEPT ![r] = "clearToday"]
      BY <1>1, <3>0, <3>1, WriteFills
    <3>3. pc'[r] \in WriterLabel
      BY <1>1, <3>1, <3>2 DEF TypeOK
    <3> QED
      BY <3>2, <3>3 DEF TodayInv, Filling
  <2>18. ASSUME NEW r \in Req, NEW i \in EventId, NEW stamp \in 0..now,
               RefreshEvent(r, i, stamp) PROVE TodayInv'
    <3>1. PICK row \in Row : Write(r, i, row, "invalidate", {}) /\ "invalidate" \in WriterLabel
            /\ row \in Row \cup {Absent} /\ {} \in SUBSET Slice
      BY <1>1, <2>18, RefreshIsWrite, SlicesAreNamed DEF WriterLabel
    <3>2. /\ \A q \in Req : pc'[q] \in Filling => ~job'[q].clean
          /\ pc' = [pc EXCEPT ![r] = "invalidate"]
      BY <1>1, <3>1, WriteFills
    <3>3. pc'[r] \in WriterLabel
      BY <1>1, <3>1, <3>2 DEF TypeOK
    <3> QED
      BY <3>2, <3>3 DEF TodayInv, Filling
  <2>19. ASSUME NEW r \in Req, NEW i \in EventId, DeleteEvent(r, i) PROVE TodayInv'
    <3>1. Write(r, i, Absent, "clearSlices", ClearedOnDelete) /\ "clearSlices" \in WriterLabel /\ i \in EventId
            /\ Absent \in Row \cup {Absent} /\ ClearedOnDelete \in SUBSET Slice
      BY <1>1, <2>19, SlicesAreNamed DEF DeleteEvent, WriterLabel
    <3>2. /\ \A q \in Req : pc'[q] \in Filling => ~job'[q].clean
          /\ pc' = [pc EXCEPT ![r] = "clearSlices"]
      BY <1>1, <3>1, WriteFills
    <3>3. pc'[r] \in WriterLabel
      BY <1>1, <3>1, <3>2 DEF TypeOK
    <3> QED
      BY <3>2, <3>3 DEF TodayInv, Filling
  <2>20. ASSUME NEW r \in Req, Invalidate(r) PROVE TodayInv'
    <3>1. /\ UNCHANGED <<events, today>> /\ pc'[r] \in WriterLabel
          /\ \A q \in Req : pc'[q] = pc[q] \/ pc'[q] \notin TodayLabel
          /\ \A q \in Req : /\ job'[q].rows = job[q].rows /\ job'[q].clean = job[q].clean
                            /\ job'[q].cutoff = job[q].cutoff /\ job'[q].whole = job[q].whole
      BY <1>1, <2>20 DEF Invalidate, Goto, TypeOK, Job, TodayLabel, WriterLabel, table
    <3> QED
      BY <1>1, <3>1 DEF TodayInv, TodayLabel, TrueSince, SavedSince, CheckedSince
  <2>21. ASSUME NEW r \in Req, InvalidateFails(r) PROVE TodayInv'
    <3>1. /\ UNCHANGED <<events, today>> /\ pc'[r] \in WriterLabel
          /\ \A q \in Req : pc'[q] = pc[q] \/ pc'[q] \notin TodayLabel
          /\ \A q \in Req : /\ job'[q].rows = job[q].rows /\ job'[q].clean = job[q].clean
                            /\ job'[q].cutoff = job[q].cutoff /\ job'[q].whole = job[q].whole
      BY <1>1, <2>21 DEF InvalidateFails, Goto, TypeOK, Job, TodayLabel, WriterLabel, table
    <3> QED
      BY <1>1, <3>1 DEF TodayInv, TodayLabel, TrueSince, SavedSince, CheckedSince
  <2>22. ASSUME NEW r \in Req, NEW s \in Slice, ClearSlice(r, s) PROVE TodayInv'
    <3>1. /\ UNCHANGED <<events, today>> /\ pc'[r] \in WriterLabel
          /\ \A q \in Req : pc'[q] = pc[q] \/ pc'[q] \notin TodayLabel
          /\ \A q \in Req : /\ job'[q].rows = job[q].rows /\ job'[q].clean = job[q].clean
                            /\ job'[q].cutoff = job[q].cutoff /\ job'[q].whole = job[q].whole
      BY <1>1, <2>22 DEF ClearSlice, Goto, TypeOK, Job, TodayLabel, WriterLabel, table
    <3> QED
      BY <1>1, <3>1 DEF TodayInv, TodayLabel, TrueSince, SavedSince, CheckedSince
  <2>23. ASSUME NEW r \in Req, SlicesCleared(r) PROVE TodayInv'
    <3>1. /\ UNCHANGED <<events, today>> /\ pc'[r] \in WriterLabel
          /\ \A q \in Req : pc'[q] = pc[q] \/ pc'[q] \notin TodayLabel
          /\ \A q \in Req : /\ job'[q].rows = job[q].rows /\ job'[q].clean = job[q].clean
                            /\ job'[q].cutoff = job[q].cutoff /\ job'[q].whole = job[q].whole
      BY <1>1, <2>23 DEF SlicesCleared, Goto, TypeOK, Job, TodayLabel, WriterLabel, table
    <3> QED
      BY <1>1, <3>1 DEF TodayInv, TodayLabel, TrueSince, SavedSince, CheckedSince
  <2>24. ASSUME NEW r \in Req, ClearToday(r) PROVE TodayInv'
    <3>1. /\ events' = events /\ today'.data = NoData /\ pc'[r] = "idle"
          /\ \A q \in Req : q # r => pc'[q] = pc[q] /\ job'[q] = job[q]
      BY <1>1, <2>24 DEF ClearToday, EmptyToday, Finish, Goto, TypeOK, table
    <3> QED
      BY <1>1, <3>1 DEF TodayInv, TrueSince, SavedSince, CheckedSince
  <2>25. CASE Tick
    BY <1>1, <2>25 DEF Tick, TodayInv, TrueSince, SavedSince, CheckedSince, table
  <2>26. CASE Restart
    BY <1>1, <2>26 DEF EmptyToday, Restart, TodayInv, table
  <2>27. CASE UNCHANGED vars
    BY <1>1, <2>27 DEF TodayInv, TrueSince, SavedSince, CheckedSince, table, vars
  <2> QED
    BY <1>1, <2>1, <2>2, <2>3, <2>4, <2>5, <2>6, <2>7, <2>8, <2>9, <2>10, <2>11, <2>12, <2>13,
       <2>14, <2>15, <2>16, <2>17, <2>18, <2>19, <2>20, <2>21, <2>22, <2>23, <2>24, <2>25,
       <2>26, <2>27
       DEF Next, Begin, SliceStep, TodayStep, WriterStep

\* A list that no write raced shows its rows as they are and has what its window
\* owes, once every writer has cleared: whatever the order of commits, sessions,
\* passes and clears (movers_today, update_event_market_refresh, the delete route).
THEOREM CleanTodayIsCurrentAlways == Spec => []CleanTodayIsCurrent
<1>1. Init => TodayInv
  BY DEF Init, TodayInv, EmptyToday
<1>2. TypeOK /\ TodayInv /\ [Next]_vars => TodayInv'
  BY ListStep
<1>3. TodayInv => CleanTodayIsCurrent
  BY DEF TodayInv, CleanTodayIsCurrent
<1> QED
  BY <1>1, <1>2, <1>3, MoversTypeCorrect, PTL DEF Spec
=============================================================================
