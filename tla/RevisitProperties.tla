------------------------- MODULE RevisitProperties -------------------------
(* What the writers of the market evidence keep, and what they do not.     *)
EXTENDS EventRevisit

TypeOK ==
    /\ rows \in [Event -> Row \cup {NoRow}]
    /\ lastId \in 0..MaxEvent
    /\ writer \in Capturer \cup {Free}
    /\ now \in MinTime..MaxTime
    /\ refresh \in [Refresher -> Refresh]
    /\ capture \in [Capturer -> Capture]
    /\ due \in [Event -> SUBSET Anchors]
    /\ visited \in SUBSET Event
    /\ log \in SUBSET LogEntry
    /\ faults \in 0..MaxFault

\* The stored verdict is the one of the stored tickers, whichever refreshes
\* and captures of the row overlapped.
VerdictMatchesTickers ==
    \A e \in Event : rows[e] # NoRow => rows[e].verdict = Label(rows[e].tickers)

\* A captured day stays captured for as long as the row exists: concurrent
\* captures do not clobber each other.
CapturesKept ==
    [][\A e \in Event : rows[e] # NoRow /\ rows'[e] # NoRow =>
        Captured(rows[e]) \subseteq Captured(rows'[e])]_vars

\* Overlapping refreshes, captures, saves and deletes do to the table what single
\* writes would do one after the other: a refresh takes back no snapshot, a
\* capture no ticker list and no verdict of a refresh and no other capture's
\* day, none brings back a deleted event, and no snapshot is of a day that had
\* not come (update_event_market_refresh, append_revisit_snapshot).  A refresh
\* against a refresh is not protected: the later write wins, with a list that
\* may have been loaded before the earlier one.
Atomic == INSTANCE AtomicEvidence
ImplementsAtomicEvidence == Atomic!Spec

\* A pass that returned has an entry for every day it found due, or
\* somebody else captured the day or deleted the event: one failing event or
\* day loses no other.
PassIsComplete ==
    capture[Daemon].pc = "idle" =>
        \A e \in Event : \A d \in due[e] :
            \/ \E status \in Status : [event |-> e, day |-> d, status |-> status] \in log
            \/ rows[e] = NoRow
            \/ d \in Captured(rows[e])

\* An entry "captured" is true: the snapshot is stored, unless the event has
\* been deleted since.
CapturedIsStored ==
    \A x \in log : x.status = "captured" /\ rows[x.event] # NoRow =>
        x.day \in Captured(rows[x.event])

\* e is one of the ScanLimit newest rows.
Newest(e) ==
    /\ rows[e] # NoRow
    /\ Cardinality({f \in (e + 1)..MaxEvent : rows[f] # NoRow}) < ScanLimit

\* What is due on one of the newest rows is tried, captured, deleted, pushed
\* out of them by new events or out of its grace window in the end: a failing
\* day is neither skipped forever nor does it keep the pass from others.
DueIsTried ==
    \A e \in Event : \A d \in Anchors :
        (Newest(e) /\ d \in DueDays(rows[e], now)) ~>
        \/ \E status \in Status : [event |-> e, day |-> d, status |-> status] \in log
        \/ rows[e] = NoRow \/ ~Newest(e)
        \/ d \notin DueDays(rows[e], now)

\* A pass ends whatever is deleted, raises or stays locked under it; the next
\* one can begin.
EveryPassEnds == capture[Daemon].pc # "idle" ~> capture[Daemon].pc = "idle"

---------------------------------------------------------------------------
(* Stated by the repository, not kept by the code.                         *)

\* The daemon does not overwrite a day somebody captured since the pass began.
DaemonNeverOverwrites ==
    [][\A e \in Event : rows[e] # NoRow /\ rows'[e] # NoRow =>
        \A d \in Captured(rows[e]) :
            writer = Daemon => rows'[e].snaps[d] = rows[e].snaps[d]]_vars
===========================================================================
