-------------------------- MODULE MoversProperties --------------------------
(* What the movers caches promise.                                         *)
EXTENDS MoversCache

TypeOK ==
    /\ events \in Table
    /\ lastId \in 0..MaxEvent
    /\ writes \in 0..MaxWrite
    /\ past \subseteq [id : EventId, row : Row, until : Nat]
    /\ unsettled \subseteq EventId
    /\ cache \in [Slice -> Entry \cup {NoEntry}]
    /\ today \in Today
    /\ now \in Nat
    /\ version \in 0..MaxVersion
    /\ pc \in [Req -> Label]
    /\ job \in [Req -> Job]

(* The count and the largest id are enough of a fingerprint: an entry that *)
(* was filled without a write in between, and whose fingerprint is that of *)
(* the table, has exactly the table's events, and their latest evidence    *)
(* unless the invalidation after an in-place refresh is still to come or   *)
(* failed (db.get_events_fingerprint, update_event_market_refresh).        *)
CleanEntryIsCurrent ==
    \A s \in Slice :
        LET e == cache[s] IN
        e # NoEntry /\ e.clean /\ e.fingerprint = Fingerprint(events) =>
            /\ Ids(e.payload) = Ids(events)
            /\ \A i \in EventId \ unsettled : e.payload[i] = events[i]

(* However a fill raced the writers and whatever failed, a hit hides a     *)
(* write for at most the TTL: built_at is taken before the events are read *)
(* (get_slice's now_dt, persisted by _recompute_and_persist).              *)
HitWithinTTL ==
    \A r \in Req : pc[r] = "serve" =>
        LET shown == job[r].cached.payload
            since == job[r].now - SliceTTL[job[r].slice] IN
        /\ \A i \in EventId : events[i] # Absent /\ events[i].at < since => shown[i] = events[i]
        /\ \A old \in past : old.until < since => shown[old.id] # old.row

\* What a list read back to `cutoff` owes its reader.
TrueSince(rows, cutoff, whole) ==
    /\ \A i \in Ids(rows) : rows[i] = events[i]
    /\ SavedSince(cutoff) \subseteq Ids(rows)
    /\ whole => CheckedSince(cutoff) \subseteq Ids(rows)

(* The in-memory list, read without a write in between, is true once every *)
(* writer has cleared it: it shows no deleted event and no replaced row,   *)
(* it has all that was saved in its window, and, unless the second session *)
(* failed, all that was checked in it. Each writer clears after its        *)
(* commit, so no order of commits, of the sessions of the two passes and   *)
(* of clears leaves a dated list that was not raced (movers_today,         *)
(* update_event_market_refresh, the delete route).                         *)
CleanTodayIsCurrent ==
    today.data # NoData /\ today.clean /\ (\A r \in Req : pc[r] \notin WriterLabel) =>
        TrueSince(today.data, today.cutoff, today.whole)
=============================================================================
