------------------------- MODULE HeadlineRegistry -------------------------
(***************************************************************************)
(* headline_registry (db.py): one row per (source, title_key), the cluster *)
(* it was filed under, its lifecycle state and the analysis it is linked   *)
(* to.  A strict inbox candidate owns every row with its cluster and title *)
(* key.  Each writer is one SQL statement, so one atomic step; what is not *)
(* atomic is the link, which reads in one session and updates in another   *)
(* (LinkStatus, then LinkRows).                                            *)
(***************************************************************************)
EXTENDS AnalysisStore

CONSTANT Source

VARIABLE registry

Lifecycle == <<"seen", "eligible", "analyzed", "market_checked", "surfaced",
               "expired_low_impact">>
LifecycleState == {Lifecycle[i] : i \in 1..6}
Rank(state) == CHOOSE i \in 1..6 : Lifecycle[i] = state

RegistryRow == [source : Source, title : Title, cluster : Cluster,
                state : LifecycleState, event : Nat]

RowsOf(cand) == {x \in registry : x.cluster = cand.cluster /\ x.title = cand.title}
LinkedIds(cand) == {x.event : x \in RowsOf(cand)} \ {NoId}

\* get_candidate_analysis_link: "analyzed" when every linked row agrees.
LinkStatus(cand) ==
    IF LinkedIds(cand) = {} THEN "unanalyzed"
    ELSE IF \E id \in LinkedIds(cand) : LinkedIds(cand) = {id} THEN "analyzed"
    ELSE "conflict"

---------------------------------------------------------------------------

RegistryInit == registry = {}

\* upsert_headline_registry_seen: an existing row only moves to the cluster,
\* so ingesting an analysed headline again cannot regress it.
UpsertSeen(source, title, cluster) ==
    LET same(x) == x.source = source /\ x.title = title
    IN  registry' =
            {IF same(x) THEN [x EXCEPT !.cluster = cluster] ELSE x : x \in registry}
            \cup {x \in {[source |-> source, title |-> title, cluster |-> cluster,
                          state |-> "seen", event |-> NoId]} :
                    \A y \in registry : ~same(y)}

\* Fault: the CASE on lower-rank states is dropped.
AdvanceStateAlways(title, new) ==
    registry' = {IF x.title = title THEN [x EXCEPT !.state = new] ELSE x : x \in registry}

\* update_registry_state as its callers use it: the movers backfill has no
\* event_id in its result, so the column is left alone.
AdvanceState(title, new) ==
    registry' = {IF x.title = title /\ Rank(x.state) < Rank(new)
                 THEN [x EXCEPT !.state = new] ELSE x : x \in registry}

\* Fault: the update forgets "AND event_id IS NULL".
LinkRowsOverwriting(cand, id) ==
    registry' = {IF x \in RowsOf(cand)
                 THEN [x EXCEPT !.event = id,
                                !.state = IF @ \in {"seen", "eligible"}
                                          THEN "analyzed" ELSE @]
                 ELSE x : x \in registry}

\* link_candidate_analysis, second session: only rows still without a link.
LinkRows(cand, id) ==
    registry' = {IF x \in RowsOf(cand) /\ x.event = NoId
                 THEN [x EXCEPT !.event = id,
                                !.state = IF @ \in {"seen", "eligible"}
                                          THEN "analyzed" ELSE @]
                 ELSE x : x \in registry}
===========================================================================
