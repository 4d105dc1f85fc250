--------------------------- MODULE AnalysisStore ---------------------------
(***************************************************************************)
(* The four tables one analysis is spread over (db.py): the events row and *)
(* its sidecars -- analysis_provenance, analysis_result_snapshot and       *)
(* analysis_request_cache.  A table is a set of rows; a store is one       *)
(* version of the database file.  The module holds no variable: the        *)
(* pipeline keeps one committed store and one private to the open write    *)
(* transaction, and both are built with the operators below.               *)
(*                                                                         *)
(* Abstractions.  A headline stands for the pair (headline, event_date) a  *)
(* row is keyed on.  A request hash is the request basis itself, so two    *)
(* hashes are equal exactly when the bases are (SHA-256 does not collide): *)
(* the headline, the caller's context and the macro backdrop rendered into *)
(* the prompt; provider, model and contract versions are constant here.    *)
(* `by` is the request whose analysis the row's columns carry.             *)
(***************************************************************************)
EXTENDS Naturals

CONSTANTS
    Headline,    \* (headline, event_date) pairs
    Context,     \* event_context texts
    Macro,       \* macro backdrops the market data can currently produce
    Cluster,     \* parent cluster ids of the news store
    Title,       \* normalised title keys
    Unmapped,    \* origin of a row saved without sidecars
    DupWindow,   \* the 10 minutes of _is_duplicate, in clock units
    LegacyTTL    \* the 24 hours of find_cached_analysis, in clock units

ASSUME InhabitedAssumption == Headline # {} /\ Context # {}
ASSUME WindowAssumption ==
    DupWindow \in Nat /\ LegacyTTL \in Nat /\ DupWindow <= LegacyTTL

Hash == [headline : Headline, context : Context, macro : Macro]
ASSUME UnmappedAssumption == Unmapped \notin Hash

Candidate == [cluster : Cluster, title : Title]

NoId == 0
Id == Nat \ {NoId}

EventRow == [id : Id, headline : Headline, ts : Nat, by : Hash \cup {Unmapped}]
ProvenanceRow == [id : Id, cand : Candidate, by : Hash]
SnapshotRow == [id : Id, by : Hash]
MappingRow == [hash : Hash, id : Id]

Store == [seq : Nat,                 \* sqlite_sequence of the events table
          events : SUBSET EventRow,
          provenance : SUBSET ProvenanceRow,
          snapshots : SUBSET SnapshotRow,
          mapping : SUBSET MappingRow]

EmptyStore == [seq |-> 0, events |-> {}, provenance |-> {},
               snapshots |-> {}, mapping |-> {}]

\* ORDER BY id DESC LIMIT 1: no id, or the newest one.
LatestIds(rows) == {i \in {e.id : e \in rows} : \A e \in rows : e.id <= i}

Live(s, id) == \E e \in s.events : e.id = id

---------------------------------------------------------------------------
(* Reads of the request path.                                              *)

DuplicateRows(s, headline, now) ==
    {e \in s.events : e.headline = headline /\ now <= e.ts + DupWindow}

\* Fault: the event behind the mapping is not looked for.
DurableIdsUnchecked(s, hash) == {m.id : m \in {n \in s.mapping : n.hash = hash}}

\* Mapping, then event, then snapshot: a gap at any of them is a miss.  Three
\* sessions, but only the event can change between them, so the answer is the
\* one the store gives when the event is read.
DurableIds(s, hash) ==
    {m.id : m \in {n \in s.mapping :
        /\ n.hash = hash
        /\ Live(s, n.id)
        /\ \E x \in s.snapshots : x.id = n.id}}

LegacyRows(s, headline, now) ==
    {e \in s.events : e.headline = headline /\ now <= e.ts + LegacyTTL}

\* Fault: the eligibility check against the request mapping is dropped.
LegacyIdsAnyRow(s, headline, now) == LatestIds(LegacyRows(s, headline, now))

\* Only the newest matching row is looked at: a mapped one hides older rows.
LegacyIds(s, headline, now) ==
    {i \in LatestIds(LegacyRows(s, headline, now)) : \A m \in s.mapping : m.id # i}

---------------------------------------------------------------------------
(* Writes.  AUTOINCREMENT never gives an id out twice, even after a        *)
(* delete; the sidecar writers are plain INSERTs, so a primary key or      *)
(* UNIQUE column that is taken raises instead of replacing.                *)

\* Fault: the sequence is read before it is incremented.
NextIdStale(s) == s.seq

NextId(s) == s.seq + 1

WithEvent(s, headline, ts, by) ==
    [s EXCEPT !.seq = NextId(s),
              !.events = @ \cup {[id |-> NextId(s), headline |-> headline,
                                  ts |-> ts, by |-> by]}]

ProvenanceFree(s, id) == \A p \in s.provenance : p.id # id
SnapshotFree(s, id) == \A x \in s.snapshots : x.id # id

\* Fault: only the UNIQUE column is kept, a request hash may repeat.
MappingFreeById(s, hash, id) == \A m \in s.mapping : m.id # id

MappingFree(s, hash, id) == \A m \in s.mapping : m.hash # hash /\ m.id # id

WithProvenance(s, id, cand, by) ==
    [s EXCEPT !.provenance = @ \cup {[id |-> id, cand |-> cand, by |-> by]}]

WithSnapshot(s, id, by) ==
    [s EXCEPT !.snapshots = @ \cup {[id |-> id, by |-> by]}]

WithMapping(s, hash, id) ==
    [s EXCEPT !.mapping = @ \cup {[hash |-> hash, id |-> id]}]

\* Fault: the delete takes the request mapping with it.
WithoutEventOrMapping(s, id) ==
    [s EXCEPT !.events = {e \in @ : e.id # id}, !.mapping = {m \in @ : m.id # id}]

\* Foreign keys are not enforced: the sidecars of a deleted event stay.
WithoutEvent(s, id) == [s EXCEPT !.events = {e \in @ : e.id # id}]
===========================================================================
