------------------------- MODULE AnalyzeProperties -------------------------
(***************************************************************************)
(* What the analyze pipeline must keep true, and what it implements.       *)
(***************************************************************************)
EXTENDS AnalyzePipeline

\* Every variable stays in its type.
TypeOK ==
    /\ db \in Store
    /\ work \in Store
    /\ lock \in Req \cup {NoReq}
    /\ now \in Nat
    /\ registry \subseteq RegistryRow
    /\ pc \in [Req -> Label]
    /\ req \in [Req -> Body]
    /\ run \in [Req -> Run]

---------------------------------------------------------------------------
(* The saved bundle.                                                       *)

\* Ids are handed out once: a table never mentions an id above the sequence.
IdsIssued(s) ==
    /\ \A e \in s.events : e.id <= s.seq
    /\ \A p \in s.provenance : p.id <= s.seq
    /\ \A x \in s.snapshots : x.id <= s.seq
    /\ \A m \in s.mapping : m.id <= s.seq

\* One row per id, and the request mapping is 1:1 in both directions.
KeysUnique(s) ==
    /\ \A e, f \in s.events : e.id = f.id => e = f
    /\ \A x, y \in s.snapshots : x.id = y.id => x = y
    /\ \A m, n \in s.mapping : m.id = n.id \/ m.hash = n.hash => m = n

MappingIsSnapshot(s) ==
    /\ \A x \in s.snapshots : [hash |-> x.by, id |-> x.id] \in s.mapping
    /\ \A m \in s.mapping : [id |-> m.id, by |-> m.hash] \in s.snapshots

ProvenanceHasSnapshot(s) ==
    \A p \in s.provenance : [id |-> p.id, by |-> p.by] \in s.snapshots

EventHasBundle(s) ==
    \A e \in s.events :
        /\ e.by # Unmapped => /\ [id |-> e.id, by |-> e.by] \in s.snapshots
                              /\ e.headline = e.by.headline
        /\ e.by = Unmapped => SnapshotFree(s, e.id)

StoreOK(s) ==
    /\ IdsIssued(s)
    /\ KeysUnique(s)
    /\ MappingIsSnapshot(s)
    /\ ProvenanceHasSnapshot(s)
    /\ EventHasBundle(s)

\* A reader of the database, at any moment, between any two statements of any
\* request's transaction and after any crash or rollback, sees whole bundles:
\* an analysed event has the snapshot and mapping of the request that produced
\* it, an unmapped one has none, no sidecar describes another row's analysis
\* (save_event_with_analysis_provenance: "All requested rows commit or none
\* do").
CompleteBundle == IdsIssued(db) /\ ProvenanceHasSnapshot(db) /\ EventHasBundle(db)

\* The request cache resolves a hash to the one analysis that exact request
\* produced, deleted or not, whatever raced to save it ("a changed one can
\* never be served an old result").
RequestIdentity == KeysUnique(db) /\ MappingIsSnapshot(db)

\* Sidecars are append-only and an id, once issued, is never issued again: not
\* after a delete, a rollback or a crash.
SidecarsAppendOnly ==
    [][/\ db.provenance \subseteq db'.provenance
       /\ db.snapshots \subseteq db'.snapshots
       /\ db.mapping \subseteq db'.mapping
       /\ \A e \in db'.events \ db.events : e.id > db.seq]_vars

---------------------------------------------------------------------------
(* Responses.                                                              *)

\* A row saved with a request mapping is never served by the weak headline
\* match, not even later while the response is read: "reachable exclusively
\* through its exact request hash".
LegacyAnswerUnmapped ==
    \A r \in Req : run[r].kind = "legacy" =>
        /\ \A m \in db.mapping : m.id # run[r].id
        /\ run[r].id <= db.seq

\* A run that reports a sealed provenance has that candidate's provenance, for
\* that request and under the id it reports, committed in the database.
SealedIsRecorded ==
    \A r \in Req : run[r].sealed /\ pc[r] \notin Writing =>
        [id |-> run[r].id, cand |-> req[r].cand, by |-> run[r].hash]
            \in db.provenance

\* The id a run reports, in the database or in the view its transaction writes.
ReportsSaved(s, r) ==
    /\ run[r].id \in 1..s.seq
    /\ \A e \in s.events : e.id = run[r].id => e.headline = req[r].headline

ReportsNothing(r) == run[r].id = NoId /\ ~run[r].sealed /\ run[r].link = "none" /\ ~run[r].verified

\* What the transaction leaves a run without an id for: its headline has a row.
LeavesForADuplicate(r) ==
    pc[r] = "commit" /\ run[r].id = NoId =>
        \E e \in work.events : e.headline = req[r].headline

\* A paid answer says what became of it, for as long as it is read.  Without a
\* persistence error its id was committed and is that of its own headline,
\* unless deleted -- or it names nothing at all, which happens only when a
\* duplicate was found and left the window before its id was asked for (the two
\* clocks of _is_duplicate and _duplicate_event_id).  With an error it names no
\* id, provenance or link; and only a mapping of the very same request can have
\* made the store refuse the bundle, never another request or an id that was
\* used before.
FreshIsAccountedFor ==
    \A r \in Req :
        /\ LeavesForADuplicate(r)
        /\ run[r].kind = "fresh" =>
             CASE run[r].error = "none" -> ReportsSaved(db, r) \/ ReportsNothing(r)
               [] run[r].error = "raised" -> ReportsNothing(r)
               [] run[r].error = "integrity" ->
                    ReportsNothing(r) /\ \E m \in db.mapping : m.hash = run[r].hash

\* Money is spent only by a confirmed request, and only for a miss: no usable
\* saved analysis of the same request when the confirmed basis was looked up (or
\* a lookup that failed), or a numeric id that has been deleted for good.
PaysOnlyForAMiss ==
    [][\A r \in Req : pc'[r] = "provider" /\ pc[r] # "provider" =>
        /\ req[r].confirm
        /\ req[r].eventId = NoId => IsMiss(DurableIds(db, run'[r].hash))
        /\ req[r].eventId # NoId => ~Live(db, req[r].eventId)]_vars

\* The database and the responses implement the write-once cache: every
\* transaction, crash and race is a save, an erase, an answer or a stutter.
Durable == INSTANCE DurableAnalyses WITH
    Request <- Hash,
    Asker <- Req,
    analyses <- db.snapshots,
    erased <- {x.id : x \in {y \in db.snapshots : ~Live(db, y.id)}},
    answer <- [r \in Req |->
        IF run[r].kind = "durable" THEN {[id |-> run[r].id, by |-> run[r].hash]}
        ELSE {}]

ImplementsDurableAnalyses == Durable!Spec

\* Every request that was started gets its response, whoever holds the write
\* lock and whatever fails, unless the process dies.
EveryRequestEnds == \A r \in Req : pc[r] \in Active ~> pc[r] \notin Active

---------------------------------------------------------------------------
(* The candidate link.                                                     *)

\* A candidate is only ever linked to an analysis that was committed: "a mock,
\* degraded, failed or unpersisted run must never leave a link behind".
LinkedWasCommitted == \A x \in registry : x.event <= db.seq

\* Two runs of one candidate may race between the link's read and its update;
\* the link that was stored first is never moved or cleared.
LinkNeverMoves ==
    [][\A x \in registry : x.event # NoId =>
        \E y \in registry' : /\ y.source = x.source /\ y.title = x.title
                             /\ y.event = x.event]_vars

\* Lifecycle states only move forward, with the backfill's stamps, links and
\* news refreshes in any order.
RegistryForward ==
    [][\A x \in registry, y \in registry' :
        y.source = x.source /\ y.title = x.title =>
            Rank(y.state) >= Rank(x.state)]_vars

---------------------------------------------------------------------------
(* Stated by the repository, not kept by the code.                         *)

\* A miss that fails closed asks for a confirmation, and the confirmed run is
\* saved: nothing but a raising writer makes a paid analysis unsaveable.
PaidRunIsSaved == \A r \in Req : run[r].error # "integrity"

\* A candidate marked analysed has a recorded basis.
LinkHasProvenance ==
    \A x \in registry : x.event # NoId =>
        \E p \in db.provenance : p.id = x.event
===========================================================================
