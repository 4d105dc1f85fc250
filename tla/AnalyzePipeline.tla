-------------------------- MODULE AnalyzePipeline --------------------------
(***************************************************************************)
(* POST /analyze and /analyze/stream (routes/analyze.py): concurrent       *)
(* requests that look for a saved analysis, ask for confirmation, pay the  *)
(* provider, save the bundle in one write transaction and link the inbox   *)
(* candidate.  One action per database session or external call, so that   *)
(* requests, deletes, backfill runs, news refreshes and a process crash    *)
(* interleave where the code lets them.                                    *)
(***************************************************************************)
EXTENDS HeadlineRegistry

CONSTANTS
    Req,       \* request slots of the server's thread pool
    NoReq,     \* lock holder when no write transaction is open
    NoCand,    \* candidate of a direct request
    NoHash,    \* basis of a request that has not built one
    ReadFaults,\* whether a cache read may fail, which the code takes for a miss
    MaxId,     \* bound: ids handed out by the events table
    MaxTime    \* bound: clock

ASSUME SentinelAssumption ==
    NoReq \notin Req /\ NoCand \notin Candidate /\ NoHash \notin Hash
ASSUME BoundAssumption ==
    ReadFaults \in BOOLEAN /\ MaxId \in Nat /\ MaxTime \in Nat

VARIABLES
    db,      \* committed version of the database file
    lock,    \* holder of SQLite's write lock
    work,    \* the store as the open write transaction sees it
    now,     \* wall clock
    pc,      \* [Req -> where the handler stands]
    req,     \* [Req -> the request body]
    run      \* [Req -> the handler's local variables and its response]

storeVars == <<db, lock, work>>
vars == <<db, lock, work, now, registry, pc, req, run>>

Writing == {"event", "duplicate", "provenance", "snapshot", "mapping", "commit"}
Active == {"by_id", "lookup", "legacy", "gate", "basis", "provider", "record",
           "begin", "link", "link_update", "reply"} \cup Writing
Label == {"idle", "done"} \cup Active
Uncaught == {"by_id", "lookup", "legacy", "gate", "basis", "provider", "record",
             "reply"}

\* A numeric id comes from the archive's listing: it was handed out earlier.
BodyUpTo(seq) ==
    [headline : Headline, context : Context, cand : Candidate \cup {NoCand},
     eventId : 0..seq, confirm : BOOLEAN]
Body == [headline : Headline, context : Context, cand : Candidate \cup {NoCand},
         eventId : Nat, confirm : BOOLEAN]

Kind == {"none", "by_id", "durable", "legacy", "lookup_unavailable",
         "confirmation_required", "candidate_unavailable", "basis_unavailable",
         "mock", "fresh", "aborted"}

Run == [kind : Kind,
        hash : Hash \cup {NoHash},      \* basis of the confirmed run
        ts : Nat,                       \* timestamp stamped on the record
        id : Nat,                       \* analysis_event_id
        sealed : BOOLEAN,               \* a provenance object was returned
        error : {"none", "raised", "integrity"},   \* persistence_error
        link : {"none", "linked", "already_linked", "conflict", "no_rows"},
        verified : BOOLEAN]             \* provenance reads VERIFIED_CURRENT

NoRun == [kind |-> "none", hash |-> NoHash, ts |-> 0, id |-> NoId,
          sealed |-> FALSE, error |-> "none", link |-> "none", verified |-> FALSE]

NoBody == [headline |-> CHOOSE h \in Headline : TRUE,
           context |-> CHOOSE c \in Context : TRUE, cand |-> NoCand,
           eventId |-> NoId, confirm |-> FALSE]

HashOf(r, macro) ==
    [headline |-> req[r].headline, context |-> req[r].context, macro |-> macro]

Init ==
    /\ db = EmptyStore
    /\ lock = NoReq
    /\ work = EmptyStore
    /\ now = 0
    /\ RegistryInit
    /\ pc = [r \in Req |-> "idle"]
    /\ req = [r \in Req |-> NoBody]
    /\ run = [r \in Req |-> NoRun]

---------------------------------------------------------------------------
(* The handler, one step at a time.                                        *)

Goto(r, label) == pc' = [pc EXCEPT ![r] = label]
Reply(r, kind, id) ==
    /\ Goto(r, "done")
    /\ run' = [run EXCEPT ![r].kind = kind, ![r].id = id]
At(r, label) == pc[r] = label /\ UNCHANGED <<now, req>>
NoWrite == UNCHANGED <<storeVars, registry>>

\* _durable_cached_event turns a read that raises into a miss.
IsMiss(ids) == ids = {} \/ ReadFaults

Start(r) ==
    /\ pc[r] \in {"idle", "done"}
    /\ \E body \in BodyUpTo(db.seq) :
        /\ req' = [req EXCEPT ![r] = body]
        /\ Goto(r, IF body.eventId = NoId THEN "lookup" ELSE "by_id")
    /\ run' = [run EXCEPT ![r] = NoRun]
    /\ UNCHANGED now
    /\ NoWrite

\* A numeric id that no longer exists skips every lookup: "Re-analyze".
LoadById(r) ==
    /\ At(r, "by_id")
    /\ \/ Live(db, req[r].eventId) /\ Reply(r, "by_id", req[r].eventId)
       \/ ~Live(db, req[r].eventId) /\ Goto(r, "gate") /\ UNCHANGED run
    /\ NoWrite

\* Read-only basis: the backdrop is whatever the local rows reproduce, or
\* cannot be reproduced and then is not a verified miss.
Lookup(r) ==
    /\ At(r, "lookup")
    /\ \/ /\ req[r].confirm
          /\ Goto(r, "gate")
          /\ UNCHANGED run
       \/ ~req[r].confirm /\ Reply(r, "lookup_unavailable", NoId)
       \/ \E macro \in Macro :
            LET ids == DurableIds(db, HashOf(r, macro)) IN
            \/ IsMiss(ids) /\ Goto(r, "legacy") /\ UNCHANGED run
            \/ \E id \in ids :
                 /\ Goto(r, "done")
                 /\ run' = [run EXCEPT ![r].kind = "durable", ![r].id = id,
                                       ![r].hash = HashOf(r, macro)]
    /\ NoWrite

LegacyLookup(r) ==
    LET ids == LegacyIds(db, req[r].headline, now) IN
    /\ At(r, "legacy")
    /\ \/ \E id \in ids : Reply(r, "legacy", id)
       \/ IsMiss(ids) /\ Goto(r, "gate") /\ UNCHANGED run
    /\ NoWrite

\* The paid gate, then the candidate's records are captured: the news store
\* (external here) resolves the candidate or does not.
Gate(r) ==
    /\ At(r, "gate")
    /\ \/ ~req[r].confirm /\ Reply(r, "confirmation_required", NoId)
       \/ /\ req[r].confirm
          /\ \/ Goto(r, "basis") /\ UNCHANGED run
             \/ req[r].cand # NoCand /\ Reply(r, "candidate_unavailable", NoId)
    /\ NoWrite

\* Fault: the durable cache is not asked again after the confirmation.
ConfirmedBasisUnchecked(r) ==
    /\ At(r, "basis")
    /\ \/ Reply(r, "basis_unavailable", NoId)
       \/ \E macro \in Macro :
            /\ Goto(r, "provider")
            /\ run' = [run EXCEPT ![r].hash = HashOf(r, macro)]
    /\ NoWrite

\* Confirmed basis: the backdrop may have been refreshed since the lookup, so
\* the durable cache is asked once more -- unless the request named an id.
ConfirmedBasis(r) ==
    /\ At(r, "basis")
    /\ \/ Reply(r, "basis_unavailable", NoId)
       \/ \E macro \in Macro :
            LET hash == HashOf(r, macro)
                ids == IF req[r].eventId = NoId THEN DurableIds(db, hash) ELSE {}
            IN  \/ /\ IsMiss(ids)
                   /\ Goto(r, "provider")
                   /\ run' = [run EXCEPT ![r].hash = hash]
                \/ \E id \in ids :
                     /\ Goto(r, "done")
                     /\ run' = [run EXCEPT ![r].kind = "durable", ![r].id = id,
                                           ![r].hash = hash]
    /\ NoWrite

\* The paid call.  A mock answer is reported and nothing is saved.
CallProvider(r) ==
    /\ At(r, "provider")
    /\ \/ Goto(r, "record") /\ UNCHANGED run
       \/ Reply(r, "mock", NoId)
    /\ NoWrite

\* An exception the handler does not catch (a 500), or a streaming client that
\* goes away at a frame: nobody gets the response, and before the save the paid
\* analysis is gone with the handler.
Abort(r) ==
    /\ pc[r] \in Uncaught
    /\ Goto(r, "done")
    /\ run' = [run EXCEPT ![r] = [NoRun EXCEPT !.kind = "aborted"]]
    /\ UNCHANGED <<now, req>>
    /\ NoWrite

\* market_check, then _build_event_record stamps the row's timestamp.
BuildRecord(r) ==
    /\ At(r, "record")
    /\ Goto(r, "begin")
    /\ run' = [run EXCEPT ![r].ts = now]
    /\ NoWrite

---------------------------------------------------------------------------
(* The bundle: one BEGIN IMMEDIATE transaction.                            *)

\* Fault: no busy timeout, a waiting writer waits for ever.
BeginImmediateNoTimeout(r) ==
    /\ At(r, "begin")
    /\ lock = NoReq
    /\ lock' = r
    /\ work' = db
    /\ Goto(r, "event")
    /\ UNCHANGED <<db, registry, run>>

\* The write lock is free, or the 30 s busy timeout raises.
BeginImmediate(r) ==
    /\ At(r, "begin")
    /\ \/ /\ lock = NoReq
          /\ lock' = r
          /\ work' = db
          /\ Goto(r, "event")
          /\ UNCHANGED run
       \/ /\ lock # NoReq
          /\ Goto(r, "reply")
          /\ run' = [run EXCEPT ![r].error = "raised"]
          /\ UNCHANGED <<lock, work>>
    /\ UNCHANGED <<db, registry>>

\* Fault: the rows inserted before the failure are committed.
RollbackCommitting(r, error) ==
    /\ lock' = NoReq
    /\ db' = work
    /\ Goto(r, "reply")
    /\ run' = [run EXCEPT ![r].id = NoId, ![r].sealed = FALSE, ![r].error = error]
    /\ UNCHANGED <<work, registry>>

\* Fault: the provenance object survives the rollback.
RollbackSealed(r, error) ==
    /\ lock' = NoReq
    /\ work' = db
    /\ Goto(r, "reply")
    /\ run' = [run EXCEPT ![r].error = error]
    /\ UNCHANGED <<db, registry>>

\* Fault: the candidate is linked to the id of the rolled back row.
RollbackLinking(r, error) ==
    /\ lock' = NoReq
    /\ work' = db
    /\ Goto(r, IF req[r].cand = NoCand THEN "reply" ELSE "link")
    /\ run' = [run EXCEPT ![r].sealed = FALSE, ![r].error = error]
    /\ UNCHANGED <<db, registry>>

Rollback(r, error) ==
    /\ lock' = NoReq
    /\ work' = db
    /\ Goto(r, "reply")
    /\ run' = [run EXCEPT ![r].id = NoId, ![r].sealed = FALSE, ![r].error = error]
    /\ UNCHANGED <<db, registry>>

\* One INSERT of the bundle: it extends the transaction's view, or finds its
\* key taken (IntegrityError) and the whole bundle rolls back.
Insert(r, free, store, next) ==
    \/ /\ free
       /\ work' = store
       /\ Goto(r, next)
       /\ UNCHANGED <<db, lock, registry, run>>
    \/ ~free /\ Rollback(r, "integrity")

\* _insert_event_row.  _is_duplicate asks for a row saved for the headline
\* inside the window.
InsertEvent(r) ==
    LET dups == DuplicateRows(work, req[r].headline, now) IN
    /\ At(r, "event")
    /\ \/ /\ dups # {}
          /\ Goto(r, "duplicate")
          /\ UNCHANGED run
          /\ NoWrite
       \/ /\ dups = {}
          /\ work.seq < MaxId
          /\ work' = WithEvent(work, req[r].headline, run[r].ts, run[r].hash)
          /\ run' = [run EXCEPT ![r].id = NextId(work)]
          /\ Goto(r, IF req[r].cand = NoCand THEN "snapshot" ELSE "provenance")
          /\ UNCHANGED <<db, lock, registry>>

\* _duplicate_event_id asks again, by a clock of its own: the newest such row is
\* the one reported, or none if the window has passed it by.  Either way nothing
\* downstream is written.
DuplicateId(r) ==
    LET ids == LatestIds(DuplicateRows(work, req[r].headline, now)) IN
    /\ At(r, "duplicate")
    /\ \/ \E id \in ids : run' = [run EXCEPT ![r].id = id]
       \/ ids = {} /\ UNCHANGED run
    /\ Goto(r, "commit")
    /\ NoWrite

InsertProvenance(r) ==
    /\ At(r, "provenance")
    /\ \/ /\ ProvenanceFree(work, run[r].id)
          /\ work' = WithProvenance(work, run[r].id, req[r].cand, run[r].hash)
          /\ run' = [run EXCEPT ![r].sealed = TRUE]
          /\ Goto(r, "snapshot")
          /\ UNCHANGED <<db, lock, registry>>
       \/ ~ProvenanceFree(work, run[r].id) /\ Rollback(r, "integrity")

InsertSnapshot(r) ==
    /\ At(r, "snapshot")
    /\ Insert(r, SnapshotFree(work, run[r].id),
              WithSnapshot(work, run[r].id, run[r].hash), "mapping")

InsertMapping(r) ==
    /\ At(r, "mapping")
    /\ Insert(r, MappingFree(work, run[r].hash, run[r].id),
              WithMapping(work, run[r].hash, run[r].id), "commit")

\* Any statement or builder of the bundle, COMMIT included, may raise.
WriterRaises(r) ==
    /\ pc[r] \in Writing
    /\ Rollback(r, "raised")
    /\ UNCHANGED <<now, req>>

\* Without an id, or without a candidate, there is nothing to link.
Commit(r) ==
    /\ At(r, "commit")
    /\ db' = work
    /\ lock' = NoReq
    /\ Goto(r, IF req[r].cand = NoCand \/ run[r].id = NoId THEN "reply" ELSE "link")
    /\ UNCHANGED <<work, registry, run>>

---------------------------------------------------------------------------
(* Candidate link and response.                                            *)

\* First session: anything already linked decides the outcome.  An exception
\* in either session is caught and leaves the outcome unset.
LinkRead(r) ==
    LET cand == req[r].cand
        outcome(o) == Goto(r, "reply") /\ run' = [run EXCEPT ![r].link = o]
    IN  /\ At(r, "link")
        /\ \/ LinkStatus(cand) = "conflict" /\ outcome("conflict")
           \/ /\ LinkStatus(cand) = "analyzed"
              /\ \/ run[r].id \notin LinkedIds(cand) /\ outcome("conflict")
                 \/ run[r].id \in LinkedIds(cand) /\ outcome("already_linked")
           \/ LinkStatus(cand) = "unanalyzed" /\ Goto(r, "link_update") /\ UNCHANGED run
           \/ Goto(r, "reply") /\ UNCHANGED run
        /\ NoWrite

\* Second session.
LinkUpdate(r) ==
    LET open == {x \in RowsOf(req[r].cand) : x.event = NoId}
        outcome == IF open = {} THEN "no_rows" ELSE "linked"
    IN  /\ At(r, "link_update")
        /\ Goto(r, "reply")
        /\ \/ /\ lock = NoReq
              /\ LinkRows(req[r].cand, run[r].id)
              /\ run' = [run EXCEPT ![r].link = outcome]
           \/ UNCHANGED <<registry, run>>
        /\ UNCHANGED storeVars

\* _fresh_provenance_summary and the response.
Respond(r) ==
    /\ At(r, "reply")
    /\ Goto(r, "done")
    /\ run' = [run EXCEPT ![r].kind = "fresh",
                          ![r].verified = @ \/ (/\ run[r].sealed
                                                /\ run[r].id # NoId
                                                /\ run[r].link # "conflict")]
    /\ NoWrite

---------------------------------------------------------------------------
(* The rest of the system.                                                 *)

\* DELETE /events/{id}.
DeleteEvent(id) ==
    /\ lock = NoReq
    /\ Live(db, id)
    /\ db' = WithoutEvent(db, id)
    /\ work' = WithoutEvent(db, id)
    /\ UNCHANGED <<lock, now, registry, pc, req, run>>

\* save_event on its own, as the movers backfill uses it: no sidecars.
SaveUnmapped(headline) ==
    /\ lock = NoReq
    /\ DuplicateRows(db, headline, now) = {}
    /\ db.seq < MaxId
    /\ db' = WithEvent(db, headline, now, Unmapped)
    /\ work' = db'
    /\ UNCHANGED <<lock, now, registry, pc, req, run>>

\* The backfill's registry stamps after a run.
BackfillStamp(title) ==
    /\ lock = NoReq
    /\ \E new \in {"analyzed", "market_checked"} : AdvanceState(title, new)
    /\ UNCHANGED <<db, lock, work, now, pc, req, run>>

\* News refresh files a record no earlier refresh has assigned to a cluster.
NewsRefresh(source, title, cluster) ==
    /\ lock = NoReq
    /\ \A x \in registry : x.source # source \/ x.title # title
    /\ UpsertSeen(source, title, cluster)
    /\ UNCHANGED <<db, lock, work, now, pc, req, run>>

\* datetime.now() is local wall time: it goes forward, and back at a DST change
\* or a clock correction.
ClockMoves ==
    /\ now' \in (0..MaxTime) \ {now}
    /\ UNCHANGED <<db, lock, work, registry, pc, req, run>>

\* The process dies: handlers vanish, SQLite rolls the open transaction back.
Crash ==
    /\ \E r \in Req : pc[r] \in Active
    /\ lock' = NoReq
    /\ work' = db
    /\ pc' = [r \in Req |-> "idle"]
    /\ req' = [r \in Req |-> NoBody]
    /\ run' = [r \in Req |-> NoRun]
    /\ UNCHANGED <<db, now, registry>>

HandlerStep(r) ==
    \/ LoadById(r) \/ Lookup(r) \/ LegacyLookup(r) \/ Gate(r) \/ ConfirmedBasis(r)
    \/ CallProvider(r) \/ Abort(r) \/ BuildRecord(r) \/ BeginImmediate(r)
    \/ InsertEvent(r) \/ DuplicateId(r) \/ InsertProvenance(r) \/ InsertSnapshot(r)
    \/ InsertMapping(r) \/ WriterRaises(r) \/ Commit(r)
    \/ LinkRead(r) \/ LinkUpdate(r) \/ Respond(r)

Environment ==
    \/ \E id \in 1..MaxId : DeleteEvent(id)
    \/ \E headline \in Headline : SaveUnmapped(headline)
    \/ \E title \in Title : BackfillStamp(title)
    \/ \E s \in Source, t \in Title, c \in Cluster : NewsRefresh(s, t, c)
    \/ ClockMoves
    \/ Crash

Next == (\E r \in Req : Start(r) \/ HandlerStep(r)) \/ Environment

\* The thread pool runs every started handler to its end.
Fairness == \A r \in Req : WF_vars(HandlerStep(r))

Spec == Init /\ [][Next]_vars
FairSpec == Spec /\ Fairness
===========================================================================
