---------------------------- MODULE AnalyzeProofs ----------------------------
(***************************************************************************)
(* Proofs about the analyze pipeline, for every number of requests,        *)
(* headlines, candidates and sources and every bound.                      *)
(***************************************************************************)
EXTENDS AnalyzeProperties, TLAPS

\* The stages of a bundle, as views of the committed store: the row, the row
\* with its basis, with its result, with its request mapping.
RowStage(r) == WithEvent(db, req[r].headline, run[r].ts, run[r].hash)
BasisStage(r) ==
    IF req[r].cand = NoCand THEN RowStage(r)
    ELSE WithProvenance(RowStage(r), run[r].id, req[r].cand, run[r].hash)
ResultStage(r) == WithSnapshot(BasisStage(r), run[r].id, run[r].hash)
BundleStage(r) == WithMapping(ResultStage(r), run[r].hash, run[r].id)

HasBasis == {"provider", "record", "begin", "link", "link_update", "reply"} \cup Writing

\* A request past the confirmed basis carries the hash of its own headline.
BasisOK(r) ==
    pc[r] \in HasBasis =>
        run[r].hash \in Hash /\ run[r].hash.headline = req[r].headline

\* The write lock is held exactly by the request inside its transaction, and
\* nothing is uncommitted when nobody holds it.
LockOK ==
    /\ lock = NoReq => work = db
    /\ \A r \in Req : pc[r] \in Writing <=> lock = r

\* What the open transaction has done so far, stage by stage.
TransactionOK(r) ==
    /\ pc[r] \in {"event", "duplicate"} => work = db
    /\ pc[r] \in {"provenance", "snapshot", "mapping"} => run[r].id = NextId(db)
    /\ pc[r] = "provenance" => req[r].cand # NoCand /\ work = RowStage(r)
    /\ pc[r] = "snapshot" => work = BasisStage(r)
    /\ pc[r] = "mapping" => work = ResultStage(r)
    /\ pc[r] = "commit" =>
        \/ work = db
        \/ /\ run[r].id = NextId(db)
           /\ work = BundleStage(r)
           /\ MappingFree(db, run[r].hash, run[r].id)

\* The inductive invariant.
IInv ==
    /\ TypeOK
    /\ StoreOK(db)
    /\ LockOK
    /\ \A r \in Req : BasisOK(r) /\ TransactionOK(r)

---------------------------------------------------------------------------
(* The store's operators.                                                  *)

\* A store stays a store under every write.
LEMMA EventWrite ==
    ASSUME NEW s \in Store, NEW h \in Headline, NEW ts \in Nat,
           NEW by \in Hash \cup {Unmapped}
    PROVE  NextId(s) \in Id /\ WithEvent(s, h, ts, by) \in Store
<1>1. NextId(s) \in Id
  BY DEF NextId, Id, NoId, Store
<1>2. [id |-> NextId(s), headline |-> h, ts |-> ts, by |-> by] \in EventRow
  BY <1>1 DEF EventRow
<1>3. NextId(s) \in Nat
  BY <1>1 DEF Id
<1> QED BY <1>1, <1>2, <1>3 DEF WithEvent, Store

LEMMA SidecarWrites ==
    ASSUME NEW s \in Store, NEW id \in Id, NEW hash \in Hash
    PROVE  /\ \A cand \in Candidate : WithProvenance(s, id, cand, hash) \in Store
           /\ WithSnapshot(s, id, hash) \in Store
           /\ WithMapping(s, hash, id) \in Store
BY DEF WithProvenance, WithSnapshot, WithMapping, Store, ProvenanceRow, SnapshotRow, MappingRow

\* A delete only removes event rows.
LEMMA DeleteIsStore ==
    ASSUME NEW s \in Store, NEW id PROVE WithoutEvent(s, id) \in Store
BY DEF WithoutEvent, Store

---------------------------------------------------------------------------
(* Types and bases.                                                        *)

\* What the types of the model say about one request.
LEMMA RequestTypes ==
    ASSUME TypeOK, NEW r \in Req
    PROVE  /\ pc[r] \in Label
           /\ req[r] \in Body
           /\ run[r] \in Run
           /\ \A macro \in Macro :
                HashOf(r, macro) \in Hash /\ HashOf(r, macro).headline = req[r].headline
BY DEF TypeOK, HashOf, Hash, Body

\* The sentinels have the types they are used at.
LEMMA Sentinels == NoRun \in Run /\ NoBody \in Body
BY InhabitedAssumption DEF NoRun, NoBody, Run, Body, Kind, NoId

\* Moving a request to a label, or answering it, respects the types.
LEMMA GotoTyped ==
    ASSUME TypeOK, NEW r \in Req, NEW label \in Label, Goto(r, label)
    PROVE  pc' \in [Req -> Label]
BY DEF TypeOK, Goto

LEMMA RunTyped ==
    ASSUME TypeOK, NEW r \in Req, NEW x \in Run
    PROVE  [run EXCEPT ![r] = x] \in [Req -> Run]
BY DEF TypeOK

LEMMA ReplyTyped ==
    ASSUME TypeOK, NEW r \in Req, NEW kind \in Kind, NEW id \in Nat, Reply(r, kind, id)
    PROVE  pc' \in [Req -> Label] /\ run' \in [Req -> Run]
<1>1. run[r] \in Run
  BY DEF TypeOK
<1>2. [run[r] EXCEPT !.kind = kind, !.id = id] \in Run
  BY <1>1 DEF Run
<1>3. run' = [run EXCEPT ![r] = [run[r] EXCEPT !.kind = kind, !.id = id]]
  BY DEF Reply
<1>4. "done" \in Label
  BY DEF Label
<1> QED BY <1>2, <1>3, <1>4, RunTyped, GotoTyped DEF Reply

\* The ids a read returns are ids.
LEMMA ReadIds ==
    ASSUME NEW s \in Store, NEW hash, NEW headline, NEW t
    PROVE  /\ DurableIds(s, hash) \subseteq Id
           /\ LegacyIds(s, headline, t) \subseteq Id
           /\ LatestIds(DuplicateRows(s, headline, t)) \subseteq Id
<1>1. (\A e \in s.events : e.id \in Id) /\ (\A m \in s.mapping : m.id \in Id)
  BY DEF Store, EventRow, MappingRow
<1>2. DurableIds(s, hash) \subseteq Id
  BY <1>1 DEF DurableIds
<1>3. LegacyIds(s, headline, t) \subseteq Id
  BY <1>1 DEF LegacyIds, LatestIds, LegacyRows
<1>4. LatestIds(DuplicateRows(s, headline, t)) \subseteq Id
  BY <1>1 DEF LatestIds, DuplicateRows
<1> QED BY <1>2, <1>3, <1>4

\* Answering from the durable cache respects the types.
LEMMA DurableAnswerTyped ==
    ASSUME TypeOK, NEW r \in Req, NEW id \in Id, NEW hash \in Hash, Goto(r, "done"),
           run' = [run EXCEPT ![r].kind = "durable", ![r].id = id, ![r].hash = hash]
    PROVE  pc' \in [Req -> Label] /\ run' \in [Req -> Run]
<1>1. [run[r] EXCEPT !.kind = "durable", !.id = id, !.hash = hash] \in Run
  BY RequestTypes DEF Run, Kind, Id
<1>2. run' = [run EXCEPT ![r] = [run[r] EXCEPT !.kind = "durable", !.id = id, !.hash = hash]]
  OBVIOUS
<1>3. "done" \in Label
  BY DEF Label
<1> QED BY <1>1, <1>2, <1>3, RunTyped, GotoTyped

LEMMA RollbackTyped ==
    ASSUME TypeOK, NEW r \in Req, NEW error \in {"raised", "integrity"}, Rollback(r, error)
    PROVE  /\ pc' \in [Req -> Label] /\ run' \in [Req -> Run]
           /\ lock' = NoReq /\ work' \in Store
           /\ UNCHANGED <<db, registry>>
<1>1. [run[r] EXCEPT !.id = NoId, !.sealed = FALSE, !.error = error] \in Run
  BY RequestTypes DEF Run, NoId
<1>2. run' = [run EXCEPT ![r] = [run[r] EXCEPT !.id = NoId, !.sealed = FALSE, !.error = error]]
  BY DEF Rollback
<1>3. "reply" \in Label
  BY DEF Label, Active
<1> QED BY <1>1, <1>2, <1>3, RunTyped, GotoTyped DEF Rollback, TypeOK

\* The id a transaction works on is the one it was given by the insert.
LEMMA StageTypes ==
    ASSUME TypeOK, NEW r \in Req, BasisOK(r), TransactionOK(r), pc[r] \in Writing
    PROVE  /\ run[r].hash \in Hash
           /\ pc[r] \in {"provenance", "snapshot", "mapping"} => run[r].id \in Id
           /\ pc[r] = "provenance" => req[r].cand \in Candidate
<1>1. run[r].hash \in Hash
  BY DEF BasisOK, HasBasis
<1>2. NextId(db) \in Id
  BY DEF TypeOK, NextId, Id, NoId, Store
<1>3. req[r].cand \in Candidate \cup {NoCand}
  BY RequestTypes DEF Body
<1> QED BY <1>1, <1>2, <1>3 DEF TransactionOK

\* Every write to the registry leaves registry rows.
LEMMA RegistryWrites ==
    ASSUME registry \subseteq RegistryRow
    PROVE  /\ \A s \in Source, t \in Title, c \in Cluster :
                UpsertSeen(s, t, c) => registry' \subseteq RegistryRow
           /\ \A t : \A new \in LifecycleState :
                AdvanceState(t, new) => registry' \subseteq RegistryRow
           /\ \A cand : \A id \in Nat : LinkRows(cand, id) => registry' \subseteq RegistryRow
<1>1. {"seen", "analyzed"} \subseteq LifecycleState
  BY DEF LifecycleState, Lifecycle
<1>2. ASSUME NEW s \in Source, NEW t \in Title, NEW c \in Cluster, UpsertSeen(s, t, c)
      PROVE  registry' \subseteq RegistryRow
  <2>1. [source |-> s, title |-> t, cluster |-> c, state |-> "seen", event |-> NoId]
            \in RegistryRow
    BY <1>1 DEF RegistryRow, NoId
  <2>2. \A x \in registry : [x EXCEPT !.cluster = c] \in RegistryRow
    BY DEF RegistryRow
  <2> QED BY <1>2, <2>1, <2>2 DEF UpsertSeen
<1>3. ASSUME NEW t, NEW new \in LifecycleState, AdvanceState(t, new)
      PROVE  registry' \subseteq RegistryRow
  <2>1. \A x \in registry : [x EXCEPT !.state = new] \in RegistryRow
    BY DEF RegistryRow
  <2> QED BY <1>3, <2>1 DEF AdvanceState
<1>4. ASSUME NEW cand, NEW id \in Nat, LinkRows(cand, id)
      PROVE  registry' \subseteq RegistryRow
  <2>1. ASSUME NEW x \in registry
        PROVE  [x EXCEPT !.event = id,
                         !.state = IF @ \in {"seen", "eligible"} THEN "analyzed" ELSE @]
                   \in RegistryRow
    BY <1>1 DEF RegistryRow
  <2> QED BY <1>4, <2>1 DEF LinkRows
<1> QED BY <1>2, <1>3, <1>4

LEMMA TypeStep ==
    ASSUME TypeOK, \A r \in Req : BasisOK(r) /\ TransactionOK(r), [Next]_vars
    PROVE  TypeOK'
<1> USE DEF NoWrite, storeVars, At
<1>1. ASSUME NEW r \in Req, Start(r) PROVE TypeOK'
  <2>1. PICK body \in BodyUpTo(db.seq) :
            /\ req' = [req EXCEPT ![r] = body]
            /\ Goto(r, IF body.eventId = NoId THEN "lookup" ELSE "by_id")
    BY <1>1 DEF Start
  <2>2. body \in Body
    BY <2>1 DEF BodyUpTo, Body, TypeOK, Store
  <2>3. pc' \in [Req -> Label] /\ req' \in [Req -> Body] /\ run' \in [Req -> Run]
    BY <1>1, <2>1, <2>2, Sentinels DEF TypeOK, Start, Goto, Label, Active
  <2> QED BY <1>1, <2>3 DEF Start, TypeOK
<1>2. ASSUME NEW r \in Req, LoadById(r) PROVE TypeOK'
  <2>1. req[r].eventId \in Nat /\ "by_id" \in Kind /\ "gate" \in Label
    BY RequestTypes DEF Body, Kind, Label, Active
  <2>2. pc' \in [Req -> Label] /\ run' \in [Req -> Run]
    BY <1>2, <2>1, ReplyTyped, GotoTyped DEF LoadById, TypeOK
  <2> QED BY <1>2, <2>2 DEF LoadById, TypeOK
<1>3. ASSUME NEW r \in Req, Lookup(r) PROVE TypeOK'
  <2>1. NoId \in Nat /\ {"gate", "legacy"} \subseteq Label /\ "lookup_unavailable" \in Kind
    BY DEF NoId, Label, Active, Kind
  <2>2. \A macro \in Macro : /\ HashOf(r, macro) \in Hash
                             /\ DurableIds(db, HashOf(r, macro)) \subseteq Id
    BY RequestTypes, ReadIds DEF TypeOK
  <2>3. pc' \in [Req -> Label] /\ run' \in [Req -> Run]
    BY <1>3, <2>1, <2>2, ReplyTyped, GotoTyped, DurableAnswerTyped DEF Lookup, TypeOK
  <2> QED BY <1>3, <2>3 DEF Lookup, TypeOK
<1>4. ASSUME NEW r \in Req, LegacyLookup(r) PROVE TypeOK'
  <2>1. LegacyIds(db, req[r].headline, now) \subseteq Nat
    BY ReadIds DEF TypeOK, Id
  <2>2. "gate" \in Label /\ "legacy" \in Kind
    BY DEF Label, Active, Kind
  <2>3. pc' \in [Req -> Label] /\ run' \in [Req -> Run]
    BY <1>4, <2>1, <2>2, ReplyTyped, GotoTyped DEF LegacyLookup, TypeOK
  <2> QED BY <1>4, <2>3 DEF LegacyLookup, TypeOK
<1>5. ASSUME NEW r \in Req, Gate(r) PROVE TypeOK'
  <2>1. /\ NoId \in Nat /\ "basis" \in Label
        /\ {"confirmation_required", "candidate_unavailable"} \subseteq Kind
    BY DEF NoId, Label, Active, Kind
  <2>2. pc' \in [Req -> Label] /\ run' \in [Req -> Run]
    BY <1>5, <2>1, ReplyTyped, GotoTyped DEF Gate, TypeOK
  <2> QED BY <1>5, <2>2 DEF Gate, TypeOK
<1>6. ASSUME NEW r \in Req, ConfirmedBasis(r) PROVE TypeOK'
  <2>1. NoId \in Nat /\ "provider" \in Label /\ "basis_unavailable" \in Kind
    BY DEF NoId, Label, Active, Kind
  <2>2. \A macro \in Macro :
            /\ HashOf(r, macro) \in Hash
            /\ DurableIds(db, HashOf(r, macro)) \subseteq Id
            /\ [run EXCEPT ![r].hash = HashOf(r, macro)] \in [Req -> Run]
    <3> SUFFICES ASSUME NEW macro \in Macro
                 PROVE  /\ HashOf(r, macro) \in Hash
                        /\ DurableIds(db, HashOf(r, macro)) \subseteq Id
                        /\ [run EXCEPT ![r].hash = HashOf(r, macro)] \in [Req -> Run]
      OBVIOUS
    <3>1. HashOf(r, macro) \in Hash /\ DurableIds(db, HashOf(r, macro)) \subseteq Id
      BY RequestTypes, ReadIds DEF TypeOK
    <3>2. [run[r] EXCEPT !.hash = HashOf(r, macro)] \in Run
      BY <3>1, RequestTypes DEF Run
    <3> QED BY <3>1, <3>2 DEF TypeOK
  <2>3. pc' \in [Req -> Label] /\ run' \in [Req -> Run]
    BY <1>6, <2>1, <2>2, ReplyTyped, GotoTyped, DurableAnswerTyped DEF ConfirmedBasis
  <2> QED BY <1>6, <2>3 DEF ConfirmedBasis, TypeOK
<1>7. ASSUME NEW r \in Req, CallProvider(r) PROVE TypeOK'
  <2>1. NoId \in Nat /\ "record" \in Label /\ "mock" \in Kind
    BY DEF NoId, Label, Active, Kind
  <2>2. pc' \in [Req -> Label] /\ run' \in [Req -> Run]
    BY <1>7, <2>1, ReplyTyped, GotoTyped DEF CallProvider, TypeOK
  <2> QED BY <1>7, <2>2 DEF CallProvider, TypeOK
<1>8. ASSUME NEW r \in Req, Abort(r) PROVE TypeOK'
  <2>1. "done" \in Label /\ [NoRun EXCEPT !.kind = "aborted"] \in Run
    BY Sentinels DEF Label, Run, Kind
  <2>2. pc' \in [Req -> Label] /\ run' \in [Req -> Run]
    BY <1>8, <2>1, GotoTyped, RunTyped DEF Abort
  <2> QED BY <1>8, <2>2 DEF Abort, TypeOK
<1>9. ASSUME NEW r \in Req, BuildRecord(r) PROVE TypeOK'
  <2>1. "begin" \in Label /\ [run[r] EXCEPT !.ts = now] \in Run
    BY RequestTypes DEF Label, Active, Run, TypeOK
  <2>2. pc' \in [Req -> Label] /\ run' \in [Req -> Run]
    BY <1>9, <2>1, GotoTyped, RunTyped DEF BuildRecord
  <2> QED BY <1>9, <2>2 DEF BuildRecord, TypeOK
<1>10. ASSUME NEW r \in Req, BeginImmediate(r) PROVE TypeOK'
  <2>1. {"event", "reply"} \subseteq Label /\ [run[r] EXCEPT !.error = "raised"] \in Run
    BY RequestTypes DEF Label, Active, Writing, Run
  <2>2. pc' \in [Req -> Label] /\ run' \in [Req -> Run]
    BY <1>10, <2>1, GotoTyped, RunTyped DEF BeginImmediate, TypeOK
  <2> QED BY <1>10, <2>2 DEF BeginImmediate, TypeOK
<1>11. ASSUME NEW r \in Req, InsertEvent(r) PROVE TypeOK'
  <2>1. {"duplicate", "snapshot", "provenance"} \subseteq Label
    BY DEF Label, Active, Writing
  <2>2. run[r].hash \in Hash /\ req[r].headline \in Headline /\ run[r].ts \in Nat
    BY <1>11, StageTypes, RequestTypes DEF InsertEvent, Writing, Body, Run
  <2>3. /\ NextId(work) \in Nat
        /\ WithEvent(work, req[r].headline, run[r].ts, run[r].hash) \in Store
    BY <2>2, EventWrite DEF TypeOK, Id
  <2>4. [run[r] EXCEPT !.id = NextId(work)] \in Run
    BY <2>3, RequestTypes DEF Run
  <2>5. pc' \in [Req -> Label] /\ run' \in [Req -> Run] /\ work' \in Store
    BY <1>11, <2>1, <2>3, <2>4, RunTyped, GotoTyped DEF InsertEvent, TypeOK
  <2> QED BY <1>11, <2>5 DEF InsertEvent, TypeOK
<1>11a. ASSUME NEW r \in Req, DuplicateId(r) PROVE TypeOK'
  <2>1. "commit" \in Label
    BY DEF Label, Active, Writing
  <2>2. LatestIds(DuplicateRows(work, req[r].headline, now)) \subseteq Nat
    BY ReadIds DEF TypeOK, Id
  <2>3. \A id \in Nat : [run[r] EXCEPT !.id = id] \in Run
    BY RequestTypes DEF Run
  <2>4. pc' \in [Req -> Label] /\ run' \in [Req -> Run]
    BY <1>11a, <2>1, <2>2, <2>3, RunTyped, GotoTyped DEF DuplicateId, TypeOK
  <2> QED BY <1>11a, <2>4 DEF DuplicateId, TypeOK
<1>12. ASSUME NEW r \in Req, InsertProvenance(r) PROVE TypeOK'
  <2>1. "snapshot" \in Label /\ [run[r] EXCEPT !.sealed = TRUE] \in Run
    BY RequestTypes DEF Label, Active, Writing, Run
  <2>2. WithProvenance(work, run[r].id, req[r].cand, run[r].hash) \in Store
    BY <1>12, StageTypes, SidecarWrites DEF InsertProvenance, Writing, TypeOK
  <2>3. pc' \in [Req -> Label] /\ run' \in [Req -> Run] /\ work' \in Store
    BY <1>12, <2>1, <2>2, GotoTyped, RunTyped, RollbackTyped DEF InsertProvenance
  <2> QED BY <1>12, <2>3, RollbackTyped DEF InsertProvenance, TypeOK
<1>13. ASSUME NEW r \in Req, InsertSnapshot(r) PROVE TypeOK'
  <2>1. "mapping" \in Label
    BY DEF Label, Active, Writing
  <2>2. WithSnapshot(work, run[r].id, run[r].hash) \in Store
    BY <1>13, StageTypes, SidecarWrites DEF InsertSnapshot, Writing, TypeOK
  <2>3. pc' \in [Req -> Label] /\ run' \in [Req -> Run] /\ work' \in Store
    BY <1>13, <2>1, <2>2, GotoTyped, RollbackTyped DEF InsertSnapshot, Insert, TypeOK
  <2> QED BY <1>13, <2>3, RollbackTyped DEF InsertSnapshot, Insert, TypeOK
<1>14. ASSUME NEW r \in Req, InsertMapping(r) PROVE TypeOK'
  <2>1. "commit" \in Label
    BY DEF Label, Active, Writing
  <2>2. WithMapping(work, run[r].hash, run[r].id) \in Store
    BY <1>14, StageTypes, SidecarWrites DEF InsertMapping, Writing, TypeOK
  <2>3. pc' \in [Req -> Label] /\ run' \in [Req -> Run] /\ work' \in Store
    BY <1>14, <2>1, <2>2, GotoTyped, RollbackTyped DEF InsertMapping, Insert, TypeOK
  <2> QED BY <1>14, <2>3, RollbackTyped DEF InsertMapping, Insert, TypeOK
<1>15. ASSUME NEW r \in Req, WriterRaises(r) PROVE TypeOK'
  BY <1>15, RollbackTyped DEF WriterRaises, TypeOK
<1>16. ASSUME NEW r \in Req, Commit(r) PROVE TypeOK'
  <2>1. {"reply", "link"} \subseteq Label
    BY DEF Label, Active
  <2>2. pc' \in [Req -> Label]
    BY <1>16, <2>1, GotoTyped DEF Commit
  <2> QED BY <1>16, <2>2 DEF Commit, TypeOK
<1>17. ASSUME NEW r \in Req, LinkRead(r) PROVE TypeOK'
  <2>1. /\ {"reply", "link_update"} \subseteq Label
        /\ \A o \in {"conflict", "already_linked"} : [run[r] EXCEPT !.link = o] \in Run
    BY RequestTypes DEF Label, Active, Run
  <2>2. pc' \in [Req -> Label] /\ run' \in [Req -> Run]
    BY <1>17, <2>1, GotoTyped, RunTyped DEF LinkRead, TypeOK
  <2> QED BY <1>17, <2>2 DEF LinkRead, TypeOK
<1>18. ASSUME NEW r \in Req, LinkUpdate(r) PROVE TypeOK'
  <2>1. /\ "reply" \in Label /\ run[r].id \in Nat
        /\ \A o \in {"no_rows", "linked"} : [run[r] EXCEPT !.link = o] \in Run
    BY RequestTypes DEF Label, Active, Run
  <2>2. pc' \in [Req -> Label] /\ run' \in [Req -> Run]
    BY <1>18, <2>1, GotoTyped, RunTyped DEF LinkUpdate, TypeOK
  <2>3. registry' \subseteq RegistryRow
    <3>1. LinkRows(req[r].cand, run[r].id) \/ registry' = registry
      BY <1>18 DEF LinkUpdate
    <3>2. registry \subseteq RegistryRow
      BY DEF TypeOK
    <3> QED BY <2>1, <3>1, <3>2, RegistryWrites
  <2> QED BY <1>18, <2>2, <2>3 DEF LinkUpdate, TypeOK
<1>19. ASSUME NEW r \in Req, Respond(r) PROVE TypeOK'
  <2>1. /\ "done" \in Label
        /\ \A v \in BOOLEAN : [run[r] EXCEPT !.kind = "fresh", !.verified = v] \in Run
    BY RequestTypes DEF Label, Run, Kind
  <2>2. PICK v \in BOOLEAN :
            run' = [run EXCEPT ![r] = [run[r] EXCEPT !.kind = "fresh", !.verified = v]]
    <3>1. run[r].verified \in BOOLEAN /\ run[r].sealed \in BOOLEAN
      BY RequestTypes DEF Run
    <3> QED BY <1>19, <3>1 DEF Respond
  <2>3. pc' \in [Req -> Label] /\ run' \in [Req -> Run]
    BY <1>19, <2>1, <2>2, GotoTyped, RunTyped DEF Respond
  <2> QED BY <1>19, <2>3 DEF Respond, TypeOK
<1>20. ASSUME NEW id, DeleteEvent(id) PROVE TypeOK'
  BY <1>20, DeleteIsStore DEF DeleteEvent, TypeOK
<1>21. ASSUME NEW headline \in Headline, SaveUnmapped(headline) PROVE TypeOK'
  <2>1. WithEvent(db, headline, now, Unmapped) \in Store
    BY EventWrite DEF TypeOK
  <2> QED BY <1>21, <2>1 DEF SaveUnmapped, TypeOK
<1>22. ASSUME NEW title, BackfillStamp(title) PROVE TypeOK'
  <2>1. PICK new \in {"analyzed", "market_checked"} : AdvanceState(title, new)
    BY <1>22 DEF BackfillStamp
  <2>2. new \in LifecycleState
    BY DEF LifecycleState, Lifecycle
  <2>3. registry' \subseteq RegistryRow
    BY <2>1, <2>2, RegistryWrites DEF TypeOK
  <2> QED BY <1>22, <2>3 DEF BackfillStamp, TypeOK
<1>23. ASSUME NEW s \in Source, NEW t \in Title, NEW c \in Cluster, NewsRefresh(s, t, c)
       PROVE  TypeOK'
  BY <1>23, RegistryWrites DEF NewsRefresh, TypeOK
<1>24. CASE ClockMoves
  BY <1>24, BoundAssumption DEF ClockMoves, TypeOK
<1>25. CASE Crash
  BY <1>25, Sentinels DEF Crash, TypeOK, Label
<1>26. CASE UNCHANGED vars
  BY <1>26 DEF vars, TypeOK
<1> QED
  BY <1>1, <1>2, <1>3, <1>4, <1>5, <1>6, <1>7, <1>8, <1>9, <1>10, <1>11, <1>12, <1>13,
     <1>14, <1>15, <1>16, <1>17, <1>18, <1>19, <1>20, <1>21, <1>22, <1>23, <1>24, <1>25,
     <1>26, <1>11a DEF Next, HandlerStep, Environment

---------------------------------------------------------------------------
(* Who changes what.                                                       *)

Own(r) == Start(r) \/ HandlerStep(r)

\* A handler's step leaves the other requests alone.
LEMMA OthersUnchanged ==
    ASSUME TypeOK, NEW q \in Req, Own(q), NEW r \in Req, r # q
    PROVE  pc'[r] = pc[r] /\ req'[r] = req[r] /\ run'[r] = run[r]
<1> USE DEF TypeOK, Goto, Reply, At
<1>1. CASE Start(q)
  BY <1>1 DEF Start
<1>2. CASE LoadById(q) \/ Lookup(q) \/ LegacyLookup(q)
  BY <1>2 DEF LoadById, Lookup, LegacyLookup
<1>3. CASE Gate(q) \/ ConfirmedBasis(q) \/ CallProvider(q)
  BY <1>3 DEF Gate, ConfirmedBasis, CallProvider
<1>4. CASE Abort(q) \/ BuildRecord(q) \/ BeginImmediate(q)
  BY <1>4 DEF Abort, BuildRecord, BeginImmediate
<1>5. CASE InsertEvent(q) \/ DuplicateId(q) \/ InsertProvenance(q)
  BY <1>5 DEF InsertEvent, DuplicateId, InsertProvenance, Rollback
<1>6. CASE InsertSnapshot(q) \/ InsertMapping(q)
  BY <1>6 DEF InsertSnapshot, InsertMapping, Insert, Rollback
<1>7. CASE WriterRaises(q) \/ Commit(q)
  BY <1>7 DEF WriterRaises, Commit, Rollback
<1>8. CASE LinkRead(q) \/ LinkUpdate(q) \/ Respond(q)
  BY <1>8 DEF LinkRead, LinkUpdate, Respond
<1> QED BY <1>1, <1>2, <1>3, <1>4, <1>5, <1>6, <1>7, <1>8 DEF Own, HandlerStep

\* The other processes leave every request alone, unless the process dies, and
\* touch the store only while nobody holds the write lock.
LEMMA EnvironmentFrame ==
    ASSUME Environment, ~Crash
    PROVE  /\ UNCHANGED <<lock, pc, req, run>>
           /\ \/ UNCHANGED <<db, work>>
              \/ lock = NoReq /\ \E id : Live(db, id) /\ db' = WithoutEvent(db, id) /\ work' = db'
              \/ lock = NoReq /\ \E h \in Headline :
                    /\ db' = WithEvent(db, h, now, Unmapped)
                    /\ work' = db'
BY DEF Environment, DeleteEvent, SaveUnmapped, BackfillStamp, NewsRefresh, ClockMoves

---------------------------------------------------------------------------
(* The basis of a run.                                                     *)

LEMMA BasisOwn ==
    ASSUME TypeOK, NEW r \in Req, BasisOK(r), Own(r)
    PROVE  BasisOK(r)'
<1> USE DEF TypeOK, Goto, Reply, At, BasisOK, HasBasis, Writing
<1>1. CASE Start(r)
  BY <1>1 DEF Start
<1>2. CASE LoadById(r) \/ Lookup(r) \/ LegacyLookup(r)
  BY <1>2 DEF LoadById, Lookup, LegacyLookup
<1>3. CASE ConfirmedBasis(r)
  <2>1. CASE pc'[r] # "provider"
    BY <1>3, <2>1 DEF ConfirmedBasis
  <2>2. CASE pc'[r] = "provider"
    <3>1. PICK macro \in Macro : run'[r].hash = HashOf(r, macro)
      BY <1>3, <2>2, RequestTypes DEF ConfirmedBasis, Run
    <3>2. req' = req
      BY <1>3 DEF ConfirmedBasis
    <3> QED BY <3>1, <3>2, RequestTypes
  <2> QED BY <2>1, <2>2
<1>4. CASE Gate(r) \/ CallProvider(r) \/ Abort(r)
  BY <1>4 DEF Gate, CallProvider, Abort
<1>5. CASE BuildRecord(r) \/ BeginImmediate(r)
  BY <1>5, RequestTypes DEF BuildRecord, BeginImmediate, Run
<1>6. CASE InsertEvent(r) \/ DuplicateId(r) \/ InsertProvenance(r)
  BY <1>6, RequestTypes DEF InsertEvent, DuplicateId, InsertProvenance, Rollback, Run
<1>7. CASE InsertSnapshot(r) \/ InsertMapping(r)
  BY <1>7, RequestTypes DEF InsertSnapshot, InsertMapping, Insert, Rollback, Run
<1>8. CASE WriterRaises(r) \/ Commit(r)
  BY <1>8, RequestTypes DEF WriterRaises, Commit, Rollback, Run
<1>9. CASE LinkRead(r) \/ LinkUpdate(r) \/ Respond(r)
  BY <1>9, RequestTypes DEF LinkRead, LinkUpdate, Respond, Run
<1> QED BY <1>1, <1>2, <1>3, <1>4, <1>5, <1>6, <1>7, <1>8, <1>9 DEF Own, HandlerStep

LEMMA BasisStep ==
    ASSUME TypeOK, NEW r \in Req, BasisOK(r), [Next]_vars
    PROVE  BasisOK(r)'
<1>1. ASSUME NEW q \in Req, Own(q) PROVE BasisOK(r)'
  <2>1. CASE q = r
    BY <1>1, <2>1, BasisOwn
  <2>2. CASE q # r
    BY <1>1, <2>2, OthersUnchanged DEF BasisOK
  <2> QED BY <2>1, <2>2
<1>2. CASE Environment /\ ~Crash
  BY <1>2, EnvironmentFrame DEF BasisOK
<1>3. CASE Crash
  BY <1>3 DEF Crash, BasisOK, HasBasis, Writing
<1>4. CASE UNCHANGED vars
  BY <1>4 DEF vars, BasisOK
<1> QED BY <1>1, <1>2, <1>3, <1>4 DEF Next, Own, Environment

---------------------------------------------------------------------------
(* The write lock.                                                         *)

\* A handler that is neither in its transaction nor about to open it leaves
\* the store and the lock alone.
Quiet(q) ==
    \/ Start(q) \/ LoadById(q) \/ Lookup(q) \/ LegacyLookup(q) \/ Gate(q)
    \/ ConfirmedBasis(q) \/ CallProvider(q) \/ Abort(q) \/ BuildRecord(q)
    \/ LinkRead(q) \/ LinkUpdate(q) \/ Respond(q)

LEMMA QuietFrame ==
    ASSUME TypeOK, NEW q \in Req, Quiet(q)
    PROVE  /\ pc[q] \notin Writing /\ pc'[q] \notin Writing
           /\ UNCHANGED <<db, lock, work>>
<1> USE DEF TypeOK, Goto, Reply, At, NoWrite, storeVars, Writing
<1>1. CASE Start(q)
  BY <1>1 DEF Start
<1>2. CASE LoadById(q) \/ Lookup(q) \/ LegacyLookup(q)
  BY <1>2 DEF LoadById, Lookup, LegacyLookup
<1>3. CASE Gate(q) \/ ConfirmedBasis(q) \/ CallProvider(q)
  BY <1>3 DEF Gate, ConfirmedBasis, CallProvider
<1>4. CASE Abort(q) \/ BuildRecord(q)
  BY <1>4 DEF Abort, BuildRecord, Uncaught
<1>5. CASE LinkRead(q) \/ LinkUpdate(q) \/ Respond(q)
  BY <1>5 DEF LinkRead, LinkUpdate, Respond
<1> QED BY <1>1, <1>2, <1>3, <1>4, <1>5 DEF Quiet

\* A handler takes the lock only when it is free, keeps it while it is in its
\* transaction, and gives it up with nothing left uncommitted.
LEMMA LockOwn ==
    ASSUME TypeOK, LockOK, NEW q \in Req, Own(q)
    PROVE  /\ pc'[q] \in Writing <=> lock' = q
           /\ lock' = NoReq => work' = db'
           /\ lock' = lock \/ (lock \in {q, NoReq} /\ lock' \in {q, NoReq})
           /\ lock \notin {q, NoReq} => UNCHANGED <<db, work>>
<1>1. CASE Quiet(q)
  BY <1>1, QuietFrame DEF LockOK
<1> USE SentinelAssumption DEF TypeOK, Goto, At, NoWrite, storeVars, Writing
<1>2. CASE BeginImmediate(q)
  BY <1>2 DEF BeginImmediate, LockOK
<1>3. CASE InsertEvent(q) \/ DuplicateId(q)
  BY <1>3 DEF InsertEvent, DuplicateId, LockOK
<1>4. CASE InsertProvenance(q)
  BY <1>4 DEF InsertProvenance, Rollback, LockOK
<1>5. CASE InsertSnapshot(q) \/ InsertMapping(q)
  BY <1>5 DEF InsertSnapshot, InsertMapping, Insert, Rollback, LockOK
<1>6. CASE WriterRaises(q)
  BY <1>6 DEF WriterRaises, Rollback, LockOK
<1>7. CASE Commit(q)
  BY <1>7 DEF Commit, LockOK
<1> QED BY <1>1, <1>2, <1>3, <1>4, <1>5, <1>6, <1>7 DEF Own, HandlerStep, Quiet

LEMMA LockStep ==
    ASSUME TypeOK, LockOK, [Next]_vars
    PROVE  LockOK'
<1>1. ASSUME NEW q \in Req, Own(q) PROVE LockOK'
  <2>1. \A r \in Req : pc'[r] \in Writing <=> lock' = r
    BY <1>1, LockOwn, OthersUnchanged, SentinelAssumption DEF LockOK
  <2> QED BY <1>1, <2>1, LockOwn DEF LockOK
<1>2. CASE Environment /\ ~Crash
  BY <1>2, EnvironmentFrame DEF LockOK
<1>3. CASE Crash
  BY <1>3, SentinelAssumption DEF Crash, LockOK, Writing
<1>4. CASE UNCHANGED vars
  BY <1>4 DEF vars, LockOK
<1> QED BY <1>1, <1>2, <1>3, <1>4 DEF Next, Own, Environment

---------------------------------------------------------------------------
(* The open transaction.                                                   *)

\* The stages depend on the committed store and on the request's own data.
LEMMA TransactionFrame ==
    ASSUME NEW r \in Req, TransactionOK(r),
           pc'[r] = pc[r], req'[r] = req[r], run'[r] = run[r],
           pc[r] \in Writing => UNCHANGED <<db, work>>
    PROVE  TransactionOK(r)'
BY DEF TransactionOK, Writing, RowStage, BasisStage, ResultStage, BundleStage, MappingFree

LEMMA TransactionOwn ==
    ASSUME TypeOK, NEW r \in Req, LockOK, TransactionOK(r), Own(r)
    PROVE  TransactionOK(r)'
<1> USE DEF TypeOK, Goto, Reply, At, NoWrite, storeVars
<1>1. CASE pc'[r] \notin Writing
  BY <1>1 DEF TransactionOK, Writing
<1>2. CASE BeginImmediate(r) /\ pc'[r] \in Writing
  BY <1>2 DEF BeginImmediate, TransactionOK, Writing
<1>3. CASE InsertEvent(r)
  <2>1. work = db
    BY <1>3 DEF InsertEvent, TransactionOK
  <2>2. CASE pc'[r] = "duplicate"
    BY <1>3, <2>1, <2>2 DEF InsertEvent, TransactionOK
  <2>3. CASE pc'[r] # "duplicate"
    <3>1. /\ work' = WithEvent(db, req[r].headline, run[r].ts, run[r].hash)
          /\ run' = [run EXCEPT ![r].id = NextId(db)]
          /\ pc'[r] = IF req[r].cand = NoCand THEN "snapshot" ELSE "provenance"
          /\ UNCHANGED <<db, req>>
      BY <1>3, <2>1, <2>3 DEF InsertEvent
    <3>2. /\ run'[r].id = NextId(db)
          /\ run'[r].hash = run[r].hash
          /\ run'[r].ts = run[r].ts
      BY <3>1, RequestTypes DEF Run
    <3> QED BY <3>1, <3>2 DEF TransactionOK, RowStage, BasisStage, NextId
  <2> QED BY <2>2, <2>3
<1>3a. CASE DuplicateId(r)
  BY <1>3a DEF DuplicateId, TransactionOK
<1>4. CASE InsertProvenance(r) /\ pc'[r] \in Writing
  <2>1. /\ pc[r] = "provenance" /\ pc'[r] = "snapshot"
        /\ work' = WithProvenance(work, run[r].id, req[r].cand, run[r].hash)
        /\ run' = [run EXCEPT ![r].sealed = TRUE]
        /\ UNCHANGED <<db, req>>
    BY <1>4 DEF InsertProvenance, Rollback, Writing
  <2>2. /\ run'[r].id = run[r].id
        /\ run'[r].hash = run[r].hash
        /\ run'[r].ts = run[r].ts
    BY <2>1, RequestTypes DEF Run
  <2> QED BY <2>1, <2>2 DEF TransactionOK, RowStage, BasisStage, NextId
<1>5. CASE InsertSnapshot(r) /\ pc'[r] \in Writing
  <2>1. /\ pc[r] = "snapshot" /\ pc'[r] = "mapping"
        /\ work' = WithSnapshot(work, run[r].id, run[r].hash)
        /\ UNCHANGED <<db, req, run>>
    BY <1>5 DEF InsertSnapshot, Insert, Rollback, Writing
  <2> QED BY <2>1 DEF TransactionOK, RowStage, BasisStage, ResultStage, NextId
<1>6. CASE InsertMapping(r) /\ pc'[r] \in Writing
  <2>1. /\ pc[r] = "mapping" /\ pc'[r] = "commit"
        /\ MappingFree(work, run[r].hash, run[r].id)
        /\ work' = WithMapping(work, run[r].hash, run[r].id)
        /\ UNCHANGED <<db, req, run>>
    BY <1>6 DEF InsertMapping, Insert, Rollback, Writing
  <2>2. work = ResultStage(r) /\ run[r].id = NextId(db)
    BY <2>1 DEF TransactionOK
  <2>3. ResultStage(r).mapping = db.mapping
    BY DEF ResultStage, BasisStage, RowStage, WithSnapshot, WithProvenance, WithEvent, Store
  <2>4. MappingFree(db, run[r].hash, run[r].id)
    BY <2>1, <2>2, <2>3 DEF MappingFree
  <2>5. work' = BundleStage(r)'
    BY <2>1, <2>2 DEF BundleStage, ResultStage, BasisStage, RowStage
  <2> QED BY <2>1, <2>2, <2>4, <2>5 DEF TransactionOK, NextId, MappingFree
<1>7. CASE Quiet(r) \/ WriterRaises(r) \/ Commit(r)
  BY <1>1, <1>7, QuietFrame DEF WriterRaises, Rollback, Commit, Writing
<1> QED BY <1>1, <1>2, <1>3, <1>3a, <1>4, <1>5, <1>6, <1>7 DEF Own, HandlerStep, Quiet

LEMMA TransactionStep ==
    ASSUME TypeOK, LockOK, NEW r \in Req, TransactionOK(r), [Next]_vars
    PROVE  TransactionOK(r)'
<1>1. ASSUME NEW q \in Req, Own(q) PROVE TransactionOK(r)'
  <2>1. CASE q = r
    BY <1>1, <2>1, TransactionOwn
  <2>2. CASE q # r
    <3>1. pc[r] \in Writing => UNCHANGED <<db, work>>
      BY <1>1, <2>2, LockOwn, SentinelAssumption DEF LockOK
    <3> QED BY <1>1, <2>2, <3>1, OthersUnchanged, TransactionFrame
  <2> QED BY <2>1, <2>2
<1>2. CASE Environment /\ ~Crash
  <2>1. pc[r] \in Writing => lock # NoReq
    BY SentinelAssumption DEF LockOK
  <2> QED BY <1>2, <2>1, EnvironmentFrame, TransactionFrame
<1>3. CASE Crash
  BY <1>3 DEF Crash, TransactionOK
<1>4. CASE UNCHANGED vars
  BY <1>4, TransactionFrame DEF vars
<1> QED BY <1>1, <1>2, <1>3, <1>4 DEF Next, Own, Environment

---------------------------------------------------------------------------
(* The committed store.                                                    *)

\* t is s with the bundle of one run in it.
AddsBundle(s, t, id, hash, ts, cand) ==
    /\ t.seq = id
    /\ t.events = s.events \cup {[id |-> id, headline |-> hash.headline,
                                  ts |-> ts, by |-> hash]}
    /\ \/ t.provenance = s.provenance
       \/ t.provenance = s.provenance \cup {[id |-> id, cand |-> cand, by |-> hash]}
    /\ t.snapshots = s.snapshots \cup {[id |-> id, by |-> hash]}
    /\ t.mapping = s.mapping \cup {[hash |-> hash, id |-> id]}

\* A whole bundle under a fresh id and a free hash keeps the store whole.
LEMMA BundleOK ==
    ASSUME NEW s \in Store, StoreOK(s), NEW id, id = NextId(s),
           NEW hash \in Hash, MappingFree(s, hash, id), NEW ts, NEW cand, NEW t,
           AddsBundle(s, t, id, hash, ts, cand)
    PROVE  StoreOK(t)
<1> USE DEF AddsBundle
<1>1. s.seq \in Nat /\ id = s.seq + 1
  BY DEF Store, NextId
<1>2. /\ \A e \in s.events : e.id \in Nat /\ e.id < id
      /\ \A p \in s.provenance : p.id \in Nat /\ p.id < id
      /\ \A x \in s.snapshots : x.id \in Nat /\ x.id < id
      /\ \A m \in s.mapping : m.id \in Nat /\ m.id < id
  <2>1. /\ \A e \in s.events : e.id \in Nat
        /\ \A p \in s.provenance : p.id \in Nat
        /\ \A x \in s.snapshots : x.id \in Nat
        /\ \A m \in s.mapping : m.id \in Nat
    BY DEF Store, EventRow, ProvenanceRow, SnapshotRow, MappingRow, Id
  <2> QED BY <1>1, <2>1 DEF StoreOK, IdsIssued
<1>3. IdsIssued(t)
  BY <1>1, <1>2 DEF IdsIssued
<1>4. KeysUnique(t)
  BY <1>1, <1>2 DEF StoreOK, KeysUnique, MappingFree
<1>5. MappingIsSnapshot(t)
  BY DEF StoreOK, MappingIsSnapshot
<1>6. ProvenanceHasSnapshot(t)
  <2> SUFFICES ASSUME NEW p \in t.provenance
               PROVE  [id |-> p.id, by |-> p.by] \in t.snapshots
    BY DEF ProvenanceHasSnapshot
  <2>1. CASE p \in s.provenance
    BY <2>1 DEF StoreOK, ProvenanceHasSnapshot
  <2>2. CASE p = [id |-> id, cand |-> cand, by |-> hash]
    BY <2>2
  <2> QED BY <2>1, <2>2
<1>7. EventHasBundle(t)
  <2> SUFFICES ASSUME NEW e \in t.events
               PROVE  /\ e.by # Unmapped => /\ [id |-> e.id, by |-> e.by] \in t.snapshots
                                            /\ e.headline = e.by.headline
                      /\ e.by = Unmapped => SnapshotFree(t, e.id)
    BY DEF EventHasBundle
  <2>1. CASE e \in s.events
    <3>1. e.id # id
      BY <1>1, <1>2, <2>1
    <3> QED BY <2>1, <3>1 DEF StoreOK, EventHasBundle, SnapshotFree
  <2>2. CASE e = [id |-> id, headline |-> hash.headline, ts |-> ts, by |-> hash]
    BY <2>2, UnmappedAssumption
  <2> QED BY <2>1, <2>2
<1> QED BY <1>3, <1>4, <1>5, <1>6, <1>7 DEF StoreOK

\* A row saved without sidecars keeps the store whole.
LEMMA UnmappedOK ==
    ASSUME NEW s \in Store, StoreOK(s), NEW headline, NEW ts
    PROVE  StoreOK(WithEvent(s, headline, ts, Unmapped))
<1> DEFINE t == WithEvent(s, headline, ts, Unmapped)
           id == NextId(s)
<1>1. /\ t.seq = id
      /\ t.events = s.events \cup {[id |-> id, headline |-> headline,
                                     ts |-> ts, by |-> Unmapped]}
      /\ t.provenance = s.provenance /\ t.snapshots = s.snapshots /\ t.mapping = s.mapping
  BY DEF WithEvent, Store
<1>2. s.seq \in Nat /\ id = s.seq + 1
  BY DEF Store, NextId
<1>3. /\ \A e \in s.events : e.id \in Nat /\ e.id < id
      /\ \A p \in s.provenance : p.id \in Nat /\ p.id < id
      /\ \A x \in s.snapshots : x.id \in Nat /\ x.id < id
      /\ \A m \in s.mapping : m.id \in Nat /\ m.id < id
  <2>1. /\ \A e \in s.events : e.id \in Nat
        /\ \A p \in s.provenance : p.id \in Nat
        /\ \A x \in s.snapshots : x.id \in Nat
        /\ \A m \in s.mapping : m.id \in Nat
    BY DEF Store, EventRow, ProvenanceRow, SnapshotRow, MappingRow, Id
  <2> QED BY <1>2, <2>1 DEF StoreOK, IdsIssued
<1> HIDE DEF t, id
<1>4. IdsIssued(t)
  BY <1>1, <1>2, <1>3 DEF IdsIssued
<1>5. KeysUnique(t)
  BY <1>1, <1>2, <1>3 DEF StoreOK, KeysUnique
<1>6. MappingIsSnapshot(t) /\ ProvenanceHasSnapshot(t)
  BY <1>1 DEF StoreOK, MappingIsSnapshot, ProvenanceHasSnapshot
<1>7. EventHasBundle(t)
  <2> SUFFICES ASSUME NEW e \in t.events
               PROVE  /\ e.by # Unmapped => /\ [id |-> e.id, by |-> e.by] \in t.snapshots
                                            /\ e.headline = e.by.headline
                      /\ e.by = Unmapped => SnapshotFree(t, e.id)
    BY DEF EventHasBundle
  <2>1. CASE e \in s.events
    BY <1>1, <2>1 DEF StoreOK, EventHasBundle, SnapshotFree
  <2>2. CASE e = [id |-> id, headline |-> headline, ts |-> ts, by |-> Unmapped]
    <3>1. \A x \in s.snapshots : x.id # id
      BY <1>2, <1>3
    <3> QED BY <1>1, <2>2, <3>1 DEF SnapshotFree
  <2> QED BY <1>1, <2>1, <2>2
<1>8. StoreOK(t)
  BY <1>4, <1>5, <1>6, <1>7 DEF StoreOK
<1> QED BY <1>8 DEF t

\* A delete leaves sidecars behind, but no row without its own.
LEMMA DeleteOK ==
    ASSUME NEW s \in Store, StoreOK(s), NEW id
    PROVE  StoreOK(WithoutEvent(s, id))
<1>1. /\ WithoutEvent(s, id).events = {e \in s.events : e.id # id}
      /\ WithoutEvent(s, id).seq = s.seq
      /\ WithoutEvent(s, id).provenance = s.provenance
      /\ WithoutEvent(s, id).snapshots = s.snapshots
      /\ WithoutEvent(s, id).mapping = s.mapping
  BY DEF WithoutEvent, Store
<1> QED BY <1>1 DEF StoreOK, IdsIssued, KeysUnique, MappingIsSnapshot,
                    ProvenanceHasSnapshot, EventHasBundle, SnapshotFree

\* A handler changes the committed store only by its COMMIT.
LEMMA OnlyCommitWrites ==
    ASSUME TypeOK, NEW q \in Req, Own(q), ~Commit(q)
    PROVE  db' = db
<1>1. CASE Quiet(q)
  BY <1>1, QuietFrame
<1> USE DEF NoWrite, storeVars
<1>2. CASE BeginImmediate(q) \/ WriterRaises(q)
  BY <1>2 DEF BeginImmediate, WriterRaises, Rollback
<1>3. CASE InsertEvent(q) \/ DuplicateId(q) \/ InsertProvenance(q)
  BY <1>3 DEF InsertEvent, DuplicateId, InsertProvenance, Rollback
<1>4. CASE InsertSnapshot(q) \/ InsertMapping(q)
  BY <1>4 DEF InsertSnapshot, InsertMapping, Insert, Rollback
<1> QED BY <1>1, <1>2, <1>3, <1>4 DEF Own, HandlerStep, Quiet

\* What a COMMIT does to the committed store: nothing, for a duplicate, or the
\* whole bundle of its request under the next id.
LEMMA CommitAddsBundle ==
    ASSUME IInv, NEW r \in Req, Commit(r)
    PROVE  \/ db' = db
           \/ /\ run[r].id = NextId(db)
              /\ run[r].hash \in Hash
              /\ MappingFree(db, run[r].hash, run[r].id)
              /\ AddsBundle(db, db', run[r].id, run[r].hash, run[r].ts, req[r].cand)
<1>1. pc[r] = "commit" /\ db' = work
  BY DEF Commit, At
<1>2. CASE work = db
  BY <1>1, <1>2
<1>3. CASE work # db
  <2>1. /\ run[r].id = NextId(db)
        /\ work = BundleStage(r)
        /\ MappingFree(db, run[r].hash, run[r].id)
    BY <1>1, <1>3 DEF IInv, TransactionOK
  <2>2. run[r].hash \in Hash /\ run[r].hash.headline = req[r].headline
    BY <1>1 DEF IInv, BasisOK, HasBasis, Writing
  <2>3. db \in Store
    BY DEF IInv, TypeOK
  <2>4. AddsBundle(db, work, run[r].id, run[r].hash, run[r].ts, req[r].cand)
    <3>1. CASE req[r].cand = NoCand
      BY <2>1, <2>2, <2>3, <3>1 DEF BundleStage, ResultStage, BasisStage, RowStage,
            WithEvent, WithProvenance, WithSnapshot, WithMapping, Store, AddsBundle
    <3>2. CASE req[r].cand # NoCand
      BY <2>1, <2>2, <2>3, <3>2 DEF BundleStage, ResultStage, BasisStage, RowStage,
            WithEvent, WithProvenance, WithSnapshot, WithMapping, Store, AddsBundle
    <3> QED BY <3>1, <3>2
  <2> QED BY <1>1, <2>1, <2>2, <2>4
<1> QED BY <1>2, <1>3

LEMMA CommitOK ==
    ASSUME IInv, NEW r \in Req, Commit(r)
    PROVE  StoreOK(db')
BY CommitAddsBundle, BundleOK DEF IInv, TypeOK

LEMMA StoreStep ==
    ASSUME IInv, [Next]_vars
    PROVE  StoreOK(db')
<1> USE DEF IInv
<1>1. ASSUME NEW q \in Req, Own(q) PROVE StoreOK(db')
  BY <1>1, CommitOK, OnlyCommitWrites
<1>2. CASE Environment /\ ~Crash
  BY <1>2, EnvironmentFrame, DeleteOK, UnmappedOK DEF TypeOK
<1>3. CASE Crash
  BY <1>3 DEF Crash
<1>4. CASE UNCHANGED vars
  BY <1>4 DEF vars
<1> QED BY <1>1, <1>2, <1>3, <1>4 DEF Next, Own, Environment

---------------------------------------------------------------------------
(* The invariant and what follows from it.                                 *)

LEMMA InitOK == Init => IInv
<1> SUFFICES ASSUME Init PROVE IInv
  OBVIOUS
<1>1. EmptyStore \in Store
  BY DEF EmptyStore, Store
<1>2. TypeOK
  BY <1>1, Sentinels DEF Init, TypeOK, RegistryInit, Label
<1>3. StoreOK(db)
  BY DEF Init, EmptyStore, StoreOK, IdsIssued, KeysUnique, MappingIsSnapshot,
         ProvenanceHasSnapshot, EventHasBundle
<1>4. LockOK
  BY SentinelAssumption DEF Init, LockOK, Writing
<1>5. \A r \in Req : BasisOK(r) /\ TransactionOK(r)
  BY DEF Init, BasisOK, HasBasis, Writing, TransactionOK
<1> QED BY <1>2, <1>3, <1>4, <1>5 DEF IInv

LEMMA Inductive == IInv /\ [Next]_vars => IInv'
<1> SUFFICES ASSUME IInv, [Next]_vars PROVE IInv'
  OBVIOUS
<1>1. TypeOK'
  BY TypeStep DEF IInv
<1>2. LockOK'
  BY LockStep DEF IInv
<1>3. \A r \in Req : BasisOK(r)'
  BY BasisStep DEF IInv
<1>4. \A r \in Req : TransactionOK(r)'
  BY TransactionStep DEF IInv
<1>5. StoreOK(db)'
  BY StoreStep DEF StoreOK, IdsIssued, KeysUnique, MappingIsSnapshot,
                   ProvenanceHasSnapshot, EventHasBundle, SnapshotFree
<1> QED BY <1>1, <1>2, <1>3, <1>4, <1>5 DEF IInv

\* In every reachable state the store is whole, and the open transaction is
\* exactly the committed store and the stages its request has passed.
THEOREM InvariantHolds == Spec => []IInv
BY InitOK, Inductive, PTL DEF Spec

\* Every variable of the pipeline keeps its type.
THEOREM TypeCorrect == Spec => []TypeOK
<1>1. IInv => TypeOK
  BY DEF IInv
<1> QED BY <1>1, InvariantHolds, PTL

\* However requests, deletes, backfills, rollbacks and crashes interleave, a
\* reader of the database sees whole bundles only.
THEOREM BundlesAreComplete == Spec => []CompleteBundle
<1>1. IInv => CompleteBundle
  BY DEF IInv, StoreOK, CompleteBundle
<1> QED BY <1>1, InvariantHolds, PTL

\* A request hash resolves to the one analysis that exact request produced.
THEOREM RequestsAreIdentified == Spec => []RequestIdentity
<1>1. IInv => RequestIdentity
  BY DEF IInv, StoreOK, RequestIdentity
<1> QED BY <1>1, InvariantHolds, PTL

\* A store reached from s by one commit, save or delete: sidecars only grow, the
\* sequence does not go back, and the id of a new event or mapping is above
\* every id issued before.
Extends(s, t) ==
    /\ s.seq <= t.seq
    /\ \A m \in t.mapping \ s.mapping : m.id > s.seq
    /\ s.provenance \subseteq t.provenance
    /\ s.snapshots \subseteq t.snapshots
    /\ s.mapping \subseteq t.mapping
    /\ \A e \in t.events \ s.events : e.id > s.seq

LEMMA EventWriteExtends ==
    ASSUME NEW s \in Store, NEW headline, NEW ts, NEW by
    PROVE  Extends(s, WithEvent(s, headline, ts, by))
BY DEF Extends, WithEvent, NextId, Store

LEMMA BundleExtends ==
    ASSUME NEW s \in Store, NEW t, NEW id, NEW hash, NEW ts, NEW cand,
           id = NextId(s), AddsBundle(s, t, id, hash, ts, cand)
    PROVE  Extends(s, t)
BY DEF Extends, AddsBundle, NextId, Store

\* A step of the system extends the committed store.
LEMMA StepExtends ==
    ASSUME IInv, [Next]_vars
    PROVE  Extends(db, db')
<1> USE DEF IInv, TypeOK
<1>1. Extends(db, db)
  <2>1. db.seq \in Nat
    BY DEF Store
  <2> QED BY <2>1 DEF Extends
<1>2. ASSUME NEW q \in Req, Own(q) PROVE Extends(db, db')
  <2>1. CASE Commit(q)
    BY <1>1, <2>1, CommitAddsBundle, BundleExtends
  <2>2. CASE ~Commit(q)
    BY <1>1, <1>2, <2>2, OnlyCommitWrites
  <2> QED BY <2>1, <2>2
<1>3. CASE Environment /\ ~Crash
  <2>1. \A id : Extends(db, WithoutEvent(db, id))
    BY DEF Extends, WithoutEvent, Store
  <2> QED BY <1>1, <1>3, <2>1, EnvironmentFrame, EventWriteExtends
<1>4. CASE Crash
  BY <1>1, <1>4 DEF Crash
<1>5. CASE UNCHANGED vars
  BY <1>1, <1>5 DEF vars
<1> QED BY <1>2, <1>3, <1>4, <1>5 DEF Next, Own, Environment

\* Saved provenance, results and request identities are never edited or lost,
\* and an id is never issued twice.
THEOREM SidecarsAreAppendOnly == Spec => SidecarsAppendOnly
<1>1. IInv /\ [Next]_vars =>
        [/\ db.provenance \subseteq db'.provenance
         /\ db.snapshots \subseteq db'.snapshots
         /\ db.mapping \subseteq db'.mapping
         /\ \A e \in db'.events \ db.events : e.id > db.seq]_vars
  BY StepExtends DEF Extends
<1> QED BY <1>1, InvariantHolds, PTL DEF Spec, SidecarsAppendOnly

---------------------------------------------------------------------------
(* A sealed provenance is a recorded one.                                  *)

\* The row a sealed run reports; it is in the transaction's view from its
\* insert to the COMMIT and in the database afterwards.
SealedRow(r) == [id |-> run[r].id, cand |-> req[r].cand, by |-> run[r].hash]

SealOK(r) ==
    run[r].sealed =>
        /\ pc[r] \in {"snapshot", "mapping", "commit", "link", "link_update", "reply", "done"}
        /\ pc[r] \in Writing => SealedRow(r) \in work.provenance
        /\ pc[r] \notin Writing => SealedRow(r) \in db.provenance

\* Answers leave the seal alone, and a request that has not written anything
\* has none.
LEMMA AnswersKeepSeal ==
    ASSUME TypeOK, NEW r \in Req
    PROVE  \A kind, id : Reply(r, kind, id) => run'[r].sealed = run[r].sealed
BY DEF TypeOK, Run, Reply

LEMMA ReadsKeepSeal ==
    ASSUME TypeOK, NEW r \in Req,
           LoadById(r) \/ Lookup(r) \/ LegacyLookup(r) \/ Gate(r) \/ ConfirmedBasis(r)
               \/ CallProvider(r)
    PROVE  /\ run'[r].sealed = run[r].sealed
           /\ pc[r] \in {"by_id", "lookup", "legacy", "gate", "basis", "provider"}
<1>1. CASE LoadById(r)
  BY <1>1, AnswersKeepSeal DEF LoadById, At
<1>2. CASE Lookup(r)
  <2>1. CASE \E macro \in Macro : \E id : run' =
                [run EXCEPT ![r].kind = "durable", ![r].id = id, ![r].hash = HashOf(r, macro)]
    <3>1. PICK macro \in Macro : \E id : run' =
              [run EXCEPT ![r].kind = "durable", ![r].id = id, ![r].hash = HashOf(r, macro)]
      BY <2>1
    <3>2. run'[r].sealed = run[r].sealed
      BY <3>1 DEF TypeOK, Run
    <3> QED BY <1>2, <3>2 DEF Lookup, At
  <2>2. CASE run' = run \/ \E kind, id : Reply(r, kind, id)
    BY <1>2, <2>2, AnswersKeepSeal DEF Lookup, At
  <2> QED BY <1>2, <2>1, <2>2 DEF Lookup
<1>3. CASE LegacyLookup(r)
  BY <1>3, AnswersKeepSeal DEF LegacyLookup, At
<1>4. CASE Gate(r)
  BY <1>4, AnswersKeepSeal DEF Gate, At
<1>5. CASE ConfirmedBasis(r)
  <2>1. CASE \E macro \in Macro : \E id : run' =
                [run EXCEPT ![r].kind = "durable", ![r].id = id, ![r].hash = HashOf(r, macro)]
    <3>1. PICK macro \in Macro : \E id : run' =
              [run EXCEPT ![r].kind = "durable", ![r].id = id, ![r].hash = HashOf(r, macro)]
      BY <2>1
    <3>2. run'[r].sealed = run[r].sealed
      BY <3>1 DEF TypeOK, Run
    <3> QED BY <1>5, <3>2 DEF ConfirmedBasis, At
  <2>2. CASE \E macro \in Macro : run' = [run EXCEPT ![r].hash = HashOf(r, macro)]
    BY <1>5, <2>2 DEF ConfirmedBasis, At, TypeOK, Run
  <2>3. CASE \E kind, id : Reply(r, kind, id)
    BY <1>5, <2>3, AnswersKeepSeal DEF ConfirmedBasis, At
  <2> QED BY <1>5, <2>1, <2>2, <2>3 DEF ConfirmedBasis
<1>6. CASE CallProvider(r)
  BY <1>6, AnswersKeepSeal DEF CallProvider, At
<1> QED BY <1>1, <1>2, <1>3, <1>4, <1>5, <1>6

LEMMA SealOwn ==
    ASSUME IInv, NEW r \in Req, SealOK(r), Own(r)
    PROVE  SealOK(r)'
<1> USE DEF IInv, TypeOK, Goto, Reply, At, SealOK, SealedRow, Writing
<1>1. CASE Start(r)
  BY <1>1 DEF Start, NoRun
<1>2. CASE \/ LoadById(r) \/ Lookup(r) \/ LegacyLookup(r) \/ Gate(r)
           \/ ConfirmedBasis(r) \/ CallProvider(r)
  <2>1. ~run[r].sealed /\ run'[r].sealed = run[r].sealed
    BY <1>2, ReadsKeepSeal
  <2> QED BY <2>1
<1>4. CASE Abort(r)
  BY <1>4 DEF Abort, NoRun
<1>5. CASE BuildRecord(r) \/ BeginImmediate(r)
  BY <1>5, RequestTypes DEF BuildRecord, BeginImmediate, Run
<1>6. CASE InsertEvent(r) \/ DuplicateId(r)
  BY <1>6, RequestTypes DEF InsertEvent, DuplicateId, Run
<1>7. CASE InsertProvenance(r)
  <2>1. CASE Rollback(r, "integrity")
    BY <2>1, RequestTypes DEF Rollback, Run
  <2>2. CASE ~Rollback(r, "integrity")
    <3>1. /\ pc'[r] = "snapshot" /\ req' = req
          /\ run' = [run EXCEPT ![r].sealed = TRUE]
          /\ work' = WithProvenance(work, run[r].id, req[r].cand, run[r].hash)
      BY <1>7, <2>2 DEF InsertProvenance
    <3>2. SealedRow(r)' = SealedRow(r)
      BY <3>1, RequestTypes DEF Run
    <3>3. SealedRow(r) \in work'.provenance
      BY <3>1 DEF WithProvenance, Store
    <3> QED BY <3>1, <3>2, <3>3
  <2> QED BY <2>1, <2>2
<1>8. CASE InsertSnapshot(r)
  <2>1. CASE Rollback(r, "integrity")
    BY <2>1, RequestTypes DEF Rollback, Run
  <2>2. CASE ~Rollback(r, "integrity")
    BY <1>8, <2>2 DEF InsertSnapshot, Insert, WithSnapshot, Store
  <2> QED BY <2>1, <2>2
<1>9. CASE InsertMapping(r)
  <2>1. CASE Rollback(r, "integrity")
    BY <2>1, RequestTypes DEF Rollback, Run
  <2>2. CASE ~Rollback(r, "integrity")
    BY <1>9, <2>2 DEF InsertMapping, Insert, WithMapping, Store
  <2> QED BY <2>1, <2>2
<1>10. CASE WriterRaises(r)
  BY <1>10, RequestTypes DEF WriterRaises, Rollback, Run
<1>11. CASE Commit(r)
  BY <1>11 DEF Commit
<1>12. CASE LinkRead(r) \/ LinkUpdate(r)
  BY <1>12, RequestTypes DEF LinkRead, LinkUpdate, NoWrite, storeVars, Run
<1>13. CASE Respond(r)
  BY <1>13, RequestTypes DEF Respond, NoWrite, storeVars, Run
<1> QED BY <1>1, <1>2, <1>4, <1>5, <1>6, <1>7, <1>8, <1>9, <1>10, <1>11, <1>12, <1>13
        DEF Own, HandlerStep

LEMMA SealStep ==
    ASSUME IInv, NEW r \in Req, SealOK(r), [Next]_vars
    PROVE  SealOK(r)'
<1>1. db.provenance \subseteq db'.provenance
  BY StepExtends DEF Extends
<1>2. ASSUME NEW q \in Req, Own(q) PROVE SealOK(r)'
  <2>1. CASE q = r
    BY <1>2, <2>1, SealOwn
  <2>2. CASE q # r
    <3>1. pc'[r] = pc[r] /\ req'[r] = req[r] /\ run'[r] = run[r]
      BY <1>2, <2>2, OthersUnchanged DEF IInv
    <3>2. pc[r] \in Writing => work' = work
      BY <1>2, <2>2, LockOwn, SentinelAssumption DEF IInv, LockOK
    <3> QED BY <1>1, <3>1, <3>2 DEF SealOK, SealedRow
  <2> QED BY <2>1, <2>2
<1>3. CASE Environment /\ ~Crash
  <2>1. pc[r] \in Writing => work' = work
    BY <1>3, EnvironmentFrame, SentinelAssumption DEF IInv, LockOK
  <2> QED BY <1>1, <1>3, <2>1, EnvironmentFrame DEF SealOK, SealedRow
<1>4. CASE Crash
  BY <1>4 DEF Crash, SealOK, NoRun
<1>5. CASE UNCHANGED vars
  BY <1>5 DEF vars, SealOK, SealedRow
<1> QED BY <1>2, <1>3, <1>4, <1>5 DEF Next, Own, Environment

\* Whatever rolls back, collapses into a duplicate, crashes or races: a run that
\* reports a sealed provenance has it in the database under the id it reports.
THEOREM SealedRunsAreRecorded == Spec => []SealedIsRecorded
<1>1. Init => \A r \in Req : SealOK(r)
  BY DEF Init, SealOK, NoRun
<1>2. IInv /\ (\A r \in Req : SealOK(r)) /\ [Next]_vars => (\A r \in Req : SealOK(r))'
  BY SealStep
<1>3. (\A r \in Req : SealOK(r)) => SealedIsRecorded
  BY DEF SealOK, SealedRow, SealedIsRecorded
<1> QED BY <1>1, <1>2, <1>3, InvariantHolds, PTL DEF Spec
============================================================================
