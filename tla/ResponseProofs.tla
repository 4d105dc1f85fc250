--------------------------- MODULE ResponseProofs ---------------------------
(***************************************************************************)
(* Proofs about the analyze pipeline, continued: what a request is told,   *)
(* when it pays, and what the candidate link and the registry may do.      *)
(***************************************************************************)
EXTENDS AnalyzeProofs

---------------------------------------------------------------------------
(* Who writes the registry.                                                *)

RegistryWrite ==
    \/ \E q \in Req : pc[q] = "link_update" /\ LinkRows(req[q].cand, run[q].id)
    \/ \E s \in Source, t \in Title, c \in Cluster :
          (\A x \in registry : x.source # s \/ x.title # t) /\ UpsertSeen(s, t, c)
    \/ \E t \in Title, new \in {"analyzed", "market_checked"} : AdvanceState(t, new)

\* A step leaves the registry alone or is one of its three writers.
LEMMA RegistryWriters ==
    ASSUME [Next]_vars PROVE UNCHANGED registry \/ RegistryWrite
<1> USE DEF NoWrite, Rollback
<1>1. ASSUME NEW q \in Req, Own(q) PROVE UNCHANGED registry \/ RegistryWrite
  <2>1. CASE LinkUpdate(q)
    BY <2>1 DEF LinkUpdate, At, RegistryWrite
  <2>2. CASE Start(q) \/ LoadById(q) \/ Lookup(q) \/ LegacyLookup(q) \/ Gate(q)
    BY <2>2 DEF Start, LoadById, Lookup, LegacyLookup, Gate
  <2>3. CASE ConfirmedBasis(q) \/ CallProvider(q) \/ Abort(q) \/ BuildRecord(q)
    BY <2>3 DEF ConfirmedBasis, CallProvider, Abort, BuildRecord
  <2>4. CASE BeginImmediate(q) \/ InsertEvent(q) \/ DuplicateId(q) \/ InsertProvenance(q)
    BY <2>4 DEF BeginImmediate, InsertEvent, DuplicateId, InsertProvenance
  <2>5. CASE InsertSnapshot(q) \/ InsertMapping(q) \/ WriterRaises(q) \/ Commit(q)
    BY <2>5 DEF InsertSnapshot, InsertMapping, Insert, WriterRaises, Commit
  <2>6. CASE LinkRead(q) \/ Respond(q)
    BY <2>6 DEF LinkRead, Respond
  <2> QED BY <1>1, <2>1, <2>2, <2>3, <2>4, <2>5, <2>6 DEF Own, HandlerStep
<1>2. CASE Environment
  BY <1>2 DEF Environment, DeleteEvent, SaveUnmapped, BackfillStamp, NewsRefresh, ClockMoves,
              Crash, RegistryWrite
<1>3. CASE UNCHANGED vars
  BY <1>3 DEF vars
<1> QED BY <1>1, <1>2, <1>3 DEF Next, Own

---------------------------------------------------------------------------
(* A stored link is never moved.                                           *)

LEMMA LinkKept ==
    ASSUME registry \subseteq RegistryRow, UNCHANGED registry \/ RegistryWrite,
           NEW x \in registry, x.event # NoId
    PROVE  \E y \in registry' : y.source = x.source /\ y.title = x.title /\ y.event = x.event
<1>1. x \in RegistryRow
  OBVIOUS
<1>2. CASE UNCHANGED registry
  BY <1>2
<1>3. ASSUME NEW q \in Req, LinkRows(req[q].cand, run[q].id)
      PROVE  x \in registry'
  BY <1>3 DEF LinkRows
<1>4. ASSUME NEW s, NEW t, NEW c, UpsertSeen(s, t, c)
      PROVE  x \in registry' \/ [x EXCEPT !.cluster = c] \in registry'
  BY <1>4 DEF UpsertSeen
<1>5. ASSUME NEW t, NEW new, AdvanceState(t, new)
      PROVE  x \in registry' \/ [x EXCEPT !.state = new] \in registry'
  BY <1>5 DEF AdvanceState
<1>6. \A c, new : LET y == [x EXCEPT !.cluster = c]
                      z == [x EXCEPT !.state = new]
                  IN  /\ y.source = x.source /\ y.title = x.title /\ y.event = x.event
                      /\ z.source = x.source /\ z.title = x.title /\ z.event = x.event
  BY <1>1 DEF RegistryRow
<1> QED BY <1>2, <1>3, <1>4, <1>5, <1>6 DEF RegistryWrite

\* Two runs of one candidate, backfill stamps and news refreshes in any order:
\* the link that was stored first stays (link_candidate_analysis).
THEOREM LinkNeverMovesAlways == Spec => LinkNeverMoves
<1>1. IInv /\ [Next]_vars =>
        [\A x \in registry : x.event # NoId =>
            \E y \in registry' : /\ y.source = x.source /\ y.title = x.title
                                 /\ y.event = x.event]_vars
  BY RegistryWriters, LinkKept DEF IInv, TypeOK
<1> QED BY <1>1, InvariantHolds, PTL DEF Spec, LinkNeverMoves

---------------------------------------------------------------------------
(* Lifecycle states only advance.                                          *)

\* The order of the states that the writers set.
LEMMA Ranks ==
    /\ \A state \in LifecycleState : Rank(state) \in 1..6
    /\ Rank("seen") = 1 /\ Rank("eligible") = 2 /\ Rank("analyzed") = 3
<1>1. \A i, j \in 1..6 : Lifecycle[i] = Lifecycle[j] => i = j
  BY DEF Lifecycle
<1>2. \A i \in 1..6 : Rank(Lifecycle[i]) = i
  BY <1>1 DEF Rank
<1>3. Lifecycle[1] = "seen" /\ Lifecycle[2] = "eligible" /\ Lifecycle[3] = "analyzed"
  BY DEF Lifecycle
<1> QED BY <1>2, <1>3 DEF LifecycleState

\* One row per (source, title_key).
RegistryKeys ==
    \A x, y \in registry : x.source = y.source /\ x.title = y.title => x = y

\* What a writer makes of a row keeps its key and does not lower its rank.
Advances(x, y) ==
    /\ y.source = x.source /\ y.title = x.title
    /\ Rank(y.state) >= Rank(x.state)

\* A row without a link, once LinkRows has set it.
LinkedRow(x, id) ==
    [x EXCEPT !.event = id, !.state = IF @ \in {"seen", "eligible"} THEN "analyzed" ELSE @]

LEMMA RowsAdvance ==
    ASSUME NEW x \in RegistryRow
    PROVE  /\ Advances(x, x)
           /\ \A c : Advances(x, [x EXCEPT !.cluster = c])
           /\ \A id : Advances(x, LinkedRow(x, id))
           /\ \A new \in LifecycleState :
                Rank(x.state) < Rank(new) => Advances(x, [x EXCEPT !.state = new])
<1>1. x.state \in LifecycleState /\ Rank(x.state) \in 1..6
  BY Ranks DEF RegistryRow
<1>2. \A c : LET y == [x EXCEPT !.cluster = c]
             IN  y.source = x.source /\ y.title = x.title /\ y.state = x.state
  BY DEF RegistryRow
<1>3. \A new : LET y == [x EXCEPT !.state = new]
               IN  y.source = x.source /\ y.title = x.title /\ y.state = new
  BY DEF RegistryRow
<1>4. ASSUME NEW id PROVE Advances(x, LinkedRow(x, id))
  <2>1. /\ LinkedRow(x, id).source = x.source /\ LinkedRow(x, id).title = x.title
        /\ LinkedRow(x, id).state = IF x.state \in {"seen", "eligible"} THEN "analyzed" ELSE x.state
    BY DEF RegistryRow, LinkedRow
  <2>2. Rank(LinkedRow(x, id).state) >= Rank(x.state)
    BY <1>1, <2>1, Ranks
  <2> QED BY <2>1, <2>2 DEF Advances
<1>5. Advances(x, x) /\ \A c : Advances(x, [x EXCEPT !.cluster = c])
  BY <1>1, <1>2 DEF Advances
<1>6. ASSUME NEW new \in LifecycleState, Rank(x.state) < Rank(new)
      PROVE  Advances(x, [x EXCEPT !.state = new])
  BY <1>1, <1>3, <1>6, Ranks DEF Advances
<1> QED BY <1>4, <1>5, <1>6

\* Rows of one headline record, before and after.
KeyedAlike(x, y) == y.source = x.source /\ y.title = x.title

\* The step RegistryForward asks for.
Forward ==
    \A x \in registry, y \in registry' : KeyedAlike(x, y) => Rank(y.state) >= Rank(x.state)

\* If every row afterwards stems from one row before, or is the only one of a
\* key that is new, then keys stay unique and states advance.
LEMMA MovedRows ==
    ASSUME RegistryKeys, NEW f, \A x \in registry : Advances(x, f[x]),
           NEW New, \A y \in New : \A z \in registry : ~KeyedAlike(z, y),
           \A y, z \in New : y = z,
           \A y \in registry' : y \in New \/ \E x \in registry : y = f[x]
    PROVE  RegistryKeys' /\ Forward
<1>1. ASSUME NEW x \in registry, NEW y \in registry', KeyedAlike(x, y)
      PROVE  y = f[x]
  <2>1. y \notin New
    BY <1>1
  <2>2. PICK z \in registry : y = f[z]
    BY <2>1
  <2>3. z = x
    BY <1>1, <2>2 DEF RegistryKeys, KeyedAlike, Advances
  <2> QED BY <2>2, <2>3
<1>2. Forward
  BY <1>1 DEF Forward, Advances
<1>3. ASSUME NEW y \in registry', NEW z \in registry', KeyedAlike(y, z)
      PROVE  y = z
  <2>1. CASE y \in New /\ z \in New
    BY <2>1
  <2>2. CASE y \notin New
    <3>1. PICK x \in registry : y = f[x]
      BY <2>2
    <3>2. KeyedAlike(x, z)
      BY <1>3, <3>1 DEF KeyedAlike, Advances
    <3> QED BY <1>1, <3>1, <3>2
  <2>3. CASE z \notin New
    <3>1. PICK x \in registry : z = f[x]
      BY <2>3
    <3>2. KeyedAlike(x, y)
      BY <1>3, <3>1 DEF KeyedAlike, Advances
    <3> QED BY <1>1, <3>1, <3>2
  <2> QED BY <2>1, <2>2, <2>3
<1>4. RegistryKeys'
  BY <1>3 DEF RegistryKeys, KeyedAlike
<1> QED BY <1>2, <1>4

LEMMA RegistryAdvances ==
    ASSUME registry \subseteq RegistryRow, RegistryKeys, UNCHANGED registry \/ RegistryWrite
    PROVE  RegistryKeys' /\ Forward
<1>1. \A x \in registry : x \in RegistryRow
  OBVIOUS
<1>2. CASE UNCHANGED registry
  <2> DEFINE f == [x \in registry |-> x]
             none == {}
  <2>1. /\ \A x \in registry : Advances(x, f[x])
        /\ \A y \in registry' : y \in none \/ \E x \in registry : y = f[x]
    BY <1>1, <1>2, RowsAdvance
  <2>2. \A y \in none : FALSE
    OBVIOUS
  <2> HIDE DEF f, none
  <2> QED BY <2>1, <2>2, MovedRows
<1>3. ASSUME NEW cand, NEW id, LinkRows(cand, id) PROVE RegistryKeys' /\ Forward
  <2> DEFINE f == [x \in registry |->
                      IF x \in RowsOf(cand) /\ x.event = NoId THEN LinkedRow(x, id) ELSE x]
             none == {}
  <2>1. \A x \in registry : Advances(x, f[x])
    BY <1>1, RowsAdvance
  <2>2. \A y \in registry' : y \in none \/ \E x \in registry : y = f[x]
    BY <1>3 DEF LinkRows, LinkedRow
  <2>3. \A y \in none : FALSE
    OBVIOUS
  <2> HIDE DEF f, none
  <2> QED BY <2>1, <2>2, <2>3, MovedRows
<1>4. ASSUME NEW s \in Source, NEW t \in Title, NEW c \in Cluster,
             \A x \in registry : x.source # s \/ x.title # t, UpsertSeen(s, t, c)
      PROVE  RegistryKeys' /\ Forward
  <2> DEFINE f == [x \in registry |-> x]
             new == [source |-> s, title |-> t, cluster |-> c, state |-> "seen", event |-> NoId]
  <2>1. \A x \in registry : Advances(x, f[x])
    BY <1>1, RowsAdvance
  <2>2. \A y \in registry' : y \in {new} \/ \E x \in registry : y = f[x]
    BY <1>4 DEF UpsertSeen
  <2>3. \A z \in registry : ~KeyedAlike(z, new)
    BY <1>4 DEF KeyedAlike
  <2> HIDE DEF f, new
  <2> QED BY <2>1, <2>2, <2>3, MovedRows
<1>5. ASSUME NEW t, NEW new \in LifecycleState, AdvanceState(t, new)
      PROVE  RegistryKeys' /\ Forward
  <2> DEFINE f == [x \in registry |->
                      IF x.title = t /\ Rank(x.state) < Rank(new)
                      THEN [x EXCEPT !.state = new] ELSE x]
             none == {}
  <2>1. \A x \in registry : Advances(x, f[x])
    BY <1>1, RowsAdvance
  <2>2. \A y \in registry' : y \in none \/ \E x \in registry : y = f[x]
    BY <1>5 DEF AdvanceState
  <2>3. \A y \in none : FALSE
    OBVIOUS
  <2> HIDE DEF f, none
  <2> QED BY <2>1, <2>2, <2>3, MovedRows
<1>6. {"analyzed", "market_checked"} \subseteq LifecycleState
  BY DEF LifecycleState, Lifecycle
<1> QED BY <1>2, <1>3, <1>4, <1>5, <1>6 DEF RegistryWrite

\* Whatever stamps, links and files a headline, in any order, its lifecycle state
\* never goes back (update_registry_state, upsert_headline_registry_seen).
THEOREM RegistryForwardAlways == Spec => RegistryForward
<1>1. Init => RegistryKeys
  BY DEF Init, RegistryInit, RegistryKeys
<1>2. IInv /\ RegistryKeys /\ [Next]_vars => RegistryKeys'
  BY RegistryWriters, RegistryAdvances DEF IInv, TypeOK
<1>3. IInv /\ RegistryKeys /\ [Next]_vars =>
        [\A x \in registry, y \in registry' :
            y.source = x.source /\ y.title = x.title => Rank(y.state) >= Rank(x.state)]_vars
  BY RegistryWriters, RegistryAdvances DEF IInv, TypeOK, Forward, KeyedAlike
<1> QED BY <1>1, <1>2, <1>3, InvariantHolds, PTL DEF Spec, RegistryForward

---------------------------------------------------------------------------
(* A link points at a committed analysis.                                  *)

\* Where a run stands until the store has given it an id.
Unsaved == {"by_id", "lookup", "legacy", "gate", "basis", "provider", "record", "begin",
            "event", "duplicate"}

\* The id a run will link is issued by the view it writes, and by the database
\* once that is committed.
LinkIdOK(r) ==
    /\ pc[r] \in Unsaved => run[r].id = NoId
    /\ pc[r] \in Writing \ {"event", "duplicate"} => run[r].id <= work.seq
    /\ pc[r] \in {"link", "link_update"} => run[r].id <= db.seq

LEMMA LinkIdOwn ==
    ASSUME IInv, NEW r \in Req, LinkIdOK(r), Own(r)
    PROVE  LinkIdOK(r)'
<1> USE DEF IInv, TypeOK, Goto, Reply, At, LinkIdOK, Unsaved, Writing, Rollback
<1>1. CASE pc'[r] \in {"done", "reply"}
  BY <1>1
<1>2. ASSUME pc[r] \in Unsaved, pc'[r] \in Unsaved, run'[r].id = run[r].id
      PROVE  LinkIdOK(r)'
  BY <1>2
<1>2a. CASE Start(r)
  <2>1. run'[r] = NoRun /\ pc'[r] \in {"by_id", "lookup"}
    BY <1>2a DEF Start
  <2> QED BY <2>1 DEF NoRun
<1>2b. CASE LoadById(r) \/ Lookup(r) \/ LegacyLookup(r) \/ Gate(r)
  BY <1>1, <1>2, <1>2b DEF LoadById, Lookup, LegacyLookup, Gate
<1>2c. CASE ConfirmedBasis(r) \/ CallProvider(r)
  <2>1. CASE pc'[r] # "done"
    <3>1. run' = run \/ \E hash : run' = [run EXCEPT ![r].hash = hash]
      BY <1>2c, <2>1 DEF ConfirmedBasis, CallProvider
    <3>2. run'[r].id = run[r].id
      BY <3>1, RequestTypes DEF Run
    <3> QED BY <1>2, <1>2c, <2>1, <3>2 DEF ConfirmedBasis, CallProvider
  <2> QED BY <1>1, <2>1
<1>2d. CASE Abort(r) \/ Respond(r)
  BY <1>1, <1>2d DEF Abort, Respond
<1>2e. CASE BuildRecord(r) \/ BeginImmediate(r)
  <2>1. run'[r].id = run[r].id
    BY <1>2e, RequestTypes DEF BuildRecord, BeginImmediate, Run
  <2> QED BY <1>1, <1>2, <1>2e, <2>1 DEF BuildRecord, BeginImmediate
<1>3. CASE InsertEvent(r)
  <2>1. CASE pc'[r] = "duplicate" /\ UNCHANGED run
    BY <1>2, <1>3, <2>1 DEF InsertEvent
  <2>2. CASE /\ work' = WithEvent(work, req[r].headline, run[r].ts, run[r].hash)
             /\ run' = [run EXCEPT ![r].id = NextId(work)]
             /\ pc'[r] \in {"snapshot", "provenance"}
    <3>1. run'[r].id = work'.seq /\ work'.seq \in Nat
      BY <2>2 DEF Run, WithEvent, NextId, Store
    <3> QED BY <2>2, <3>1
  <2> QED BY <1>3, <2>1, <2>2 DEF InsertEvent
<1>3a. CASE DuplicateId(r)
  <2>1. work \in Store /\ \A e \in work.events : e.id <= work.seq
    BY <1>3a DEF DuplicateId, TransactionOK, StoreOK, IdsIssued
  <2>2. \A id \in LatestIds(DuplicateRows(work, req[r].headline, now)) : id <= work.seq
    BY <2>1 DEF LatestIds, DuplicateRows
  <2>3. run[r].id = NoId
    BY <1>3a DEF DuplicateId
  <2>4. run'[r].id <= work.seq
    BY <1>3a, <2>1, <2>2, <2>3 DEF DuplicateId, Run, Store, NoId
  <2> QED BY <1>3a, <2>4 DEF DuplicateId, NoWrite, storeVars
<1>4. CASE InsertProvenance(r)
  BY <1>4, RequestTypes DEF InsertProvenance, WithProvenance, Store, Run
<1>5. CASE InsertSnapshot(r)
  BY <1>5 DEF InsertSnapshot, Insert, WithSnapshot, Store
<1>6. CASE InsertMapping(r)
  BY <1>6 DEF InsertMapping, Insert, WithMapping, Store
<1>7. CASE WriterRaises(r)
  BY <1>7 DEF WriterRaises
<1>8. CASE Commit(r)
  BY <1>8 DEF Commit
<1>9. CASE LinkRead(r) \/ LinkUpdate(r)
  BY <1>9 DEF LinkRead, LinkUpdate, NoWrite, storeVars
<1> QED BY <1>2a, <1>2b, <1>2c, <1>2d, <1>2e, <1>3, <1>3a, <1>4, <1>5, <1>6, <1>7, <1>8, <1>9
        DEF Own, HandlerStep

LEMMA LinkIdStep ==
    ASSUME IInv, NEW r \in Req, LinkIdOK(r), [Next]_vars
    PROVE  LinkIdOK(r)'
<1>1. db.seq <= db'.seq /\ db.seq \in Nat /\ db'.seq \in Nat /\ run[r].id \in Nat
  BY StepExtends, Inductive, RequestTypes DEF Extends, IInv, TypeOK, Store, Run
<1>2. ASSUME pc'[r] = pc[r], run'[r] = run[r], pc[r] \in Writing => work' = work
      PROVE  LinkIdOK(r)'
  BY <1>1, <1>2 DEF LinkIdOK
<1>3. ASSUME NEW q \in Req, Own(q) PROVE LinkIdOK(r)'
  <2>1. CASE q = r
    BY <1>3, <2>1, LinkIdOwn
  <2>2. CASE q # r
    <3>1. pc'[r] = pc[r] /\ run'[r] = run[r]
      BY <1>3, <2>2, OthersUnchanged DEF IInv
    <3>2. pc[r] \in Writing => work' = work
      BY <1>3, <2>2, LockOwn, SentinelAssumption DEF IInv, LockOK
    <3> QED BY <1>2, <3>1, <3>2
  <2> QED BY <2>1, <2>2
<1>4. CASE Environment /\ ~Crash
  <2>1. pc[r] \in Writing => work' = work
    BY <1>4, EnvironmentFrame, SentinelAssumption DEF IInv, LockOK
  <2> QED BY <1>2, <1>4, <2>1, EnvironmentFrame
<1>5. CASE Crash
  BY <1>5 DEF Crash, LinkIdOK, Unsaved, Writing
<1>6. CASE UNCHANGED vars
  BY <1>2, <1>6 DEF vars
<1> QED BY <1>3, <1>4, <1>5, <1>6 DEF Next, Own, Environment

\* A link is an old one or the id of a run that is about to link.
LEMMA LinkEvents ==
    ASSUME registry \subseteq RegistryRow, UNCHANGED registry \/ RegistryWrite,
           NEW x \in registry'
    PROVE  \/ x.event = NoId
           \/ \E y \in registry : x.event = y.event
           \/ \E q \in Req : pc[q] = "link_update" /\ x.event = run[q].id
<1>1. \A y \in registry : y \in RegistryRow
  OBVIOUS
<1>2. CASE UNCHANGED registry
  BY <1>2
<1>3. ASSUME NEW q \in Req, pc[q] = "link_update", LinkRows(req[q].cand, run[q].id)
      PROVE  (\E y \in registry : x.event = y.event) \/ x.event = run[q].id
  <2>1. \A y \in registry : LinkedRow(y, run[q].id).event = run[q].id
    BY <1>1 DEF LinkedRow, RegistryRow
  <2>2. x \in registry \/ \E y \in registry : x = LinkedRow(y, run[q].id)
    BY <1>3 DEF LinkRows, LinkedRow
  <2> QED BY <2>1, <2>2
<1>4. ASSUME NEW s, NEW t, NEW c, UpsertSeen(s, t, c)
      PROVE  x.event = NoId \/ \E y \in registry : x.event = y.event
  <2>1. \A y \in registry : [y EXCEPT !.cluster = c].event = y.event
    BY <1>1 DEF RegistryRow
  <2>2. \/ x \in registry \/ \E y \in registry : x = [y EXCEPT !.cluster = c]
        \/ x = [source |-> s, title |-> t, cluster |-> c, state |-> "seen", event |-> NoId]
    BY <1>4 DEF UpsertSeen
  <2>3. CASE x \in registry
    BY <2>3
  <2>4. CASE \E y \in registry : x = [y EXCEPT !.cluster = c]
    BY <2>1, <2>4
  <2>5. CASE x = [source |-> s, title |-> t, cluster |-> c, state |-> "seen", event |-> NoId]
    BY <2>5
  <2> QED BY <2>2, <2>3, <2>4, <2>5
<1>5. ASSUME NEW t, NEW new, AdvanceState(t, new)
      PROVE  \E y \in registry : x.event = y.event
  <2>1. \A y \in registry : [y EXCEPT !.state = new].event = y.event
    BY <1>1 DEF RegistryRow
  <2>2. x \in registry \/ \E y \in registry : x = [y EXCEPT !.state = new]
    BY <1>5 DEF AdvanceState
  <2> QED BY <2>1, <2>2
<1> QED BY <1>2, <1>3, <1>4, <1>5 DEF RegistryWrite

LEMMA LinkedStep ==
    ASSUME IInv, LinkedWasCommitted, \A r \in Req : LinkIdOK(r), [Next]_vars
    PROVE  LinkedWasCommitted'
<1>1. db.seq <= db'.seq /\ db.seq \in Nat /\ db'.seq \in Nat
  BY StepExtends, Inductive DEF Extends, IInv, TypeOK, Store
<1>2. UNCHANGED registry \/ RegistryWrite
  BY RegistryWriters
<1>3. \A q \in Req : run[q].id \in Nat
  BY RequestTypes DEF IInv, Run
<1>4. \A y \in registry : y.event \in Nat
  BY DEF IInv, TypeOK, RegistryRow
<1> SUFFICES ASSUME NEW x \in registry' PROVE x.event <= db'.seq
  BY DEF LinkedWasCommitted
<1>5. CASE x.event = NoId
  BY <1>1, <1>5 DEF NoId
<1>6. CASE \E y \in registry : x.event = y.event
  BY <1>1, <1>4, <1>6 DEF LinkedWasCommitted
<1>7. CASE \E q \in Req : pc[q] = "link_update" /\ x.event = run[q].id
  BY <1>1, <1>3, <1>7 DEF LinkIdOK
<1> QED BY <1>2, <1>5, <1>6, <1>7, LinkEvents DEF IInv, TypeOK

\* A candidate is only linked to an id that was committed: no mock, rolled back,
\* raised or crashed run leaves a link behind (link_candidate_analysis is called
\* after the COMMIT).
THEOREM LinkedWasCommittedAlways == Spec => []LinkedWasCommitted
<1>1. Init => LinkedWasCommitted /\ \A r \in Req : LinkIdOK(r)
  BY DEF Init, RegistryInit, LinkedWasCommitted, LinkIdOK, Unsaved, Writing
<1>2. IInv /\ (\A r \in Req : LinkIdOK(r)) /\ [Next]_vars => (\A r \in Req : LinkIdOK(r))'
  BY LinkIdStep
<1>3. IInv /\ (\A r \in Req : LinkIdOK(r)) /\ LinkedWasCommitted /\ [Next]_vars
          => LinkedWasCommitted'
  BY LinkedStep
<1> QED BY <1>1, <1>2, <1>3, InvariantHolds, PTL DEF Spec

---------------------------------------------------------------------------
(* What a request is answered with.                                        *)

\* A response is given once, at the end.
AnsweredOK(r) == run[r].kind # "none" => pc[r] = "done"

\* An answer from a cache is one the committed store gives at that moment.
Answered(r) ==
    \/ /\ run'[r].kind \notin {"legacy", "durable"}
       /\ run'[r].kind # "none" => pc'[r] = "done"
    \/ \E id \in LegacyIds(db, req[r].headline, now) :
          pc'[r] = "done" /\ run'[r].kind = "legacy" /\ run'[r].id = id
    \/ \E macro \in Macro : \E id \in DurableIds(db, HashOf(r, macro)) :
          /\ pc'[r] = "done"
          /\ run'[r].kind = "durable" /\ run'[r].id = id /\ run'[r].hash = HashOf(r, macro)

LEMMA OwnAnswers ==
    ASSUME IInv, NEW r \in Req, AnsweredOK(r), Own(r)
    PROVE  Answered(r) /\ (run[r].kind # "none" => Start(r))
<1> USE DEF IInv, TypeOK, Goto, Reply, At
<1>1. CASE Start(r)
  BY <1>1 DEF Start, NoRun, Answered
<1>2. CASE ~Start(r)
  <2>1. pc[r] # "done"
    BY <1>2 DEF Own, HandlerStep, LoadById, Lookup, LegacyLookup, Gate, ConfirmedBasis,
          CallProvider, Abort, BuildRecord, BeginImmediate, InsertEvent, DuplicateId,
          InsertProvenance, InsertSnapshot, InsertMapping, WriterRaises, Commit, LinkRead, LinkUpdate, Respond,
          Uncaught, Writing
  <2>2. run[r].kind = "none"
    BY <2>1 DEF AnsweredOK
  <2>3. CASE LoadById(r) \/ Gate(r) \/ CallProvider(r)
    BY <2>2, <2>3, RequestTypes DEF LoadById, Gate, CallProvider, Run, Answered
  <2>4. CASE LegacyLookup(r)
    BY <2>2, <2>4, RequestTypes DEF LegacyLookup, Run, Answered
  <2>5. CASE Lookup(r) \/ ConfirmedBasis(r)
    <3>1. CASE \E macro \in Macro : \E id \in DurableIds(db, HashOf(r, macro)) :
              /\ Goto(r, "done")
              /\ run' = [run EXCEPT ![r].kind = "durable", ![r].id = id,
                                    ![r].hash = HashOf(r, macro)]
      <4>1. PICK macro \in Macro : \E id \in DurableIds(db, HashOf(r, macro)) :
                /\ Goto(r, "done")
                /\ run' = [run EXCEPT ![r].kind = "durable", ![r].id = id,
                                      ![r].hash = HashOf(r, macro)]
        BY <3>1
      <4>2. PICK id \in DurableIds(db, HashOf(r, macro)) :
                /\ Goto(r, "done")
                /\ run' = [run EXCEPT ![r].kind = "durable", ![r].id = id,
                                      ![r].hash = HashOf(r, macro)]
        BY <4>1
      <4>3. /\ run'[r].kind = "durable" /\ run'[r].id = id /\ run'[r].hash = HashOf(r, macro)
            /\ pc'[r] = "done"
        BY <4>2, RequestTypes DEF Run
      <4> QED BY <2>2, <4>3 DEF Answered
    <3>2. CASE run' = run \/ \E macro \in Macro : run' = [run EXCEPT ![r].hash = HashOf(r, macro)]
      BY <2>2, <3>2, RequestTypes DEF Run, Answered
    <3>3. CASE \E kind \in {"lookup_unavailable", "basis_unavailable"} : Reply(r, kind, NoId)
      <4>1. pc'[r] = "done" /\ run'[r].kind \in {"lookup_unavailable", "basis_unavailable"}
        BY <3>3, RequestTypes DEF Run
      <4> QED BY <2>2, <4>1 DEF Answered
    <3> QED BY <2>5, <3>1, <3>2, <3>3 DEF Lookup, ConfirmedBasis
  <2>6. CASE Abort(r) \/ BuildRecord(r) \/ BeginImmediate(r)
    BY <2>2, <2>6, RequestTypes DEF Abort, BuildRecord, BeginImmediate, Run, NoRun, Answered
  <2>7. CASE InsertEvent(r) \/ DuplicateId(r) \/ InsertProvenance(r)
    BY <2>2, <2>7, RequestTypes
       DEF InsertEvent, DuplicateId, InsertProvenance, Rollback, Run, Answered
  <2>8. CASE InsertSnapshot(r) \/ InsertMapping(r)
    BY <2>2, <2>8, RequestTypes DEF InsertSnapshot, InsertMapping, Insert, Rollback, Run, Answered
  <2>9. CASE WriterRaises(r) \/ Commit(r) \/ LinkRead(r) \/ LinkUpdate(r)
    BY <2>2, <2>9, RequestTypes
       DEF WriterRaises, Commit, LinkRead, LinkUpdate, Rollback, Run, Answered
  <2>10. CASE Respond(r)
    <3>1. PICK v : run' = [run EXCEPT ![r] = [run[r] EXCEPT !.kind = "fresh", !.verified = v]]
      BY <2>10 DEF Respond
    <3>2. pc'[r] = "done" /\ run'[r].kind = "fresh"
      BY <2>10, <3>1, RequestTypes DEF Respond, Run
    <3> QED BY <2>2, <3>2 DEF Answered
  <2> QED BY <1>2, <2>2, <2>3, <2>4, <2>5, <2>6, <2>7, <2>8, <2>9, <2>10 DEF Own, HandlerStep
<1> QED BY <1>1, <1>2

LEMMA AnsweredStep ==
    ASSUME IInv, NEW r \in Req, AnsweredOK(r), [Next]_vars
    PROVE  AnsweredOK(r)'
<1>1. ASSUME pc'[r] = pc[r], run'[r] = run[r] PROVE AnsweredOK(r)'
  BY <1>1 DEF AnsweredOK
<1>2. ASSUME NEW q \in Req, Own(q) PROVE AnsweredOK(r)'
  BY <1>1, <1>2, OwnAnswers, OthersUnchanged DEF Answered, AnsweredOK, IInv
<1>3. CASE Environment /\ ~Crash
  BY <1>1, <1>3, EnvironmentFrame
<1>4. CASE Crash
  BY <1>4 DEF Crash, AnsweredOK, NoRun
<1>5. CASE UNCHANGED vars
  BY <1>1, <1>5 DEF vars
<1> QED BY <1>2, <1>3, <1>4, <1>5 DEF Next, Own, Environment

---------------------------------------------------------------------------
(* The weak headline match.                                                *)

\* A legacy answer, until its slot is used again.
LegacyOK(r) ==
    run[r].kind = "legacy" => /\ \A m \in db.mapping : m.id # run[r].id
                              /\ run[r].id <= db.seq

LEMMA LegacyStep ==
    ASSUME IInv, NEW r \in Req, AnsweredOK(r), LegacyOK(r), [Next]_vars
    PROVE  LegacyOK(r)'
<1>1. /\ db.seq <= db'.seq /\ db.seq \in Nat /\ db'.seq \in Nat /\ run[r].id \in Nat
      /\ \A m \in db'.mapping \ db.mapping : m.id > db.seq /\ m.id \in Nat
  BY StepExtends, Inductive, RequestTypes DEF Extends, IInv, TypeOK, Store, Run, MappingRow, Id
\* No mapping is added for an id that was issued before.
<1>2. \A id \in Nat : id <= db.seq /\ (\A m \in db.mapping : m.id # id)
          => id <= db'.seq /\ \A m \in db'.mapping : m.id # id
  BY <1>1
<1>3. ASSUME run'[r] = run[r] PROVE LegacyOK(r)'
  BY <1>1, <1>2, <1>3 DEF LegacyOK
<1>4. ASSUME Own(r) PROVE LegacyOK(r)'
  <2>1. CASE run'[r].kind # "legacy"
    BY <2>1 DEF LegacyOK
  <2>2. CASE \E id \in LegacyIds(db, req[r].headline, now) : run'[r].id = id
    <3>1. PICK id \in LegacyIds(db, req[r].headline, now) : run'[r].id = id
      BY <2>2
    <3>2. id \in Nat
      BY ReadIds DEF IInv, TypeOK, Id
    <3>3. id <= db.seq /\ \A m \in db.mapping : m.id # id
      BY DEF IInv, LegacyIds, LatestIds, LegacyRows, StoreOK, IdsIssued
    <3> QED BY <1>2, <3>1, <3>2, <3>3 DEF LegacyOK
  <2> QED BY <1>4, <2>1, <2>2, OwnAnswers DEF Answered
<1>5. ASSUME NEW q \in Req, Own(q) PROVE LegacyOK(r)'
  BY <1>3, <1>4, <1>5, OthersUnchanged DEF IInv
<1>6. CASE Environment /\ ~Crash
  BY <1>3, <1>6, EnvironmentFrame
<1>7. CASE Crash
  BY <1>7 DEF Crash, LegacyOK, NoRun
<1>8. CASE UNCHANGED vars
  BY <1>3, <1>8 DEF vars
<1> QED BY <1>5, <1>6, <1>7, <1>8 DEF Next, Own, Environment

\* A row with a request mapping is never the answer of the weak headline match,
\* and an answer it gave never gets a mapping later: a new mapping has a new id
\* (_legacy_headline_cached_event).
THEOREM LegacyAnswersAreUnmapped == Spec => []LegacyAnswerUnmapped
<1>1. Init => \A r \in Req : AnsweredOK(r) /\ LegacyOK(r)
  BY DEF Init, AnsweredOK, LegacyOK, NoRun
<1>2. IInv /\ (\A r \in Req : AnsweredOK(r) /\ LegacyOK(r)) /\ [Next]_vars
          => (\A r \in Req : AnsweredOK(r) /\ LegacyOK(r))'
  BY AnsweredStep, LegacyStep
<1>3. (\A r \in Req : AnsweredOK(r) /\ LegacyOK(r)) => LegacyAnswerUnmapped
  BY DEF LegacyOK, LegacyAnswerUnmapped
<1> QED BY <1>1, <1>2, <1>3, InvariantHolds, PTL DEF Spec

---------------------------------------------------------------------------
(* The paid gate.                                                          *)

\* What the gate has established on the way to the provider.
GateOK(r) ==
    /\ pc[r] \in {"by_id", "lookup", "legacy", "gate", "basis"} => req[r].eventId <= db.seq
    /\ pc[r] \in {"lookup", "legacy"} => req[r].eventId = NoId
    /\ pc[r] \in {"gate", "basis"} /\ req[r].eventId # NoId => ~Live(db, req[r].eventId)
    /\ pc[r] = "basis" => req[r].confirm

LEMMA GateOwn ==
    ASSUME IInv, NEW r \in Req, GateOK(r), Own(r)
    PROVE  GateOK(r)'
<1> USE DEF IInv, TypeOK, Goto, Reply, At, GateOK, NoWrite, storeVars
<1>1. CASE Start(r)
  <2>1. PICK body \in BodyUpTo(db.seq) :
            /\ req' = [req EXCEPT ![r] = body]
            /\ Goto(r, IF body.eventId = NoId THEN "lookup" ELSE "by_id")
    BY <1>1 DEF Start
  <2>2. body.eventId <= db.seq /\ db' = db /\ db.seq \in Nat
    BY <1>1, <2>1 DEF Start, BodyUpTo, Store
  <2> QED BY <2>1, <2>2
<1>2. CASE LoadById(r)
  BY <1>2 DEF LoadById
<1>3. CASE Lookup(r)
  BY <1>3 DEF Lookup
<1>4. CASE LegacyLookup(r)
  BY <1>4 DEF LegacyLookup
<1>5. CASE Gate(r)
  BY <1>5 DEF Gate
<1>6. CASE ConfirmedBasis(r) \/ CallProvider(r) \/ Abort(r) \/ BuildRecord(r) \/ BeginImmediate(r)
  BY <1>6 DEF ConfirmedBasis, CallProvider, Abort, BuildRecord, BeginImmediate
<1>7. CASE \/ InsertEvent(r) \/ DuplicateId(r) \/ InsertProvenance(r) \/ InsertSnapshot(r)
           \/ InsertMapping(r)
  BY <1>7 DEF InsertEvent, DuplicateId, InsertProvenance, InsertSnapshot, InsertMapping, Insert, Rollback
<1>8. CASE WriterRaises(r) \/ Commit(r) \/ LinkRead(r) \/ LinkUpdate(r) \/ Respond(r)
  BY <1>8 DEF WriterRaises, Commit, LinkRead, LinkUpdate, Respond, Rollback
<1> QED BY <1>1, <1>2, <1>3, <1>4, <1>5, <1>6, <1>7, <1>8 DEF Own, HandlerStep

LEMMA GateStep ==
    ASSUME IInv, NEW r \in Req, GateOK(r), [Next]_vars
    PROVE  GateOK(r)'
<1>1. /\ db.seq <= db'.seq /\ db.seq \in Nat /\ db'.seq \in Nat /\ req[r].eventId \in Nat
      /\ \A e \in db'.events \ db.events : e.id > db.seq /\ e.id \in Nat
  BY StepExtends, Inductive, RequestTypes DEF Extends, IInv, TypeOK, Store, Body, EventRow, Id
<1>2. ASSUME req[r].eventId <= db.seq, Live(db', req[r].eventId)
      PROVE  Live(db, req[r].eventId)
  <2>1. PICK e \in db'.events : e.id = req[r].eventId
    BY <1>2 DEF Live
  <2>2. e \in db.events
    BY <1>1, <1>2, <2>1
  <2> QED BY <2>1, <2>2 DEF Live
<1>3. ASSUME pc'[r] = pc[r], req'[r] = req[r] PROVE GateOK(r)'
  <2>1. req[r].eventId <= db.seq => req[r].eventId <= db'.seq
    BY <1>1
  <2> QED BY <1>2, <1>3, <2>1 DEF GateOK
<1>4. ASSUME NEW q \in Req, Own(q) PROVE GateOK(r)'
  <2>1. CASE q = r
    BY <1>4, <2>1, GateOwn
  <2>2. CASE q # r
    BY <1>3, <1>4, <2>2, OthersUnchanged DEF IInv
  <2> QED BY <2>1, <2>2
<1>5. CASE Environment /\ ~Crash
  BY <1>3, <1>5, EnvironmentFrame
<1>6. CASE Crash
  BY <1>6 DEF Crash, GateOK
<1>7. CASE UNCHANGED vars
  BY <1>3, <1>7 DEF vars
<1> QED BY <1>4, <1>5, <1>6, <1>7 DEF Next, Own, Environment

\* A step that gets to the provider is that of a confirmed basis which missed.
LEMMA PaysAtBasis ==
    ASSUME IInv, NEW r \in Req, GateOK(r), [Next]_vars, pc'[r] = "provider", pc[r] # "provider"
    PROVE  /\ req[r].confirm
           /\ req[r].eventId = NoId => IsMiss(DurableIds(db, run'[r].hash))
           /\ req[r].eventId # NoId => ~Live(db, req[r].eventId)
<1> USE DEF IInv, TypeOK, Goto, Reply, At, GateOK
<1>1. PICK q \in Req : Own(q)
  BY EnvironmentFrame DEF Next, Own, Environment, Crash, vars
<1>2. q = r
  BY <1>1, OthersUnchanged
<1>3. ConfirmedBasis(r)
  <2>1. ~Start(r) /\ ~LoadById(r) /\ ~Lookup(r) /\ ~LegacyLookup(r)
    BY DEF Start, LoadById, Lookup, LegacyLookup
  <2>2. ~Gate(r) /\ ~CallProvider(r) /\ ~Abort(r) /\ ~BuildRecord(r) /\ ~BeginImmediate(r)
    BY DEF Gate, CallProvider, Abort, BuildRecord, BeginImmediate
  <2>3. ~InsertEvent(r) /\ ~DuplicateId(r) /\ ~InsertProvenance(r)
    BY DEF InsertEvent, DuplicateId, InsertProvenance, Rollback
  <2>4. ~InsertSnapshot(r) /\ ~InsertMapping(r)
    BY DEF InsertSnapshot, InsertMapping, Insert, Rollback
  <2>5. ~WriterRaises(r) /\ ~Commit(r) /\ ~LinkRead(r) /\ ~LinkUpdate(r) /\ ~Respond(r)
    BY DEF WriterRaises, Commit, LinkRead, LinkUpdate, Respond, Rollback
  <2> QED BY <1>1, <1>2, <2>1, <2>2, <2>3, <2>4, <2>5 DEF Own, HandlerStep
<1>4. PICK macro \in Macro :
          /\ IsMiss(IF req[r].eventId = NoId THEN DurableIds(db, HashOf(r, macro)) ELSE {})
          /\ run' = [run EXCEPT ![r].hash = HashOf(r, macro)]
  BY <1>3 DEF ConfirmedBasis
<1>5. run'[r].hash = HashOf(r, macro)
  BY <1>4, RequestTypes DEF Run
<1>6. pc[r] = "basis"
  BY <1>3 DEF ConfirmedBasis
<1> QED BY <1>4, <1>5, <1>6

\* The provider is paid for a confirmed miss only (analyze, analyze_stream).
THEOREM PaysOnlyForAMissAlways == Spec => PaysOnlyForAMiss
<1>1. Init => \A r \in Req : GateOK(r)
  BY DEF Init, GateOK
<1>2. IInv /\ (\A r \in Req : GateOK(r)) /\ [Next]_vars => (\A r \in Req : GateOK(r))'
  BY GateStep
<1>3. IInv /\ (\A r \in Req : GateOK(r)) /\ [Next]_vars =>
        [\A r \in Req : pc'[r] = "provider" /\ pc[r] # "provider" =>
            /\ req[r].confirm
            /\ req[r].eventId = NoId => IsMiss(DurableIds(db, run'[r].hash))
            /\ req[r].eventId # NoId => ~Live(db, req[r].eventId)]_vars
  BY PaysAtBasis
<1> QED BY <1>1, <1>2, <1>3, InvariantHolds, PTL DEF Spec, PaysOnlyForAMiss

---------------------------------------------------------------------------
(* The pipeline implements the write-once cache.                           *)

\* The refinement mapping, under names of its own.
ErasedIds == {x.id : x \in {y \in db.snapshots : ~Live(db, y.id)}}
AnswerOf(r) ==
    IF run[r].kind = "durable" THEN {[id |-> run[r].id, by |-> run[r].hash]} ELSE {}
Answers == [r \in Req |-> AnswerOf(r)]

\* A step of the specification of the cache, read through the mapping.
Saves ==
    \E a \in db'.snapshots :
        /\ a.id \in Nat /\ a.by \in Hash
        /\ \A b \in db.snapshots : b.id < a.id /\ b.by # a.by
        /\ db'.snapshots = db.snapshots \cup {a}
        /\ ErasedIds' = ErasedIds /\ Answers' = Answers
Erases ==
    \E a \in db.snapshots :
        /\ ErasedIds' = ErasedIds \cup {a.id}
        /\ db'.snapshots = db.snapshots /\ Answers' = Answers
GivesAnswer ==
    \E r \in Req, hash \in Hash :
        /\ Answers[r] = {}
        /\ \E a \in db.snapshots :
              /\ a.by = hash
              /\ a.id \notin ErasedIds
              /\ Answers' = [Answers EXCEPT ![r] = {a}]
        /\ db'.snapshots = db.snapshots /\ ErasedIds' = ErasedIds
Forgets ==
    /\ \E askers \in SUBSET Req :
          Answers' = [r \in Req |-> IF r \in askers THEN {} ELSE Answers[r]]
    /\ db'.snapshots = db.snapshots /\ ErasedIds' = ErasedIds
Stutters == db'.snapshots = db.snapshots /\ ErasedIds' = ErasedIds /\ Answers' = Answers

\* Nothing the cache promises changes while its store, or its runs, do not.
LEMMA SameStore == db' = db => db'.snapshots = db.snapshots /\ ErasedIds' = ErasedIds
BY DEF ErasedIds, Live

LEMMA SameRuns == UNCHANGED run => Answers' = Answers
BY DEF Answers, AnswerOf

LEMMA CommitRefines ==
    ASSUME IInv, NEW r \in Req, Commit(r)
    PROVE  Saves \/ Stutters
<1>1. Answers' = Answers
  BY SameRuns DEF Commit
<1>2. CASE db' = db
  BY <1>1, <1>2, SameStore DEF Stutters
<1>3. CASE db' # db
  <2>1. /\ run[r].id = NextId(db) /\ run[r].hash \in Hash
        /\ MappingFree(db, run[r].hash, run[r].id)
        /\ AddsBundle(db, db', run[r].id, run[r].hash, run[r].ts, req[r].cand)
    BY <1>3, CommitAddsBundle
  <2>2. db \in Store /\ StoreOK(db) /\ NextId(db) \in Nat
    BY DEF IInv, TypeOK, NextId, Store
  <2> DEFINE a == [id |-> run[r].id, by |-> run[r].hash]
  <2>3. a.id \in Nat /\ a.by \in Hash /\ db'.snapshots = db.snapshots \cup {a}
    BY <2>1, <2>2 DEF AddsBundle
  <2>4. ASSUME NEW b \in db.snapshots PROVE b.id < a.id /\ b.by # a.by
    <3>1. b.id \in Nat /\ b.id <= db.seq /\ db.seq \in Nat
      BY <2>2 DEF Store, SnapshotRow, Id, StoreOK, IdsIssued
    <3>2. [hash |-> b.by, id |-> b.id] \in db.mapping
      BY <2>2 DEF StoreOK, MappingIsSnapshot
    <3>3. b.by # run[r].hash
      BY <2>1, <3>2 DEF MappingFree
    <3> QED BY <2>1, <3>1, <3>3 DEF NextId
  <2>5. Live(db', a.id) /\ \A b \in db.snapshots : Live(db', b.id) <=> Live(db, b.id)
    <3> DEFINE row == [id |-> a.id, headline |-> run[r].hash.headline,
                       ts |-> run[r].ts, by |-> run[r].hash]
    <3>1. db'.events = db.events \cup {row} /\ row.id = a.id
      BY <2>1 DEF AddsBundle
    <3>2. \A b \in db.snapshots : b.id # a.id
      BY <2>2, <2>3, <2>4 DEF Store, SnapshotRow, Id
    <3> HIDE DEF row
    <3> QED BY <3>1, <3>2 DEF Live
  <2>6. ErasedIds' = ErasedIds
    BY <2>3, <2>5 DEF ErasedIds
  <2> HIDE DEF a
  <2> QED BY <1>1, <2>3, <2>4, <2>6 DEF Saves
<1> QED BY <1>2, <1>3

LEMMA AnswerRefines ==
    ASSUME IInv, NEW r \in Req, AnsweredOK(r), Own(r), ~Commit(r)
    PROVE  GivesAnswer \/ Forgets
<1>1. db'.snapshots = db.snapshots /\ ErasedIds' = ErasedIds
  BY OnlyCommitWrites, SameStore DEF IInv
<1>2. \A q \in Req : q # r => AnswerOf(q)' = AnswerOf(q)
  BY OthersUnchanged DEF IInv, AnswerOf
<1>3. CASE run'[r].kind # "durable"
  <2>1. AnswerOf(r)' = {}
    BY <1>3 DEF AnswerOf
  <2>2. Answers' = [q \in Req |-> IF q \in {r} THEN {} ELSE Answers[q]]
    BY <1>2, <2>1 DEF Answers
  <2> QED BY <1>1, <2>2 DEF Forgets
<1>4. CASE \E macro \in Macro : \E id \in DurableIds(db, HashOf(r, macro)) :
               run'[r].kind = "durable" /\ run'[r].id = id /\ run'[r].hash = HashOf(r, macro)
  <2>1. PICK macro \in Macro : \E id \in DurableIds(db, HashOf(r, macro)) :
            run'[r].kind = "durable" /\ run'[r].id = id /\ run'[r].hash = HashOf(r, macro)
    BY <1>4
  <2> DEFINE hash == HashOf(r, macro)
             a == [id |-> run'[r].id, by |-> hash]
  <2>2. a.id \in DurableIds(db, hash) /\ run'[r].kind = "durable" /\ run'[r].hash = hash
    BY <2>1
  <2>3. hash \in Hash
    BY RequestTypes DEF IInv
  <2>4. PICK m \in db.mapping : m.id = a.id /\ m.hash = hash /\ Live(db, m.id)
    BY <2>2 DEF DurableIds
  <2>5. a \in db.snapshots
    BY <2>4 DEF IInv, StoreOK, MappingIsSnapshot
  <2>6. a.id \notin ErasedIds
    BY <2>4 DEF ErasedIds
  <2>7. run[r].kind # "durable"
    <3>1. run'[r].kind # "none"
      BY <2>2
    <3>2. ~Start(r)
      BY <3>1 DEF Start, NoRun, IInv, TypeOK
    <3> QED BY <3>2, OwnAnswers
  <2>8. Answers[r] = {} /\ AnswerOf(r)' = {a}
    BY <2>2, <2>7 DEF Answers, AnswerOf
  <2>9. Answers' = [Answers EXCEPT ![r] = {a}]
    BY <1>2, <2>8 DEF Answers
  <2> HIDE DEF a, hash
  <2>10. a.by = hash
    BY DEF a
  <2> QED BY <1>1, <2>3, <2>5, <2>6, <2>8, <2>9, <2>10 DEF GivesAnswer
<1> QED BY <1>3, <1>4, OwnAnswers DEF Answered

LEMMA EnvironmentRefines ==
    ASSUME IInv, Environment
    PROVE  Erases \/ Forgets \/ Stutters
<1>1. CASE Crash
  <2>1. \A r \in Req : AnswerOf(r)' = {}
    BY <1>1 DEF Crash, AnswerOf, NoRun
  <2>2. Answers' = [r \in Req |-> IF r \in Req THEN {} ELSE Answers[r]]
    BY <2>1 DEF Answers
  <2> QED BY <1>1, <2>2, SameStore DEF Crash, Forgets
<1>2. CASE ~Crash
  <2>1. Answers' = Answers
    BY <1>2, EnvironmentFrame, SameRuns
  <2>2. CASE UNCHANGED db
    BY <2>1, <2>2, SameStore DEF Stutters
  <2>3. ASSUME NEW id, Live(db, id), db' = WithoutEvent(db, id)
        PROVE  Erases \/ Stutters
    <3>1. db'.snapshots = db.snapshots /\ db'.events = {e \in db.events : e.id # id}
      BY <2>3 DEF WithoutEvent, IInv, TypeOK, Store
    <3>2. \A i : Live(db', i) <=> Live(db, i) /\ i # id
      BY <3>1 DEF Live
    <3>3. CASE \E a \in db.snapshots : a.id = id
      <4>1. PICK a \in db.snapshots : a.id = id
        BY <3>3
      <4>2. ErasedIds' = ErasedIds \cup {a.id}
        BY <3>1, <3>2, <4>1 DEF ErasedIds
      <4> QED BY <2>1, <3>1, <4>2 DEF Erases
    <3>4. CASE \A a \in db.snapshots : a.id # id
      <4>1. ErasedIds' = ErasedIds
        BY <3>1, <3>2, <3>4 DEF ErasedIds
      <4> QED BY <2>1, <3>1, <4>1 DEF Stutters
    <3> QED BY <3>3, <3>4
  <2>4. ASSUME NEW h, db' = WithEvent(db, h, now, Unmapped)
        PROVE  Stutters
    <3>1. /\ db'.snapshots = db.snapshots
          /\ db'.events = db.events \cup {[id |-> NextId(db), headline |-> h,
                                           ts |-> now, by |-> Unmapped]}
      BY <2>4 DEF WithEvent, IInv, TypeOK, Store
    <3>2. \A a \in db.snapshots : a.id # NextId(db)
      BY DEF IInv, TypeOK, Store, SnapshotRow, Id, StoreOK, IdsIssued, NextId
    <3>3. \A a \in db.snapshots : Live(db', a.id) <=> Live(db, a.id)
      BY <3>1, <3>2 DEF Live
    <3>4. ErasedIds' = ErasedIds
      BY <3>1, <3>3 DEF ErasedIds
    <3> QED BY <2>1, <3>1, <3>4 DEF Stutters
  <2> QED BY <1>2, <2>2, <2>3, <2>4, EnvironmentFrame
<1> QED BY <1>1, <1>2

LEMMA StepRefines ==
    ASSUME IInv, \A r \in Req : AnsweredOK(r), [Next]_vars
    PROVE  Saves \/ Erases \/ GivesAnswer \/ Forgets \/ Stutters
<1>1. ASSUME NEW r \in Req, Own(r)
      PROVE  Saves \/ Erases \/ GivesAnswer \/ Forgets \/ Stutters
  BY <1>1, CommitRefines, AnswerRefines
<1>2. CASE Environment
  BY <1>2, EnvironmentRefines
<1>3. CASE UNCHANGED vars
  BY <1>3, SameStore, SameRuns DEF vars, Stutters
<1> QED BY <1>1, <1>2, <1>3 DEF Next, Own

\* The names above are the mapping's.
LEMMA MappedStep ==
    ASSUME Saves \/ Erases \/ GivesAnswer \/ Forgets \/ Stutters
    PROVE  [Durable!Next]_<<db.snapshots, ErasedIds, Answers>>
<1>1. CASE Saves
  BY <1>1 DEF Saves, ErasedIds, Answers, AnswerOf, Durable!Next, Durable!Save
<1>2. CASE Erases
  BY <1>2 DEF Erases, ErasedIds, Answers, AnswerOf, Durable!Next, Durable!Erase
<1>3. CASE GivesAnswer
  BY <1>3 DEF GivesAnswer, ErasedIds, Answers, AnswerOf, Durable!Next, Durable!Answer
<1>4. CASE Forgets
  BY <1>4 DEF Forgets, ErasedIds, Answers, AnswerOf, Durable!Next, Durable!Forget
<1>5. CASE Stutters
  BY <1>5 DEF Stutters
<1> QED BY <1>1, <1>2, <1>3, <1>4, <1>5

\* The database and the responses implement the write-once cache: every
\* transaction, crash, delete and race is a save, an erase, an answer or nothing.
THEOREM PipelineImplementsCache == Spec => ImplementsDurableAnalyses
<1>1. Init => Durable!Init /\ \A r \in Req : AnsweredOK(r)
  BY DEF Init, EmptyStore, NoRun, AnsweredOK, Durable!Init, Durable!Nothing
<1>2. IInv /\ (\A r \in Req : AnsweredOK(r)) /\ [Next]_vars => (\A r \in Req : AnsweredOK(r))'
  BY AnsweredStep
<1>3. IInv /\ (\A r \in Req : AnsweredOK(r)) /\ [Next]_vars
          => [Durable!Next]_<<db.snapshots, ErasedIds, Answers>>
  BY StepRefines, MappedStep
<1> QED BY <1>1, <1>2, <1>3, InvariantHolds, PTL
        DEF Spec, ImplementsDurableAnalyses, Durable!Spec, ErasedIds, Answers, AnswerOf

---------------------------------------------------------------------------
(* What a paid run reports.                                                *)

Linking == {"link", "link_update"}

\* What a paid answer tells, from the end of its transaction on.
Told(r) ==
    /\ run[r].error = "none" => ReportsSaved(db, r) \/ ReportsNothing(r)
    /\ run[r].error # "none" => ReportsNothing(r)
    /\ run[r].error = "integrity" => \E m \in db.mapping : m.hash = run[r].hash

\* The transaction's view has a row of the request's headline.
HasRow(r) == \E e \in work.events : e.headline = req[r].headline

OutcomeOK(r) ==
    /\ pc[r] \in Unsaved => ReportsNothing(r)
    /\ pc[r] \in Unsaved \cup Writing \cup Linking => run[r].error = "none"
    /\ pc[r] \in Unsaved \cup Writing => run[r].link = "none" /\ ~run[r].verified
    /\ pc[r] = "duplicate" => HasRow(r)
    /\ pc[r] \in {"provenance", "snapshot", "mapping"} => ReportsSaved(work, r)
    /\ pc[r] = "commit" => ReportsSaved(work, r) \/ (ReportsNothing(r) /\ HasRow(r))
    /\ pc[r] \in Linking => ReportsSaved(db, r)
    /\ pc[r] \in Linking \/ pc[r] = "reply" \/ run[r].kind = "fresh" => Told(r)

\* Rolled back: nothing is reported.
LEMMA RolledBack ==
    ASSUME TypeOK, NEW r \in Req, NEW error \in {"raised", "integrity"}, Rollback(r, error),
           run[r].kind = "none", run[r].link = "none", ~run[r].verified,
           error = "integrity" => \E m \in db.mapping : m.hash = run[r].hash
    PROVE  OutcomeOK(r)'
<1>1. run' = [run EXCEPT ![r] = [run[r] EXCEPT !.id = NoId, !.sealed = FALSE, !.error = error]]
  BY DEF Rollback
<1>2. /\ run'[r].id = NoId /\ ~run'[r].sealed /\ run'[r].error = error
      /\ run'[r].link = "none" /\ ~run'[r].verified /\ run'[r].kind = "none"
      /\ run'[r].hash = run[r].hash
  BY <1>1, RequestTypes DEF Run, TypeOK
<1>3. pc'[r] = "reply" /\ db' = db
  BY DEF Rollback, Goto, TypeOK
<1>4. Told(r)'
  BY <1>2, <1>3 DEF Told, ReportsNothing
<1> QED BY <1>3, <1>4 DEF OutcomeOK, Unsaved, Writing, Linking

\* A handler's reads leave what a run reports blank.
LEMMA ReadOutcome ==
    ASSUME IInv, NEW r \in Req, AnsweredOK(r), OutcomeOK(r),
           \/ LoadById(r) \/ Lookup(r) \/ LegacyLookup(r) \/ Gate(r) \/ ConfirmedBasis(r)
           \/ CallProvider(r) \/ BuildRecord(r)
    PROVE  OutcomeOK(r)'
<1> USE DEF IInv, TypeOK, At
<1>1. /\ pc[r] \in Unsaved \ {"event", "duplicate"} /\ run[r].error = "none" /\ ReportsNothing(r)
      /\ run[r].kind = "none"
  BY DEF OutcomeOK, AnsweredOK, LoadById, Lookup, LegacyLookup, Gate, ConfirmedBasis,
         CallProvider, BuildRecord, Unsaved
<1>2. CASE pc'[r] \in Unsaved \ {"event", "duplicate"} /\ run'[r].error = "none" /\ ReportsNothing(r)'
             /\ run'[r].kind = "none"
  BY <1>2 DEF OutcomeOK, ReportsNothing, Unsaved, Writing, Linking
<1>3. CASE pc'[r] = "done" /\ run'[r].kind # "fresh"
  BY <1>3 DEF OutcomeOK, Unsaved, Writing, Linking
<1>4. ASSUME NEW label \in Unsaved \ {"event", "duplicate"}, Goto(r, label), UNCHANGED run
      PROVE  OutcomeOK(r)'
  BY <1>1, <1>2, <1>4 DEF Goto, ReportsNothing
<1>5. ASSUME NEW kind \in Kind \ {"fresh"}, NEW id, Reply(r, kind, id) PROVE OutcomeOK(r)'
  <2>1. pc'[r] = "done" /\ run'[r].kind = kind
    BY <1>5, RequestTypes DEF Reply, Goto, Run
  <2> QED BY <1>3, <1>5, <2>1
<1>6. ASSUME NEW hash, NEW id, Goto(r, "done"),
             run' = [run EXCEPT ![r].kind = "durable", ![r].id = id, ![r].hash = hash]
      PROVE  OutcomeOK(r)'
  <2>1. pc'[r] = "done" /\ run'[r].kind = "durable"
    BY <1>6, RequestTypes DEF Goto, Run
  <2> QED BY <1>3, <2>1
<1>7. ASSUME NEW hash, Goto(r, "provider"), run' = [run EXCEPT ![r].hash = hash]
      PROVE  OutcomeOK(r)'
  <2>1. pc'[r] = "provider" /\ run'[r] = [run[r] EXCEPT !.hash = hash]
    BY <1>7 DEF Goto
  <2> QED BY <1>1, <1>2, <2>1, RequestTypes DEF ReportsNothing, Run, Unsaved
<1>8. {"lookup", "legacy", "gate", "basis", "provider", "record", "begin"} \subseteq Unsaved \ {"event", "duplicate"}
  BY DEF Unsaved
<1>9. {"by_id", "durable", "legacy", "lookup_unavailable", "confirmation_required",
       "candidate_unavailable", "basis_unavailable", "mock"} \subseteq Kind \ {"fresh"}
  BY DEF Kind
<1>10. CASE LoadById(r)
  BY <1>4, <1>5, <1>8, <1>9, <1>10 DEF LoadById
<1>11. CASE Lookup(r)
  BY <1>4, <1>5, <1>6, <1>8, <1>9, <1>11 DEF Lookup
<1>12. CASE LegacyLookup(r)
  BY <1>4, <1>5, <1>8, <1>9, <1>12 DEF LegacyLookup
<1>13. CASE Gate(r)
  BY <1>4, <1>5, <1>8, <1>9, <1>13 DEF Gate
<1>14. CASE ConfirmedBasis(r)
  BY <1>5, <1>6, <1>7, <1>8, <1>9, <1>14 DEF ConfirmedBasis
<1>15. CASE CallProvider(r)
  BY <1>4, <1>5, <1>8, <1>9, <1>15 DEF CallProvider
<1>16. CASE BuildRecord(r)
  <2>1. pc'[r] = "begin" /\ run'[r] = [run[r] EXCEPT !.ts = now]
    BY <1>16 DEF BuildRecord, Goto
  <2> QED BY <1>1, <1>2, <2>1, RequestTypes DEF ReportsNothing, Run, Unsaved
<1> QED BY <1>10, <1>11, <1>12, <1>13, <1>14, <1>15, <1>16

LEMMA InsertOutcome ==
    ASSUME IInv, NEW r \in Req, AnsweredOK(r), OutcomeOK(r), InsertEvent(r)
    PROVE  OutcomeOK(r)'
<1> USE DEF IInv, TypeOK, At, Goto
<1>1. /\ pc[r] = "event" /\ work = db /\ work \in Store /\ req' = req
      /\ run[r].error = "none" /\ ReportsNothing(r) /\ run[r].kind = "none"
  BY DEF InsertEvent, TransactionOK, OutcomeOK, AnsweredOK, Unsaved
<1>2. CASE /\ DuplicateRows(work, req[r].headline, now) # {}
           /\ pc'[r] = "duplicate" /\ UNCHANGED <<run, work>>
  <2>1. HasRow(r)'
    BY <1>1, <1>2 DEF HasRow, DuplicateRows
  <2> QED BY <1>1, <1>2, <2>1 DEF OutcomeOK, ReportsNothing, Unsaved, Writing, Linking
<1>3. CASE /\ work' = WithEvent(work, req[r].headline, run[r].ts, run[r].hash)
           /\ run' = [run EXCEPT ![r].id = NextId(work)]
           /\ pc'[r] \in {"snapshot", "provenance"}
  <2>1. run'[r].id = NextId(work) /\ work'.seq = NextId(work) /\ NextId(work) \in 1..NextId(work)
    BY <1>1, <1>3, RequestTypes DEF Run, WithEvent, NextId, Store
  <2>2. \A f \in work'.events : f.id = NextId(work) => f.headline = req[r].headline
    BY <1>1, <1>3 DEF WithEvent, NextId, Store, StoreOK, IdsIssued, EventRow, Id
  <2>3. ReportsSaved(work, r)'
    BY <1>1, <2>1, <2>2 DEF ReportsSaved
  <2>4. /\ run'[r].error = "none" /\ run'[r].link = "none" /\ ~run'[r].verified
        /\ run'[r].kind = "none"
    BY <1>1, <1>3, RequestTypes DEF Run, ReportsNothing
  <2> QED BY <1>3, <2>3, <2>4 DEF OutcomeOK, Unsaved, Writing, Linking
<1> QED BY <1>2, <1>3 DEF InsertEvent, NoWrite, storeVars

LEMMA DuplicateOutcome ==
    ASSUME IInv, NEW r \in Req, AnsweredOK(r), OutcomeOK(r), DuplicateId(r)
    PROVE  OutcomeOK(r)'
<1> USE DEF IInv, TypeOK, At, Goto
<1>1. /\ pc[r] = "duplicate" /\ pc'[r] = "commit" /\ work = db /\ work \in Store
      /\ UNCHANGED <<req, work>> /\ HasRow(r)
      /\ run[r].error = "none" /\ ReportsNothing(r) /\ run[r].kind = "none"
  BY DEF DuplicateId, TransactionOK, OutcomeOK, AnsweredOK, Unsaved, NoWrite, storeVars
<1>2. CASE run' = run
  BY <1>1, <1>2 DEF OutcomeOK, ReportsNothing, HasRow, Unsaved, Writing, Linking
<1>3. CASE \E id \in LatestIds(DuplicateRows(work, req[r].headline, now)) :
               run' = [run EXCEPT ![r].id = id]
  <2>1. PICK id \in LatestIds(DuplicateRows(work, req[r].headline, now)) :
               run' = [run EXCEPT ![r].id = id]
    BY <1>3
  <2>2. PICK e \in work.events : e.id = id /\ e.headline = req[r].headline
    BY <2>1 DEF LatestIds, DuplicateRows
  <2>3. id \in 1..work.seq
    BY <1>1, <2>2 DEF StoreOK, IdsIssued, Store, EventRow, Id, NoId
  <2>4. \A f \in work.events : f.id = id => f.headline = req[r].headline
    BY <1>1, <2>2 DEF StoreOK, KeysUnique
  <2>5. /\ run'[r].id = id
        /\ run'[r].error = "none" /\ run'[r].link = "none" /\ ~run'[r].verified
        /\ run'[r].kind = "none"
    BY <1>1, <2>1, RequestTypes DEF Run, ReportsNothing
  <2>6. ReportsSaved(work, r)'
    BY <1>1, <2>3, <2>4, <2>5 DEF ReportsSaved
  <2> QED BY <1>1, <2>5, <2>6 DEF OutcomeOK, Unsaved, Writing, Linking
<1> QED BY <1>2, <1>3 DEF DuplicateId

\* The sidecars of a new id are free; only the request hash can be taken.
LEMMA SidecarOutcome ==
    ASSUME IInv, NEW r \in Req, AnsweredOK(r), OutcomeOK(r),
           InsertProvenance(r) \/ InsertSnapshot(r) \/ InsertMapping(r)
    PROVE  OutcomeOK(r)'
<1> USE DEF IInv, TypeOK, At, Goto
<1>1. /\ pc[r] \in {"provenance", "snapshot", "mapping"}
      /\ run[r].id = NextId(db) /\ db \in Store /\ NextId(db) \in Nat /\ NextId(db) > db.seq
      /\ run[r].error = "none" /\ run[r].link = "none" /\ ~run[r].verified
      /\ run[r].kind = "none" /\ ReportsSaved(work, r)
  BY DEF InsertProvenance, InsertSnapshot, InsertMapping, TransactionOK, OutcomeOK,
         AnsweredOK, Writing, NextId, Store
<1>2. CASE /\ pc'[r] \in Writing \ Unsaved /\ ReportsSaved(work, r)'
           /\ run'[r].error = "none" /\ run'[r].link = "none" /\ ~run'[r].verified
           /\ run'[r].kind = "none"
  BY <1>2 DEF OutcomeOK, Unsaved, Writing, Linking
<1> USE DEF Unsaved
<1>3. CASE InsertProvenance(r)
  <2>1. ProvenanceFree(work, run[r].id)
    <3>1. work.provenance = db.provenance
      BY <1>1, <1>3 DEF InsertProvenance, TransactionOK, RowStage, WithEvent, Store
    <3>2. \A p \in db.provenance : p.id <= db.seq /\ p.id \in Nat
      BY <1>1 DEF StoreOK, IdsIssued, Store, ProvenanceRow, Id
    <3>3. \A p \in db.provenance : p.id # NextId(db)
      BY <3>2 DEF NextId, Store
    <3> QED BY <1>1, <3>1, <3>3 DEF ProvenanceFree
  <2>2. /\ pc'[r] = "snapshot" /\ req' = req
        /\ run' = [run EXCEPT ![r].sealed = TRUE]
        /\ work' = WithProvenance(work, run[r].id, req[r].cand, run[r].hash)
    BY <1>3, <2>1 DEF InsertProvenance
  <2>3. work'.seq = work.seq /\ work'.events = work.events /\ run'[r].id = run[r].id
    BY <2>2, RequestTypes DEF WithProvenance, Store, Run
  <2>4. ReportsSaved(work, r)'
    BY <1>1, <2>2, <2>3 DEF ReportsSaved
  <2> QED BY <1>1, <1>2, <2>2, <2>4, RequestTypes DEF Run, Writing
<1>4. CASE InsertSnapshot(r)
  <2>1. SnapshotFree(work, run[r].id)
    <3>1. work.snapshots = db.snapshots
      BY <1>1, <1>4 DEF InsertSnapshot, TransactionOK, BasisStage, RowStage, WithEvent,
            WithProvenance, Store
    <3>2. \A x \in db.snapshots : x.id <= db.seq /\ x.id \in Nat
      BY <1>1 DEF StoreOK, IdsIssued, Store, SnapshotRow, Id
    <3>3. \A x \in db.snapshots : x.id # NextId(db)
      BY <3>2 DEF NextId, Store
    <3> QED BY <1>1, <3>1, <3>3 DEF SnapshotFree
  <2>2. /\ pc'[r] = "mapping" /\ UNCHANGED <<req, run>>
        /\ work' = WithSnapshot(work, run[r].id, run[r].hash)
    BY <1>4, <2>1 DEF InsertSnapshot, Insert
  <2>3. work'.seq = work.seq /\ work'.events = work.events
    BY <2>2 DEF WithSnapshot, Store
  <2>4. ReportsSaved(work, r)'
    BY <1>1, <2>2, <2>3 DEF ReportsSaved
  <2> QED BY <1>1, <1>2, <2>2, <2>4 DEF Writing
<1>5. CASE InsertMapping(r)
  <2>1. CASE MappingFree(work, run[r].hash, run[r].id)
    <3>1. /\ pc'[r] = "commit" /\ UNCHANGED <<req, run>>
          /\ work' = WithMapping(work, run[r].hash, run[r].id)
      BY <1>5, <2>1 DEF InsertMapping, Insert
    <3>2. work'.seq = work.seq /\ work'.events = work.events
      BY <3>1 DEF WithMapping, Store
    <3>3. ReportsSaved(work, r)'
      BY <1>1, <3>1, <3>2 DEF ReportsSaved
    <3> QED BY <1>1, <1>2, <3>1, <3>3 DEF Writing
  <2>2. CASE ~MappingFree(work, run[r].hash, run[r].id)
    <3>1. PICK m \in work.mapping : m.hash = run[r].hash \/ m.id = run[r].id
      BY <2>2 DEF MappingFree
    <3>2. work.mapping = db.mapping
      <4>1. work = ResultStage(r)
        BY <1>5 DEF InsertMapping, TransactionOK
      <4>2. ResultStage(r).mapping = db.mapping
        BY <1>1 DEF ResultStage, BasisStage, RowStage, WithEvent, WithProvenance, WithSnapshot,
              Store
      <4> QED BY <4>1, <4>2
    <3>3. m.hash = run[r].hash
      BY <1>1, <3>1, <3>2 DEF StoreOK, IdsIssued, Store, MappingRow, Id
    <3>4. Rollback(r, "integrity")
      BY <1>5, <2>2 DEF InsertMapping, Insert
    <3> QED BY <1>1, <3>2, <3>3, <3>4, RolledBack
  <2> QED BY <2>1, <2>2
<1> QED BY <1>3, <1>4, <1>5

LEMMA OutcomeOwn ==
    ASSUME IInv, NEW r \in Req, AnsweredOK(r), OutcomeOK(r), Own(r)
    PROVE  OutcomeOK(r)'
<1> USE DEF IInv, TypeOK, At, Goto
<1>1. CASE Start(r)
  <2>1. run'[r] = NoRun /\ pc'[r] \in {"lookup", "by_id"}
    BY <1>1 DEF Start
  <2> QED BY <2>1 DEF NoRun, OutcomeOK, ReportsNothing, Unsaved, Writing, Linking
<1>2. CASE Abort(r)
  <2>1. run'[r] = [NoRun EXCEPT !.kind = "aborted"] /\ pc'[r] = "done"
    BY <1>2 DEF Abort
  <2> QED BY <2>1 DEF NoRun, OutcomeOK, Unsaved, Writing, Linking
<1>3. CASE BeginImmediate(r)
  <2>1. /\ pc[r] = "begin" /\ db' = db /\ run[r].error = "none" /\ ReportsNothing(r)
        /\ run[r].kind = "none"
    BY <1>3 DEF BeginImmediate, OutcomeOK, AnsweredOK, Unsaved
  <2>2. CASE pc'[r] = "event" /\ run' = run
    BY <2>1, <2>2 DEF OutcomeOK, ReportsNothing, Unsaved, Writing, Linking
  <2>3. CASE pc'[r] = "reply" /\ run' = [run EXCEPT ![r].error = "raised"]
    <3>1. /\ run'[r].error = "raised" /\ ReportsNothing(r)' /\ run'[r].kind = "none"
      BY <2>1, <2>3, RequestTypes DEF Run, ReportsNothing
    <3> QED BY <2>3, <3>1 DEF OutcomeOK, Told, Unsaved, Writing, Linking
  <2> QED BY <1>3, <2>2, <2>3 DEF BeginImmediate
<1>4. CASE WriterRaises(r)
  <2>1. pc[r] \in Writing /\ Rollback(r, "raised")
    BY <1>4 DEF WriterRaises
  <2>2. run[r].kind = "none" /\ run[r].link = "none" /\ ~run[r].verified
    BY <2>1 DEF OutcomeOK, AnsweredOK, Writing
  <2> QED BY <2>1, <2>2, RolledBack
<1>5. CASE Commit(r)
  <2>1. /\ pc[r] = "commit" /\ db' = work /\ UNCHANGED <<req, run>>
        /\ pc'[r] \in Linking \cup {"reply"} /\ run[r].kind = "none"
        /\ run[r].error = "none"
        /\ ReportsSaved(work, r) \/ (ReportsNothing(r) /\ pc'[r] = "reply")
    BY <1>5 DEF Commit, OutcomeOK, AnsweredOK, ReportsNothing, Writing, Linking
  <2>2. ReportsSaved(db, r)' \/ (ReportsNothing(r)' /\ pc'[r] = "reply")
    BY <2>1 DEF ReportsSaved, ReportsNothing
  <2> QED BY <2>1, <2>2 DEF OutcomeOK, Told, Unsaved, Writing, Linking
<1>6. CASE LinkRead(r) \/ LinkUpdate(r)
  <2>1. /\ pc[r] \in Linking /\ pc'[r] \in Linking \cup {"reply"} /\ UNCHANGED <<db, req>>
        /\ run[r].error = "none" /\ ReportsSaved(db, r) /\ run[r].kind = "none"
    BY <1>6 DEF LinkRead, LinkUpdate, OutcomeOK, AnsweredOK, Told, Linking, NoWrite, storeVars
  <2>2. run' = run \/ \E o : run' = [run EXCEPT ![r].link = o]
    BY <1>6 DEF LinkRead, LinkUpdate
  <2>3. run'[r].error = "none" /\ run'[r].id = run[r].id /\ run'[r].kind = "none"
    BY <2>1, <2>2, RequestTypes DEF Run
  <2>4. ReportsSaved(db, r)'
    BY <2>1, <2>3 DEF ReportsSaved
  <2> QED BY <2>1, <2>3, <2>4 DEF OutcomeOK, Told, Unsaved, Writing, Linking
<1>7. CASE Respond(r)
  <2>1. pc[r] = "reply" /\ pc'[r] = "done" /\ UNCHANGED <<db, req>> /\ Told(r)
    BY <1>7 DEF Respond, OutcomeOK, NoWrite, storeVars
  <2>2. run'[r] = [run[r] EXCEPT !.kind = "fresh",
                                 !.verified = @ \/ (/\ run[r].sealed
                                                    /\ run[r].id # NoId
                                                    /\ run[r].link # "conflict")]
    BY <1>7 DEF Respond
  <2>3. /\ run'[r].error = run[r].error /\ run'[r].id = run[r].id
        /\ run'[r].sealed = run[r].sealed /\ run'[r].link = run[r].link
        /\ run'[r].hash = run[r].hash
        /\ run'[r].verified => run[r].verified \/ run[r].sealed
    BY <2>2, RequestTypes DEF Run
  <2>4. Told(r)'
    BY <2>1, <2>3 DEF Told, ReportsNothing, ReportsSaved
  <2> QED BY <2>1, <2>4 DEF OutcomeOK, Unsaved, Writing, Linking
<1> QED BY <1>1, <1>2, <1>3, <1>4, <1>5, <1>6, <1>7, ReadOutcome, InsertOutcome, DuplicateOutcome,
        SidecarOutcome
        DEF Own, HandlerStep

\* What the rest of the system does to the store takes nothing back.
LEMMA SavedStays ==
    ASSUME IInv, [Next]_vars, NEW r \in Req, run'[r] = run[r], req'[r] = req[r]
    PROVE  /\ Told(r) => Told(r)'
           /\ ReportsSaved(db, r) => ReportsSaved(db, r)'
<1>1. /\ db.seq <= db'.seq /\ db.seq \in Nat /\ db'.seq \in Nat
      /\ db.mapping \subseteq db'.mapping
      /\ \A e \in db'.events \ db.events : e.id > db.seq /\ e.id \in Nat
  BY StepExtends, Inductive DEF Extends, IInv, TypeOK, Store, EventRow, Id
<1>2. ReportsSaved(db, r) => ReportsSaved(db, r)'
  BY <1>1 DEF ReportsSaved
<1> QED BY <1>1, <1>2 DEF Told, ReportsNothing

LEMMA OutcomeStep ==
    ASSUME IInv, NEW r \in Req, AnsweredOK(r), OutcomeOK(r), [Next]_vars
    PROVE  OutcomeOK(r)'
<1>1. ASSUME pc'[r] = pc[r], req'[r] = req[r], run'[r] = run[r],
             pc[r] \in Writing => work' = work
      PROVE  OutcomeOK(r)'
  <2>1. pc[r] \in Linking => ReportsSaved(db, r)'
    BY <1>1, SavedStays DEF OutcomeOK
  <2> QED BY <1>1, <2>1, SavedStays
          DEF OutcomeOK, ReportsNothing, ReportsSaved, HasRow, Unsaved, Writing
<1>2. ASSUME NEW q \in Req, Own(q) PROVE OutcomeOK(r)'
  <2>1. CASE q = r
    BY <1>2, <2>1, OutcomeOwn
  <2>2. CASE q # r
    <3>1. pc'[r] = pc[r] /\ req'[r] = req[r] /\ run'[r] = run[r]
      BY <1>2, <2>2, OthersUnchanged DEF IInv
    <3>2. pc[r] \in Writing => work' = work
      BY <1>2, <2>2, LockOwn, SentinelAssumption DEF IInv, LockOK
    <3> QED BY <1>1, <3>1, <3>2
  <2> QED BY <2>1, <2>2
<1>3. CASE Environment /\ ~Crash
  <2>1. pc[r] \in Writing => work' = work
    BY <1>3, EnvironmentFrame, SentinelAssumption DEF IInv, LockOK
  <2> QED BY <1>1, <1>3, <2>1, EnvironmentFrame
<1>4. CASE Crash
  BY <1>4 DEF Crash, OutcomeOK, NoRun, Unsaved, Writing, Linking
<1>5. CASE UNCHANGED vars
  BY <1>1, <1>5 DEF vars
<1> QED BY <1>2, <1>3, <1>4, <1>5 DEF Next, Own, Environment

\* A paid answer says what became of it, whoever else saves, deletes, links or
\* crashes before and while it is read: a committed id of its headline, or a
\* persistence error and nothing else, and an integrity error only for a mapping
\* of the very same request.  It names nothing without an error only when its
\* headline had a row, which left the duplicate window between the two readings
\* of the clock (save_event_with_analysis_provenance, _duplicate_event_id).
THEOREM FreshIsAccountedForAlways == Spec => []FreshIsAccountedFor
<1>1. Init => \A r \in Req : AnsweredOK(r) /\ OutcomeOK(r)
  BY DEF Init, AnsweredOK, OutcomeOK, NoRun, Unsaved, Writing, Linking
<1>2. IInv /\ (\A r \in Req : AnsweredOK(r) /\ OutcomeOK(r)) /\ [Next]_vars
          => (\A r \in Req : AnsweredOK(r) /\ OutcomeOK(r))'
  BY AnsweredStep, OutcomeStep
<1>3. IInv /\ (\A r \in Req : AnsweredOK(r) /\ OutcomeOK(r)) => FreshIsAccountedFor
  <2> SUFFICES ASSUME IInv, NEW r \in Req, OutcomeOK(r)
               PROVE  /\ LeavesForADuplicate(r)
                      /\ run[r].kind = "fresh" =>
                           CASE run[r].error = "none" -> ReportsSaved(db, r) \/ ReportsNothing(r)
                             [] run[r].error = "raised" -> ReportsNothing(r)
                             [] run[r].error = "integrity" ->
                                  ReportsNothing(r) /\ \E m \in db.mapping : m.hash = run[r].hash
    BY DEF FreshIsAccountedFor
  <2>1. run[r].error \in {"none", "raised", "integrity"}
    BY RequestTypes DEF IInv, Run
  <2>2. run[r].kind = "fresh" => Told(r)
    BY DEF OutcomeOK
  <2>3. LeavesForADuplicate(r)
    <3>1. ReportsSaved(work, r) => run[r].id # NoId
      BY DEF ReportsSaved, NoId
    <3> QED BY <3>1 DEF OutcomeOK, LeavesForADuplicate, HasRow
  <2> QED BY <2>1, <2>2, <2>3 DEF Told
<1> QED BY <1>1, <1>2, <1>3, InvariantHolds, PTL DEF Spec
==============================================================================
