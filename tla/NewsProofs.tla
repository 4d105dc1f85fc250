----------------------------- MODULE NewsProofs -----------------------------
(***************************************************************************)
(* Proofs about the news refresh, for every number of handlers, headlines  *)
(* and rows.                                                               *)
(***************************************************************************)
EXTENDS NewsProperties, FiniteSetTheorems, TLAPS

---------------------------------------------------------------------------
(* Types of the helpers. *)

LEMMA NewsBounds == MaxStart \in Nat /\ MaxCluster \in Nat
  BY NewsBoundsAreNatural

LEMMA NewIsFinite ==
    ASSUME NEW S \in SUBSET Record
    PROVE  Cardinality(S) \in Nat
  BY NewsSetsAreFinite, FS_Subset, FS_CardinalityType

LEMMA Labels ==
    /\ {"fetch", "partition", "active", "group", "assign", "register", "tag", "save",
        "finish", "release", "idle", "try", "wait", "getStored", "getServe"} \subseteq Label
    /\ RefreshLabel \subseteq Label
  BY DEF Label, RefreshLabel

LEMMA InitialTypes ==
    /\ NoRows \in [Row -> SUBSET Record]
    /\ Unassigned \in [Record -> 0..MaxCluster]
    /\ NoJob \in Job
    /\ 0 \in Payload
  BY NewsBounds DEF NoJob, Job, Payload, Row, NoRows, Unassigned

LEMMA JobTypes ==
    ASSUME NEW j \in Job
    PROVE  /\ j.n \in Payload /\ j.floor \in Payload /\ j.waited \in BOOLEAN
           /\ j.got \subseteq Record /\ j.new \subseteq Record /\ j.known \subseteq Row
           /\ j.active \in [Row -> SUBSET Record]
           /\ j.pending \in [Record -> 0..MaxCluster]
           /\ j.left \in Nat
  BY DEF Job

LEMMA FreshJobType ==
    ASSUME NEW waited \in BOOLEAN, started + 1 \in Payload
    PROVE  FreshJob(waited) \in Job
  BY InitialTypes DEF FreshJob, Job

\* What Tagging leaves of a job.
LEMMA TaggedType ==
    ASSUME NEW j \in Job
    PROVE  [NoJob EXCEPT !.n = j.n, !.waited = j.waited] \in Job
  BY InitialTypes DEF Job

LEMMA JoinedType ==
    ASSUME NEW j \in Job, j.left > 0, NEW c \in Row,
           NEW taken \in SUBSET Record, NEW records \in SUBSET Record
    PROVE  Joined(j, c, taken, records) \in Job
<1>1. [x \in Record |-> IF x \in taken THEN c ELSE j.pending[x]] \in [Record -> 0..MaxCluster]
  BY NewsBounds DEF Job, Row
<1>2. j.left - 1 \in Nat
  BY DEF Job
<1> QED
  BY <1>1, <1>2 DEF Joined, Job

LEMMA OverwriteType ==
    ASSUME NEW table \in [Record -> 0..MaxCluster], NEW pending \in [Record -> 0..MaxCluster]
    PROVE  Overwrite(table, pending) \in [Record -> 0..MaxCluster]
  BY DEF Overwrite

\* A handler that moves to a label with a job.
LEMMA MoveType ==
    ASSUME TypeOK, NEW r \in Req, NEW l \in Label, NEW j \in Job
    PROVE  /\ [pc EXCEPT ![r] = l] \in [Req -> Label]
           /\ [job EXCEPT ![r] = j] \in [Req -> Job]
  BY DEF TypeOK

---------------------------------------------------------------------------
(* The handlers at the gate are counted. *)

\* Every handler at the gate can still number a payload.
Numbers == started + Cardinality(AtGate) <= MaxStart

LEMMA AtGateIsFinite == IsFiniteSet(AtGate) /\ Cardinality(AtGate) \in Nat
  BY NewsSetsAreFinite, FS_Subset, FS_CardinalityType DEF AtGate

\* A handler at the gate may take a number.
LEMMA MayStart ==
    ASSUME TypeOK, Numbers, NEW r \in Req, pc[r] \in {"try", "wait"}
    PROVE  started + 1 \in Payload
<1>1. r \in AtGate
  BY DEF AtGate
<1>2. Cardinality(AtGate) # 0
  BY <1>1, AtGateIsFinite, FS_EmptySet
<1> QED
  BY <1>2, AtGateIsFinite, NewsBounds DEF Numbers, TypeOK, Payload

LEMMA NumbersPrime ==
    ASSUME TypeOK, Numbers, TypeOK', NEW r \in Req,
           \/ started' = started /\ AtGate' \subseteq AtGate
           \/ started' = started + 1 /\ r \in AtGate /\ AtGate' \subseteq AtGate \ {r}
    PROVE  Numbers'
<1>0. started \in Int /\ MaxStart \in Int /\ Cardinality(AtGate) \in Int
  BY NewsBounds, AtGateIsFinite DEF TypeOK, Payload
<1>1. CASE started' = started /\ AtGate' \subseteq AtGate
  <2>1. Cardinality(AtGate') <= Cardinality(AtGate) /\ Cardinality(AtGate') \in Nat
    BY <1>1, AtGateIsFinite, FS_Subset, FS_CardinalityType
  <2> QED
    BY <1>0, <1>1, <2>1 DEF Numbers
<1>2. CASE started' = started + 1 /\ r \in AtGate /\ AtGate' \subseteq AtGate \ {r}
  <2>1. IsFiniteSet(AtGate \ {r}) /\ Cardinality(AtGate \ {r}) = Cardinality(AtGate) - 1
    BY <1>2, AtGateIsFinite, FS_RemoveElement
  <2>2. Cardinality(AtGate') <= Cardinality(AtGate) - 1 /\ Cardinality(AtGate') \in Nat
    BY <1>2, <2>1, FS_Subset, FS_CardinalityType
  <2> QED
    BY <1>0, <1>2, <2>2 DEF Numbers
<1> QED
  BY <1>1, <1>2

---------------------------------------------------------------------------
(* Types. *)

LEMMA NewsTypeStep == TypeOK /\ Numbers /\ [Next]_vars => TypeOK'
<1> SUFFICES ASSUME TypeOK, Numbers, [Next]_vars PROVE TypeOK'
  OBVIOUS
<1>1. TypeOK /\ Numbers
  OBVIOUS
<1>2. QED
  <2>1. ASSUME NEW r \in Req, StartRefresh(r) PROVE TypeOK'
    <3>1. job[r] \in Job
      BY <1>1 DEF TypeOK
    <3> QED
      BY <1>1, <2>1, <3>1, Labels, InitialTypes, JobTypes, MoveType, NewsBounds
         DEF Goto, StartRefresh, TypeOK, caches, gate, store
  <2>2. ASSUME NEW r \in Req, StartGet(r) PROVE TypeOK'
    <3>1. job[r] \in Job
      BY <1>1 DEF TypeOK
    <3>2. [NoJob EXCEPT !.floor = shown, !.n = hot] \in Job
      BY <1>1, <3>1, <2>2, InitialTypes DEF TypeOK, Job
    <3> QED
      BY <1>1, <2>2, <3>1, <3>2, Labels, InitialTypes, JobTypes, MoveType, NewsBounds
         DEF Goto, StartGet, TypeOK, caches, gate, store
  <2>3. ASSUME NEW r \in Req, Acquire(r) PROVE TypeOK'
    <3>1. job[r] \in Job
      BY <1>1 DEF TypeOK
    <3>2. pc[r] = "wait"
      BY <1>1, <3>1, <2>3 DEF Acquire
    <3>3. started + 1 \in Payload
      BY <1>1, <3>1, <2>3, <3>2, MayStart
    <3>4. FreshJob(TRUE) \in Job
      BY <1>1, <3>1, <2>3, <3>3, FreshJobType
    <3>5. pc' \in [Req -> Label]
      BY <1>1, <2>3, Labels DEF Acquire, Fetching, Finish, Goto, TypeOK
    <3>6. job' \in [Req -> Job]
      BY <1>1, <2>3, <3>1, <3>2, <3>3, <3>4, InitialTypes, MoveType
         DEF Acquire, Fetching, Finish, TypeOK
    <3> QED
      BY <1>1, <2>3, <3>1, <3>2, <3>3, <3>4, <3>5, <3>6, NewsBounds
         DEF Acquire, Fetching, Finish, TypeOK, caches, gate, store
  <2>4. ASSUME NEW r \in Req, TryLock(r) PROVE TypeOK'
    <3>1. job[r] \in Job
      BY <1>1 DEF TypeOK
    <3>2. pc[r] = "try"
      BY <1>1, <3>1, <2>4 DEF TryLock
    <3>3. started + 1 \in Payload
      BY <1>1, <3>1, <2>4, <3>2, MayStart
    <3>4. FreshJob(FALSE) \in Job
      BY <1>1, <3>1, <2>4, <3>3, FreshJobType
    <3>5. pc' \in [Req -> Label]
      BY <1>1, <2>4, Labels DEF Fetching, Finish, Goto, TryLock, TypeOK
    <3>6. job' \in [Req -> Job]
      BY <1>1, <2>4, <3>1, <3>2, <3>3, <3>4, InitialTypes, MoveType
         DEF Fetching, Finish, TryLock, TypeOK
    <3> QED
      BY <1>1, <2>4, <3>1, <3>2, <3>3, <3>4, <3>5, <3>6, NewsBounds
         DEF Fetching, Finish, TryLock, TypeOK, caches, gate, store
  <2>5. ASSUME NEW r \in Req, FinishRefresh(r) PROVE TypeOK'
    <3>1. job[r] \in Job
      BY <1>1 DEF TypeOK
    <3> QED
      BY <1>1, <2>5, <3>1, Labels, InitialTypes, JobTypes, MoveType, NewsBounds
         DEF FinishRefresh, Goto, TypeOK, caches, gate, store
  <2>6. ASSUME NEW r \in Req, Release(r) PROVE TypeOK'
    <3>1. job[r] \in Job
      BY <1>1 DEF TypeOK
    <3> QED
      BY <1>1, <2>6, <3>1, Labels, InitialTypes, JobTypes, MoveType, NewsBounds
         DEF Finish, Goto, Release, TypeOK, caches, gate, store
  <2>7. ASSUME NEW r \in Req, FetchFeeds(r) PROVE TypeOK'
    <3>1. job[r] \in Job
      BY <1>1 DEF TypeOK
    <3>2. \A got \in SUBSET Record : [job[r] EXCEPT !.got = got] \in Job
      BY <1>1, <3>1, <2>7 DEF Job
    <3>3. pc' \in [Req -> Label]
      BY <1>1, <2>7, Labels DEF FetchFeeds, Goto, TypeOK
    <3>4. job' \in [Req -> Job]
      BY <1>1, <2>7, <3>1, <3>2, InitialTypes, MoveType DEF FetchFeeds, TypeOK
    <3> QED
      BY <1>1, <2>7, <3>1, <3>2, <3>3, <3>4, NewsBounds
         DEF FetchFeeds, TypeOK, caches, gate, store
  <2>8. ASSUME NEW r \in Req, Partition(r) PROVE TypeOK'
    <3>1. job[r] \in Job
      BY <1>1 DEF TypeOK
    <3>2. [job[r] EXCEPT !.new = {x \in job[r].got : assigned[x] = 0}, !.got = {}] \in Job
      BY <1>1, <3>1, <2>8 DEF Job
    <3> QED
      BY <1>1, <2>8, <3>1, <3>2, Labels, InitialTypes, JobTypes, MoveType, NewsBounds
         DEF Goto, Partition, TypeOK, caches, gate, store
  <2>9. ASSUME NEW r \in Req, LoadActive(r) PROVE TypeOK'
    <3>1. job[r] \in Job
      BY <1>1 DEF TypeOK
    <3>2. [NoJob EXCEPT !.n = job[r].n, !.waited = job[r].waited] \in Job
      BY <1>1, <3>1, <2>9, TaggedType
    <3>3. Cardinality(job[r].new) \in Nat
      BY <1>1, <3>1, <2>9, NewIsFinite, JobTypes
    <3>4. [c \in Row |-> IF c \in live THEN clusters[c] ELSE {}] \in [Row -> SUBSET Record]
      BY <1>1, <3>1, <2>9 DEF TypeOK
    <3>5. [job[r] EXCEPT !.known = live, !.active = [c \in Row |-> IF c \in live THEN clusters[c] ELSE {}],
                           !.left = Cardinality(job[r].new)] \in Job
      BY <1>1, <3>1, <2>9, <3>3, <3>4 DEF TypeOK, Job
    <3>6. pc' \in [Req -> Label]
      BY <1>1, <2>9, Labels DEF Goto, LoadActive, Tagging, TypeOK
    <3>7. job' \in [Req -> Job]
      BY <1>1, <2>9, <3>1, <3>2, <3>3, <3>4, <3>5, InitialTypes, MoveType
         DEF LoadActive, Tagging, TypeOK
    <3> QED
      BY <1>1, <2>9, <3>1, <3>2, <3>3, <3>4, <3>5, <3>6, <3>7, NewsBounds
         DEF LoadActive, Tagging, TypeOK, caches, gate, store
  <2>10. ASSUME NEW r \in Req, NEW taken \in SUBSET job[r].new, InsertGroup(r, taken)
      PROVE  TypeOK'
    <3>1. job[r] \in Job
      BY <1>1 DEF TypeOK
    <3>2. taken \in SUBSET Record
      BY <1>1, <3>1, <2>10, JobTypes
    <3>3. Joined(job[r], lastRow + 1, taken, taken) \in Job
      BY <1>1, <3>1, <2>10, <3>2, JoinedType DEF InsertGroup
    <3>4. pc' \in [Req -> Label]
      BY <1>1, <2>10, Labels DEF Goto, InsertGroup, TypeOK
    <3>5. job' \in [Req -> Job]
      BY <1>1, <2>10, <3>1, <3>2, <3>3, InitialTypes, MoveType DEF InsertGroup, TypeOK
    <3>6. clusters' \in [Row -> SUBSET Record] /\ live' \subseteq Row /\ lastRow' \in 0..MaxCluster
      BY <1>1, <2>10, <3>2, NewsBounds DEF InsertGroup, TypeOK, Row
    <3> QED
      BY <1>1, <2>10, <3>1, <3>2, <3>3, <3>4, <3>5, <3>6
         DEF InsertGroup, TypeOK, caches, gate, store
  <2>11. ASSUME NEW r \in Req, NEW taken \in SUBSET job[r].new, NEW c \in Row, MergeGroup(r, c, taken)
      PROVE  TypeOK'
    <3>1. job[r] \in Job
      BY <1>1 DEF TypeOK
    <3>2. taken \in SUBSET Record
      BY <1>1, <3>1, <2>11, JobTypes
    <3>3. MergedRecords(job[r].active[c], taken) \in SUBSET Record
      BY <1>1, <3>1, <2>11, <3>2, JobTypes DEF MergedRecords
    <3>4. Joined(job[r], c, taken, MergedRecords(job[r].active[c], taken)) \in Job
      BY <1>1, <3>1, <2>11, <3>2, <3>3, JoinedType DEF MergeGroup
    <3> QED
      BY <1>1, <2>11, <3>1, <3>2, <3>3, <3>4, Labels, InitialTypes, JobTypes, MoveType,
         NewsBounds
         DEF Goto, MergeGroup, TypeOK, caches, gate, store
  <2>12. ASSUME NEW r \in Req, GroupsDone(r) PROVE TypeOK'
    <3>1. job[r] \in Job
      BY <1>1 DEF TypeOK
    <3>2. [NoJob EXCEPT !.n = job[r].n, !.waited = job[r].waited] \in Job
      BY <1>1, <3>1, <2>12, TaggedType
    <3> QED
      BY <1>1, <2>12, <3>1, <3>2, Labels, InitialTypes, JobTypes, MoveType, NewsBounds
         DEF Goto, GroupsDone, Tagging, TypeOK, caches, gate, store
  <2>13. ASSUME NEW r \in Req, StoreAssignments(r) PROVE TypeOK'
    <3>1. job[r] \in Job
      BY <1>1 DEF TypeOK
    <3>2. Overwrite(assigned, job[r].pending) \in [Record -> 0..MaxCluster]
      BY <1>1, <3>1, <2>13, OverwriteType, JobTypes DEF TypeOK
    <3>3. Pending(job[r]) \subseteq Record
      BY <1>1, <3>1, <2>13 DEF Pending
    <3> QED
      BY <1>1, <2>13, <3>1, <3>2, <3>3, Labels, InitialTypes, JobTypes, MoveType, NewsBounds
         DEF Goto, StoreAssignments, TypeOK, caches, gate, store
  <2>14. ASSUME NEW r \in Req, StoreRegistry(r) PROVE TypeOK'
    <3>1. job[r] \in Job
      BY <1>1 DEF TypeOK
    <3>2. [NoJob EXCEPT !.n = job[r].n, !.waited = job[r].waited] \in Job
      BY <1>1, <3>1, <2>14, TaggedType
    <3>3. Overwrite(registry, job[r].pending) \in [Record -> 0..MaxCluster]
      BY <1>1, <3>1, <2>14, OverwriteType, JobTypes DEF TypeOK
    <3> QED
      BY <1>1, <2>14, <3>1, <3>2, <3>3, Labels, InitialTypes, JobTypes, MoveType, NewsBounds
         DEF Goto, StoreRegistry, Tagging, TypeOK, caches, gate, store
  <2>15. ASSUME NEW r \in Req, StoreFails(r) PROVE TypeOK'
    <3>1. job[r] \in Job
      BY <1>1 DEF TypeOK
    <3>2. [NoJob EXCEPT !.n = job[r].n, !.waited = job[r].waited] \in Job
      BY <1>1, <3>1, <2>15, TaggedType
    <3> QED
      BY <1>1, <2>15, <3>1, <3>2, Labels, InitialTypes, JobTypes, MoveType, NewsBounds
         DEF Goto, StoreFails, Tagging, TypeOK, caches, gate, store
  <2>16. ASSUME NEW r \in Req, TagFails(r) PROVE TypeOK'
    <3>1. job[r] \in Job
      BY <1>1 DEF TypeOK
    <3> QED
      BY <1>1, <2>16, <3>1, Labels, InitialTypes, JobTypes, MoveType, NewsBounds
         DEF Goto, TagFails, TypeOK, caches, gate, store
  <2>17. ASSUME NEW r \in Req, Publish(r) PROVE TypeOK'
    <3>1. job[r] \in Job
      BY <1>1 DEF TypeOK
    <3> QED
      BY <1>1, <2>17, <3>1, Labels, InitialTypes, JobTypes, MoveType, NewsBounds
         DEF Goto, Publish, TypeOK, caches, gate, store
  <2>18. ASSUME NEW r \in Req, Save(r) PROVE TypeOK'
    <3>1. job[r] \in Job
      BY <1>1 DEF TypeOK
    <3> QED
      BY <1>1, <2>18, <3>1, Labels, InitialTypes, JobTypes, MoveType, NewsBounds
         DEF Goto, Save, TypeOK, caches, gate, store
  <2>19. ASSUME NEW r \in Req, GetStored(r) PROVE TypeOK'
    <3>1. job[r] \in Job
      BY <1>1 DEF TypeOK
    <3>2. Fallback(job[r]) \in Payload
      BY <1>1, <3>1, <2>19, JobTypes DEF Fallback, TypeOK
    <3>3. [job[r] EXCEPT !.n = Fallback(job[r])] \in Job
      BY <1>1, <3>1, <2>19, <3>2 DEF Job
    <3> QED
      BY <1>1, <2>19, <3>1, <3>2, <3>3, Labels, InitialTypes, JobTypes, MoveType, NewsBounds
         DEF GetStored, Goto, TypeOK, caches, gate, store
  <2>20. ASSUME NEW r \in Req, GetFails(r) PROVE TypeOK'
    <3>1. job[r] \in Job
      BY <1>1 DEF TypeOK
    <3> QED
      BY <1>1, <2>20, <3>1, Labels, InitialTypes, JobTypes, MoveType, NewsBounds
         DEF GetFails, Goto, TypeOK, caches, gate, store
  <2>21. ASSUME NEW r \in Req, GetServe(r) PROVE TypeOK'
    <3>1. job[r] \in Job
      BY <1>1 DEF TypeOK
    <3> QED
      BY <1>1, <2>21, <3>1, Labels, InitialTypes, JobTypes, MoveType, NewsBounds
         DEF Finish, GetServe, Goto, TypeOK, caches, gate, store
  <2>22. CASE Archive
    BY <1>1, <2>22 DEF Archive, TypeOK, store, caches, gate
  <2>23. CASE Restart
    BY <1>1, <2>23, Labels, InitialTypes DEF Restart, TypeOK, store, caches, gate
  <2>24. CASE UNCHANGED vars
    BY <1>1, <2>24 DEF Goto, TypeOK, caches, gate, store, vars
  <2> QED
    BY <1>1, <2>1, <2>2, <2>3, <2>4, <2>5, <2>6, <2>7, <2>8, <2>9, <2>10, <2>11, <2>12, <2>13,
       <2>14, <2>15, <2>16, <2>17, <2>18, <2>19, <2>20, <2>21, <2>22, <2>23, <2>24
       DEF Next, Step, GateStep, StoreStep, GroupStep, PublishStep, GetStep

LEMMA NumbersStep == TypeOK /\ Numbers /\ TypeOK' /\ [Next]_vars => Numbers'
<1> SUFFICES ASSUME TypeOK, Numbers, TypeOK', [Next]_vars PROVE Numbers'
  OBVIOUS
<1>1. TypeOK /\ Numbers /\ TypeOK'
  OBVIOUS
<1>2. QED
  <2>1. ASSUME NEW r \in Req, StartRefresh(r) PROVE Numbers'
    <3>1. pc[r] \notin {"try", "wait"} /\ AtGate' = AtGate \cup {r} /\ r \notin AtGate
      BY <1>1, <2>1 DEF StartRefresh, Goto, AtGate, TypeOK
    <3>2. Cardinality(AtGate') = Cardinality(AtGate) + 1
      BY <3>1, AtGateIsFinite, FS_AddElement
    <3> QED
      BY <1>1, <2>1, <3>2, AtGateIsFinite, NewsBounds
         DEF StartRefresh, Numbers, TypeOK, Payload
  <2>2. ASSUME NEW r \in Req, StartGet(r) PROVE Numbers'
    BY <1>1, <2>2, NumbersPrime DEF AtGate, Goto, StartGet, TypeOK, caches, gate, store
  <2>3. ASSUME NEW r \in Req, Acquire(r) PROVE Numbers'
    <3>1. r \in AtGate
      BY <2>3 DEF Acquire, AtGate
    <3>2. \/ started' = started /\ AtGate' \subseteq AtGate
          \/ started' = started + 1 /\ AtGate' \subseteq AtGate \ {r}
      BY <1>1, <2>3, <3>1 DEF Acquire, Fetching, Finish, Goto, AtGate, TypeOK
    <3> QED
      BY <1>1, <3>1, <3>2, NumbersPrime
  <2>4. ASSUME NEW r \in Req, TryLock(r) PROVE Numbers'
    <3>1. r \in AtGate
      BY <2>4 DEF TryLock, AtGate
    <3>2. \/ started' = started /\ AtGate' \subseteq AtGate
          \/ started' = started + 1 /\ AtGate' \subseteq AtGate \ {r}
      BY <1>1, <2>4, <3>1 DEF TryLock, Fetching, Finish, Goto, AtGate, TypeOK
    <3> QED
      BY <1>1, <3>1, <3>2, NumbersPrime
  <2>5. ASSUME NEW r \in Req, FinishRefresh(r) PROVE Numbers'
    BY <1>1, <2>5, NumbersPrime DEF AtGate, FinishRefresh, Goto, TypeOK, caches, gate, store
  <2>6. ASSUME NEW r \in Req, Release(r) PROVE Numbers'
    BY <1>1, <2>6, NumbersPrime DEF AtGate, Finish, Goto, Release, TypeOK, caches, gate, store
  <2>7. ASSUME NEW r \in Req, FetchFeeds(r) PROVE Numbers'
    BY <1>1, <2>7, NumbersPrime DEF AtGate, FetchFeeds, Goto, TypeOK, caches, gate, store
  <2>8. ASSUME NEW r \in Req, Partition(r) PROVE Numbers'
    BY <1>1, <2>8, NumbersPrime DEF AtGate, Goto, Partition, TypeOK, caches, gate, store
  <2>9. ASSUME NEW r \in Req, LoadActive(r) PROVE Numbers'
    BY <1>1, <2>9, NumbersPrime
       DEF AtGate, Goto, LoadActive, Tagging, TypeOK, caches, gate, store
  <2>10. ASSUME NEW r \in Req, NEW taken \in SUBSET job[r].new, InsertGroup(r, taken)
      PROVE  Numbers'
    BY <1>1, <2>10, NumbersPrime DEF AtGate, Goto, InsertGroup, TypeOK, caches, gate, store
  <2>11. ASSUME NEW r \in Req, NEW taken \in SUBSET job[r].new, NEW c \in Row, MergeGroup(r, c, taken)
      PROVE  Numbers'
    BY <1>1, <2>11, NumbersPrime DEF AtGate, Goto, MergeGroup, TypeOK, caches, gate, store
  <2>12. ASSUME NEW r \in Req, GroupsDone(r) PROVE Numbers'
    BY <1>1, <2>12, NumbersPrime
       DEF AtGate, Goto, GroupsDone, Tagging, TypeOK, caches, gate, store
  <2>13. ASSUME NEW r \in Req, StoreAssignments(r) PROVE Numbers'
    BY <1>1, <2>13, NumbersPrime
       DEF AtGate, Goto, StoreAssignments, TypeOK, caches, gate, store
  <2>14. ASSUME NEW r \in Req, StoreRegistry(r) PROVE Numbers'
    BY <1>1, <2>14, NumbersPrime
       DEF AtGate, Goto, StoreRegistry, Tagging, TypeOK, caches, gate, store
  <2>15. ASSUME NEW r \in Req, StoreFails(r) PROVE Numbers'
    BY <1>1, <2>15, NumbersPrime
       DEF AtGate, Goto, StoreFails, Tagging, TypeOK, caches, gate, store
  <2>16. ASSUME NEW r \in Req, TagFails(r) PROVE Numbers'
    BY <1>1, <2>16, NumbersPrime DEF AtGate, Goto, TagFails, TypeOK, caches, gate, store
  <2>17. ASSUME NEW r \in Req, Publish(r) PROVE Numbers'
    BY <1>1, <2>17, NumbersPrime DEF AtGate, Goto, Publish, TypeOK, caches, gate, store
  <2>18. ASSUME NEW r \in Req, Save(r) PROVE Numbers'
    BY <1>1, <2>18, NumbersPrime DEF AtGate, Goto, Save, TypeOK, caches, gate, store
  <2>19. ASSUME NEW r \in Req, GetStored(r) PROVE Numbers'
    BY <1>1, <2>19, NumbersPrime DEF AtGate, GetStored, Goto, TypeOK, caches, gate, store
  <2>20. ASSUME NEW r \in Req, GetFails(r) PROVE Numbers'
    BY <1>1, <2>20, NumbersPrime DEF AtGate, GetFails, Goto, TypeOK, caches, gate, store
  <2>21. ASSUME NEW r \in Req, GetServe(r) PROVE Numbers'
    BY <1>1, <2>21, NumbersPrime
       DEF AtGate, Finish, GetServe, Goto, TypeOK, caches, gate, store
  <2>22. CASE Archive
    BY <1>1, <2>22 DEF Archive, Numbers, AtGate
  <2>23. CASE Restart
    <3>1. AtGate' = {} /\ Cardinality(AtGate') = 0
      BY <2>23, FS_EmptySet DEF Restart, AtGate
    <3> QED
      BY <1>1, <2>23, <3>1, NewsBounds DEF Restart, Numbers, TypeOK, Payload
  <2>24. CASE UNCHANGED vars
    BY <1>1, <2>24 DEF AtGate, Numbers, vars
  <2> QED
    BY <1>1, <2>1, <2>2, <2>3, <2>4, <2>5, <2>6, <2>7, <2>8, <2>9, <2>10, <2>11, <2>12, <2>13,
       <2>14, <2>15, <2>16, <2>17, <2>18, <2>19, <2>20, <2>21, <2>22, <2>23, <2>24
       DEF Next, Step, GateStep, StoreStep, GroupStep, PublishStep, GetStep

LEMMA NewsTypeInit == Init => TypeOK /\ Numbers
<1> SUFFICES ASSUME Init PROVE TypeOK /\ Numbers
  OBVIOUS
<1>1. TypeOK
  <2>1. pc \in [Req -> Label] /\ job \in [Req -> Job]
    BY Labels, InitialTypes DEF Init
  <2>2. live \subseteq Row /\ unregistered \subseteq Record /\ lastRow \in 0..MaxCluster
    BY NewsBounds DEF Init
  <2>3. unsaved \in BOOLEAN /\ last \in BOOLEAN /\ lock \in Req \cup {NoReq}
    BY DEF Init
  <2>4. hot \in Payload /\ stored \in Payload /\ shown \in Payload /\ started \in Payload
    BY InitialTypes DEF Init
  <2>5. clusters \in [Row -> SUBSET Record] /\ assigned \in [Record -> 0..MaxCluster]
          /\ registry \in [Record -> 0..MaxCluster]
    BY InitialTypes DEF Init
  <2> QED
    BY <2>1, <2>2, <2>3, <2>4, <2>5 DEF TypeOK
<1>2. AtGate = {}
  BY DEF Init, AtGate
<1> QED
  BY <1>1, <1>2, FS_EmptySet, NewsBounds DEF Init, Numbers

\* The refresh and its readers keep to their types, and never number more
\* payloads than the bound (news_refresh, refresh_clusters, _read_news_cache_state).
THEOREM NewsTypeCorrect == Spec => []TypeOK
<1>1. TypeOK /\ Numbers /\ [Next]_vars => (TypeOK /\ Numbers)'
  BY NewsTypeStep, NumbersStep
<1> QED
  BY <1>1, NewsTypeInit, PTL DEF Spec

---------------------------------------------------------------------------
(* The lock. *)

LEMMA LockStep == TypeOK /\ LockIsHeld /\ [Next]_vars => LockIsHeld'
<1> SUFFICES ASSUME TypeOK, LockIsHeld, [Next]_vars PROVE LockIsHeld'
  OBVIOUS
<1>1. TypeOK /\ LockIsHeld
  OBVIOUS
<1>2. QED
  <2>1. ASSUME NEW r \in Req, StartRefresh(r) PROVE LockIsHeld'
    BY <1>1, <2>1, NoReqIsNoReq
       DEF Goto, LockIsHeld, RefreshLabel, StartRefresh, TypeOK, caches, gate, store
  <2>2. ASSUME NEW r \in Req, StartGet(r) PROVE LockIsHeld'
    BY <1>1, <2>2, NoReqIsNoReq
       DEF Goto, LockIsHeld, NoJob, RefreshLabel, StartGet, TypeOK, caches, gate, store
  <2>3. ASSUME NEW r \in Req, Acquire(r) PROVE LockIsHeld'
    BY <1>1, <2>3, NoReqIsNoReq
       DEF Acquire, Fetching, Finish, FreshJob, Goto, LockIsHeld, NoJob, RefreshLabel, TypeOK,
           caches, gate, store
  <2>4. ASSUME NEW r \in Req, TryLock(r) PROVE LockIsHeld'
    BY <1>1, <2>4, NoReqIsNoReq
       DEF Fetching, Finish, FreshJob, Goto, LockIsHeld, NoJob, RefreshLabel, TryLock, TypeOK,
           caches, gate, store
  <2>5. ASSUME NEW r \in Req, FinishRefresh(r) PROVE LockIsHeld'
    BY <1>1, <2>5, NoReqIsNoReq
       DEF FinishRefresh, Goto, LockIsHeld, RefreshLabel, TypeOK, caches, gate, store
  <2>6. ASSUME NEW r \in Req, Release(r) PROVE LockIsHeld'
    BY <1>1, <2>6, NoReqIsNoReq
       DEF Finish, Goto, LockIsHeld, NoJob, RefreshLabel, Release, TypeOK, caches, gate,
           store
  <2>7. ASSUME NEW r \in Req, FetchFeeds(r) PROVE LockIsHeld'
    BY <1>1, <2>7, NoReqIsNoReq
       DEF FetchFeeds, Goto, LockIsHeld, RefreshLabel, TypeOK, caches, gate, store
  <2>8. ASSUME NEW r \in Req, Partition(r) PROVE LockIsHeld'
    BY <1>1, <2>8, NoReqIsNoReq
       DEF Goto, LockIsHeld, Partition, RefreshLabel, TypeOK, caches, gate, store
  <2>9. ASSUME NEW r \in Req, LoadActive(r) PROVE LockIsHeld'
    BY <1>1, <2>9, NoReqIsNoReq
       DEF Goto, LoadActive, LockIsHeld, NoJob, RefreshLabel, Tagging, TypeOK, caches, gate,
           store
  <2>10. ASSUME NEW r \in Req, NEW taken \in SUBSET job[r].new, InsertGroup(r, taken)
      PROVE  LockIsHeld'
    BY <1>1, <2>10, NoReqIsNoReq
       DEF Goto, InsertGroup, Joined, LockIsHeld, RefreshLabel, TypeOK, caches, gate, store
  <2>11. ASSUME NEW r \in Req, NEW taken \in SUBSET job[r].new, NEW c \in Row, MergeGroup(r, c, taken)
      PROVE  LockIsHeld'
    BY <1>1, <2>11, NoReqIsNoReq
       DEF Goto, Joined, LockIsHeld, MergeGroup, MergedRecords, RefreshLabel, TypeOK, caches,
           gate, store
  <2>12. ASSUME NEW r \in Req, GroupsDone(r) PROVE LockIsHeld'
    BY <1>1, <2>12, NoReqIsNoReq
       DEF Goto, GroupsDone, LockIsHeld, NoJob, Pending, RefreshLabel, Tagging, TypeOK,
           caches, gate, store
  <2>13. ASSUME NEW r \in Req, StoreAssignments(r) PROVE LockIsHeld'
    BY <1>1, <2>13, NoReqIsNoReq
       DEF Goto, LockIsHeld, Overwrite, Pending, RefreshLabel, StoreAssignments, TypeOK,
           caches, gate, store
  <2>14. ASSUME NEW r \in Req, StoreRegistry(r) PROVE LockIsHeld'
    BY <1>1, <2>14, NoReqIsNoReq
       DEF Goto, LockIsHeld, NoJob, Overwrite, Pending, RefreshLabel, StoreRegistry, Tagging,
           TypeOK, caches, gate, store
  <2>15. ASSUME NEW r \in Req, StoreFails(r) PROVE LockIsHeld'
    BY <1>1, <2>15, NoReqIsNoReq
       DEF Goto, LockIsHeld, NoJob, RefreshLabel, StoreFails, Tagging, TypeOK, caches, gate,
           store
  <2>16. ASSUME NEW r \in Req, TagFails(r) PROVE LockIsHeld'
    BY <1>1, <2>16, NoReqIsNoReq
       DEF Goto, LockIsHeld, RefreshLabel, TagFails, TypeOK, caches, gate, store
  <2>17. ASSUME NEW r \in Req, Publish(r) PROVE LockIsHeld'
    BY <1>1, <2>17, NoReqIsNoReq
       DEF Goto, LockIsHeld, Publish, RefreshLabel, TypeOK, caches, gate, store
  <2>18. ASSUME NEW r \in Req, Save(r) PROVE LockIsHeld'
    BY <1>1, <2>18, NoReqIsNoReq
       DEF Goto, LockIsHeld, RefreshLabel, Save, TypeOK, caches, gate, store
  <2>19. ASSUME NEW r \in Req, GetStored(r) PROVE LockIsHeld'
    BY <1>1, <2>19, NoReqIsNoReq
       DEF Fallback, GetStored, Goto, LockIsHeld, RefreshLabel, TypeOK, caches, gate, store
  <2>20. ASSUME NEW r \in Req, GetFails(r) PROVE LockIsHeld'
    BY <1>1, <2>20, NoReqIsNoReq
       DEF GetFails, Goto, LockIsHeld, RefreshLabel, TypeOK, caches, gate, store
  <2>21. ASSUME NEW r \in Req, GetServe(r) PROVE LockIsHeld'
    BY <1>1, <2>21, NoReqIsNoReq
       DEF Finish, GetServe, Goto, LockIsHeld, NoJob, RefreshLabel, TypeOK, caches, gate,
           store
  <2>22. CASE Archive
    BY <1>1, <2>22, NoReqIsNoReq
       DEF Archive, Goto, LockIsHeld, RefreshLabel, TypeOK, caches, gate, store
  <2>23. CASE Restart
    BY <1>1, <2>23, NoReqIsNoReq
       DEF Goto, LockIsHeld, NoJob, RefreshLabel, Restart, TypeOK, caches, gate, store
  <2>24. CASE UNCHANGED vars
    BY <1>1, <2>24 DEF Goto, LockIsHeld, RefreshLabel, TypeOK, caches, gate, store, vars
  <2> QED
    BY <1>1, <2>1, <2>2, <2>3, <2>4, <2>5, <2>6, <2>7, <2>8, <2>9, <2>10, <2>11, <2>12, <2>13,
       <2>14, <2>15, <2>16, <2>17, <2>18, <2>19, <2>20, <2>21, <2>22, <2>23, <2>24
       DEF Next, Step, GateStep, StoreStep, GroupStep, PublishStep, GetStep

\* Refreshes never overlap, and no failure leaves the lock behind (news_refresh).
THEOREM LockIsHeldAlways == Spec => []LockIsHeld
<1>1. Init => LockIsHeld
  BY NoReqIsNoReq DEF Init, LockIsHeld, RefreshLabel
<1>2. TypeOK /\ LockIsHeld /\ [Next]_vars => LockIsHeld'
  BY LockStep
<1> QED
  BY <1>1, <1>2, NewsTypeCorrect, PTL DEF Spec

---------------------------------------------------------------------------
(* The cluster store. *)

\* What a refresh holds in its locals agrees with the store.
LocalsOK(r) ==
    LET j == job[r] IN
    /\ pc[r] \in {"fetch", "partition", "active"} => Pending(j) = {}
    /\ pc[r] \in {"active", "group", "assign"} => \A x \in j.new : assigned[x] = 0
    /\ pc[r] \in {"group", "assign"} => Pending(j) \subseteq j.new
    /\ pc[r] \in {"group", "assign", "register"} => \A x \in Pending(j) :
           j.pending[x] <= lastRow /\ x \in clusters[j.pending[x]]
    /\ pc[r] = "group" => \A c \in j.known : c <= lastRow /\ j.active[c] = clusters[c]
    /\ pc[r] = "register" => \A x \in Pending(j) : assigned[x] = j.pending[x]

StoreOK ==
    /\ \A r \in Req : LocalsOK(r)
    /\ \A c \in live : c <= lastRow
    /\ AssignedIsStored

\* A fresh job has assigned nothing.
LEMMA FreshPending == \A waited \in BOOLEAN : Pending(FreshJob(waited)) = {}
<1> TAKE waited \in BOOLEAN
<1>1. FreshJob(waited).pending = Unassigned
  BY DEF FreshJob, NoJob
<1> QED
  BY <1>1 DEF Pending, Unassigned

\* Only one handler is in a refresh.
LEMMA OneRefresh ==
    ASSUME LockIsHeld, NEW r \in Req, NEW q \in Req,
           pc[r] \in RefreshLabel, pc[q] \in RefreshLabel
    PROVE  q = r
  BY DEF LockIsHeld

LEMMA ClusterStep == TypeOK /\ LockIsHeld /\ StoreOK /\ [Next]_vars => StoreOK'
<1> SUFFICES ASSUME TypeOK, LockIsHeld, StoreOK, [Next]_vars PROVE StoreOK'
  OBVIOUS
<1>1. TypeOK /\ LockIsHeld /\ StoreOK
  OBVIOUS
<1>2. QED
  <2>1. ASSUME NEW r \in Req, StartRefresh(r) PROVE StoreOK'
    BY <1>1, <2>1, OneRefresh, JobTypes
       DEF AssignedIsStored, Goto, LocalsOK, Pending, RefreshLabel, StartRefresh, StoreOK,
           TypeOK, caches, gate, store
  <2>2. ASSUME NEW r \in Req, StartGet(r) PROVE StoreOK'
    BY <1>1, <2>2, OneRefresh, JobTypes
       DEF AssignedIsStored, Goto, LocalsOK, NoJob, Pending, RefreshLabel, StartGet, StoreOK,
           TypeOK, caches, gate, store
  <2>3. ASSUME NEW r \in Req, Acquire(r) PROVE StoreOK'
    <3>1. UNCHANGED store /\ \A q \in Req : q # r => pc'[q] = pc[q] /\ job'[q] = job[q]
      BY <1>1, <2>3 DEF Acquire, Fetching, Finish, Goto, TypeOK, store
    <3>2. \A q \in Req : q # r => LocalsOK(q)'
      BY <1>1, <3>1 DEF LocalsOK, Pending, StoreOK, store
    <3>3. LocalsOK(r)'
      <4>1. \/ pc'[r] = "fetch" /\ job'[r] = FreshJob(TRUE)
            \/ pc'[r] \in {"idle", "wait"}
        BY <1>1, <2>3 DEF Acquire, Fetching, Finish, Goto, TypeOK
      <4>2. CASE pc'[r] = "fetch" /\ job'[r] = FreshJob(TRUE)
        <5>1. Pending(job[r])' = {}
          BY <4>2, FreshPending DEF Pending
        <5> QED
          BY <4>2, <5>1 DEF LocalsOK
      <4>3. CASE pc'[r] \in {"idle", "wait"}
        BY <4>3 DEF LocalsOK
      <4> QED
        BY <4>1, <4>2, <4>3
    <3> QED
      BY <1>1, <3>1, <3>2, <3>3 DEF StoreOK, AssignedIsStored, store
  <2>4. ASSUME NEW r \in Req, TryLock(r) PROVE StoreOK'
    <3>1. UNCHANGED store /\ \A q \in Req : q # r => pc'[q] = pc[q] /\ job'[q] = job[q]
      BY <1>1, <2>4 DEF Fetching, Finish, Goto, TryLock, TypeOK, store
    <3>2. \A q \in Req : q # r => LocalsOK(q)'
      BY <1>1, <3>1 DEF LocalsOK, Pending, StoreOK, store
    <3>3. LocalsOK(r)'
      <4>1. \/ pc'[r] = "fetch" /\ job'[r] = FreshJob(FALSE)
            \/ pc'[r] \in {"idle", "wait"}
        BY <1>1, <2>4 DEF TryLock, Fetching, Finish, Goto, TypeOK
      <4>2. CASE pc'[r] = "fetch" /\ job'[r] = FreshJob(FALSE)
        <5>1. Pending(job[r])' = {}
          BY <4>2, FreshPending DEF Pending
        <5> QED
          BY <4>2, <5>1 DEF LocalsOK
      <4>3. CASE pc'[r] \in {"idle", "wait"}
        BY <4>3 DEF LocalsOK
      <4> QED
        BY <4>1, <4>2, <4>3
    <3> QED
      BY <1>1, <3>1, <3>2, <3>3 DEF StoreOK, AssignedIsStored, store
  <2>5. ASSUME NEW r \in Req, FinishRefresh(r) PROVE StoreOK'
    BY <1>1, <2>5, OneRefresh, JobTypes
       DEF AssignedIsStored, FinishRefresh, Goto, LocalsOK, Pending, RefreshLabel, StoreOK,
           TypeOK, caches, gate, store
  <2>6. ASSUME NEW r \in Req, Release(r) PROVE StoreOK'
    BY <1>1, <2>6, OneRefresh, JobTypes
       DEF AssignedIsStored, Finish, Goto, LocalsOK, NoJob, Pending, RefreshLabel, Release,
           StoreOK, TypeOK, caches, gate, store
  <2>7. ASSUME NEW r \in Req, FetchFeeds(r) PROVE StoreOK'
    <3>1. UNCHANGED store /\ \A q \in Req : q # r => pc'[q] = pc[q] /\ job'[q] = job[q]
      BY <1>1, <2>7 DEF FetchFeeds, Goto, TypeOK, store
    <3>2. \A q \in Req : q # r => LocalsOK(q)'
      BY <1>1, <3>1 DEF LocalsOK, Pending, StoreOK, store
    <3>3. LocalsOK(r)'
      <4>1. CASE \E got \in SUBSET Record : job' = [job EXCEPT ![r].got = got] /\ Goto(r, "partition")
        <5>1. pc[r] = "fetch" /\ pc'[r] = "partition" /\ job'[r].pending = job[r].pending
          BY <1>1, <2>7, <4>1, JobTypes DEF FetchFeeds, Goto, TypeOK, Job
        <5>2. Pending(job[r])' = {}
          BY <1>1, <5>1 DEF StoreOK, LocalsOK, Pending
        <5> QED
          BY <5>1, <5>2 DEF LocalsOK
      <4>2. CASE Goto(r, "finish") /\ UNCHANGED job
        <5>1. pc'[r] = "finish"
          BY <1>1, <4>2 DEF Goto, TypeOK
        <5> QED
          BY <5>1 DEF LocalsOK
      <4> QED
        BY <2>7, <4>1, <4>2 DEF FetchFeeds
    <3> QED
      BY <1>1, <3>1, <3>2, <3>3 DEF StoreOK, AssignedIsStored, store
  <2>8. ASSUME NEW r \in Req, Partition(r) PROVE StoreOK'
    BY <1>1, <2>8, OneRefresh, JobTypes
       DEF AssignedIsStored, Goto, LocalsOK, Partition, Pending, RefreshLabel, StoreOK,
           TypeOK, caches, gate, store
  <2>9. ASSUME NEW r \in Req, LoadActive(r) PROVE StoreOK'
    <3>1. UNCHANGED store /\ \A q \in Req : q # r => pc'[q] = pc[q] /\ job'[q] = job[q]
      BY <1>1, <2>9 DEF Goto, LoadActive, Tagging, TypeOK, store
    <3>2. \A q \in Req : q # r => LocalsOK(q)'
      BY <1>1, <3>1 DEF LocalsOK, Pending, StoreOK, store
    <3>3. LocalsOK(r)'
      <4>1. CASE Tagging(r)
        <5>1. pc'[r] = "tag"
          BY <1>1, <4>1 DEF Tagging, Goto, TypeOK
        <5> QED
          BY <5>1 DEF LocalsOK
      <4>2. CASE ~Tagging(r)
        <5>1. /\ pc[r] = "active" /\ pc'[r] = "group"
              /\ job'[r].new = job[r].new /\ job'[r].pending = job[r].pending
              /\ job'[r].known = live
              /\ job'[r].active = [c \in Row |-> IF c \in live THEN clusters[c] ELSE {}]
          <6>1. /\ pc[r] = "active" /\ pc'[r] = "group"
                /\ job' = [job EXCEPT ![r].known = live,
                         ![r].active = [c \in Row |-> IF c \in live THEN clusters[c] ELSE {}],
                         ![r].left = Cardinality(job[r].new)]
            BY <1>1, <2>9, <4>2 DEF LoadActive, Goto, TypeOK
          <6>2. job[r] \in Job /\ job \in [Req -> Job]
            BY <1>1 DEF TypeOK
          <6> QED
            BY <6>1, <6>2 DEF Job
        <5>2. Pending(job[r])' = {}
          BY <1>1, <5>1 DEF StoreOK, LocalsOK, Pending
        <5> QED
          BY <1>1, <3>1, <5>1, <5>2 DEF LocalsOK, StoreOK, TypeOK, store
      <4> QED
        BY <4>1, <4>2
    <3> QED
      BY <1>1, <3>1, <3>2, <3>3 DEF StoreOK, AssignedIsStored, store
  <2>10. ASSUME NEW r \in Req, NEW taken \in SUBSET job[r].new, InsertGroup(r, taken)
      PROVE  StoreOK'
    <3>1. pc[r] = "group" /\ lastRow' = lastRow + 1 /\ job[r].new \subseteq Record
            /\ clusters' = [clusters EXCEPT ![lastRow + 1] = taken]
            /\ live' \in {live, live \cup {lastRow + 1}} /\ assigned' = assigned /\ pc' = pc
            /\ job' = [job EXCEPT ![r] = Joined(job[r], lastRow + 1, taken, taken)]
      BY <1>1, <2>10, JobTypes DEF InsertGroup, TypeOK, store
    <3>2. lastRow \in Nat /\ lastRow + 1 \in Row
      BY <1>1, <2>10 DEF InsertGroup, TypeOK
    <3>3. \A c \in Row : c <= lastRow => clusters'[c] = clusters[c]
      BY <1>1, <3>1, <3>2 DEF TypeOK
    <3>4. clusters'[lastRow + 1] = taken
      BY <1>1, <3>1, <3>2 DEF TypeOK
    <3>5. \A q \in Req : q # r => LocalsOK(q)'
      BY <1>1, <3>1, OneRefresh DEF LocalsOK, RefreshLabel, Pending, TypeOK
    <3>6. LocalsOK(r)'
      <4>1. /\ job'[r].new = job[r].new
            /\ job'[r].known = job[r].known \cup {lastRow + 1}
            /\ \A c \in Row : job'[r].active[c] = IF c = lastRow + 1 THEN taken ELSE job[r].active[c]
            /\ \A x \in Record : job'[r].pending[x] = IF x \in taken THEN lastRow + 1 ELSE job[r].pending[x]
        BY <1>1, <3>1, <3>2, JobTypes DEF Joined, TypeOK, Job
      <4>2. LocalsOK(r) /\ job[r].known \subseteq Row /\ \A x \in Record : job[r].pending[x] \in Nat
        BY <1>1, JobTypes DEF StoreOK, TypeOK
      <4>3. Pending(job[r])' \subseteq job[r].new
        BY <3>1, <4>1, <4>2 DEF LocalsOK, Pending
      <4>4. \A x \in Pending(job[r])' :
               job'[r].pending[x] <= lastRow + 1 /\ x \in clusters'[job'[r].pending[x]]
        <5> SUFFICES ASSUME NEW x \in Record, job'[r].pending[x] # 0
                     PROVE  job'[r].pending[x] <= lastRow + 1 /\ x \in clusters'[job'[r].pending[x]]
          BY DEF Pending
        <5>1. CASE x \in taken
          BY <3>2, <3>4, <4>1, <5>1
        <5>2. CASE x \notin taken
          <6>1. job'[r].pending[x] = job[r].pending[x] /\ x \in Pending(job[r])
            BY <4>1, <5>2 DEF Pending
          <6>2. job[r].pending[x] <= lastRow /\ x \in clusters[job[r].pending[x]]
            BY <3>1, <4>2, <6>1 DEF LocalsOK
          <6>3. job[r].pending[x] \in Row
            BY <1>1, <6>1, JobTypes DEF TypeOK, Row, Pending
          <6> QED
            BY <3>2, <3>3, <6>1, <6>2, <6>3 DEF Row
        <5> QED
          BY <5>1, <5>2
      <4>5. \A c \in job'[r].known : c <= lastRow' /\ job'[r].active[c] = clusters'[c]
        BY <3>1, <3>2, <3>3, <3>4, <4>1, <4>2 DEF LocalsOK, Row
      <4> QED
        BY <3>1, <4>1, <4>2, <4>3, <4>4, <4>5 DEF LocalsOK
    <3>7. AssignedIsStored'
      <4> SUFFICES ASSUME NEW x \in Record, assigned[x] # 0
                   PROVE  assigned[x] <= lastRow + 1 /\ x \in clusters'[assigned[x]]
        BY <3>1 DEF AssignedIsStored
      <4>1. assigned[x] <= lastRow /\ x \in clusters[assigned[x]]
        BY <1>1 DEF StoreOK, AssignedIsStored
      <4>2. assigned[x] \in Row
        BY <1>1 DEF TypeOK, Row
      <4> QED
        BY <3>2, <3>3, <4>1, <4>2 DEF Row
    <3>8. \A c \in live' : c <= lastRow'
      BY <1>1, <3>1, <3>2 DEF StoreOK, TypeOK, Row
    <3> QED
      BY <3>5, <3>6, <3>7, <3>8 DEF StoreOK
  <2>11. ASSUME NEW r \in Req, NEW taken \in SUBSET job[r].new, NEW c \in Row, MergeGroup(r, c, taken)
      PROVE  StoreOK'
    BY <1>1, <2>11, OneRefresh, JobTypes
       DEF AssignedIsStored, Goto, Joined, LocalsOK, MergeGroup, MergedRecords, Pending,
           RefreshLabel, StoreOK, TypeOK, caches, gate, store
  <2>12. ASSUME NEW r \in Req, GroupsDone(r) PROVE StoreOK'
    BY <1>1, <2>12, OneRefresh, JobTypes
       DEF AssignedIsStored, Goto, GroupsDone, LocalsOK, NoJob, Pending, RefreshLabel,
           StoreOK, Tagging, TypeOK, caches, gate, store
  <2>13. ASSUME NEW r \in Req, StoreAssignments(r) PROVE StoreOK'
    BY <1>1, <2>13, OneRefresh, JobTypes
       DEF AssignedIsStored, Goto, LocalsOK, Overwrite, Pending, RefreshLabel,
           StoreAssignments, StoreOK, TypeOK, caches, gate, store
  <2>14. ASSUME NEW r \in Req, StoreRegistry(r) PROVE StoreOK'
    BY <1>1, <2>14, OneRefresh, JobTypes
       DEF AssignedIsStored, Goto, LocalsOK, NoJob, Overwrite, Pending, RefreshLabel, StoreOK,
           StoreRegistry, Tagging, TypeOK, caches, gate, store
  <2>15. ASSUME NEW r \in Req, StoreFails(r) PROVE StoreOK'
    BY <1>1, <2>15, OneRefresh, JobTypes
       DEF AssignedIsStored, Goto, LocalsOK, NoJob, Pending, RefreshLabel, StoreFails,
           StoreOK, Tagging, TypeOK, caches, gate, store
  <2>16. ASSUME NEW r \in Req, TagFails(r) PROVE StoreOK'
    BY <1>1, <2>16, OneRefresh, JobTypes
       DEF AssignedIsStored, Goto, LocalsOK, Pending, RefreshLabel, StoreOK, TagFails, TypeOK,
           caches, gate, store
  <2>17. ASSUME NEW r \in Req, Publish(r) PROVE StoreOK'
    BY <1>1, <2>17, OneRefresh, JobTypes
       DEF AssignedIsStored, Goto, LocalsOK, Pending, Publish, RefreshLabel, StoreOK, TypeOK,
           caches, gate, store
  <2>18. ASSUME NEW r \in Req, Save(r) PROVE StoreOK'
    BY <1>1, <2>18, OneRefresh, JobTypes
       DEF AssignedIsStored, Goto, LocalsOK, Pending, RefreshLabel, Save, StoreOK, TypeOK,
           caches, gate, store
  <2>19. ASSUME NEW r \in Req, GetStored(r) PROVE StoreOK'
    BY <1>1, <2>19, OneRefresh, JobTypes
       DEF AssignedIsStored, Fallback, GetStored, Goto, LocalsOK, Pending, RefreshLabel,
           StoreOK, TypeOK, caches, gate, store
  <2>20. ASSUME NEW r \in Req, GetFails(r) PROVE StoreOK'
    BY <1>1, <2>20, OneRefresh, JobTypes
       DEF AssignedIsStored, GetFails, Goto, LocalsOK, Pending, RefreshLabel, StoreOK, TypeOK,
           caches, gate, store
  <2>21. ASSUME NEW r \in Req, GetServe(r) PROVE StoreOK'
    BY <1>1, <2>21, OneRefresh, JobTypes
       DEF AssignedIsStored, Finish, GetServe, Goto, LocalsOK, NoJob, Pending, RefreshLabel,
           StoreOK, TypeOK, caches, gate, store
  <2>22. CASE Archive
    BY <1>1, <2>22, OneRefresh, JobTypes
       DEF Archive, AssignedIsStored, Goto, LocalsOK, Pending, RefreshLabel, StoreOK, TypeOK,
           caches, gate, store
  <2>23. CASE Restart
    BY <1>1, <2>23, OneRefresh, JobTypes
       DEF AssignedIsStored, Goto, LocalsOK, NoJob, Pending, RefreshLabel, Restart, StoreOK,
           TypeOK, caches, gate, store
  <2>24. CASE UNCHANGED vars
    BY <1>1, <2>24
       DEF AssignedIsStored, Goto, LocalsOK, Pending, RefreshLabel, StoreOK, TypeOK, caches,
           gate, store, vars
  <2> QED
    BY <1>1, <2>1, <2>2, <2>3, <2>4, <2>5, <2>6, <2>7, <2>8, <2>9, <2>10, <2>11, <2>12, <2>13,
       <2>14, <2>15, <2>16, <2>17, <2>18, <2>19, <2>20, <2>21, <2>22, <2>23, <2>24
       DEF Next, Step, GateStep, StoreStep, GroupStep, PublishStep, GetStep

\* A headline that is never clustered again is in the cluster it was assigned
\* to, whatever fails on the way (refresh_clusters, update_news_cluster).
THEOREM AssignedIsStoredAlways == Spec => []AssignedIsStored
<1>1. Init => StoreOK
  <2> SUFFICES ASSUME Init PROVE StoreOK
    OBVIOUS
  <2>1. \A r \in Req : LocalsOK(r)
    BY DEF Init, LocalsOK
  <2> QED
    BY <2>1 DEF Init, StoreOK, AssignedIsStored, Unassigned
<1>2. TypeOK /\ LockIsHeld /\ StoreOK /\ [Next]_vars => StoreOK'
  BY ClusterStep
<1>3. StoreOK => AssignedIsStored
  BY DEF StoreOK
<1> QED
  BY <1>1, <1>2, <1>3, NewsTypeCorrect, LockIsHeldAlways, PTL DEF Spec

---------------------------------------------------------------------------
(* The registry. *)

\* What is about to be registered is noted as not registered.
RegistryOK ==
    /\ AssignedIsRegistered
    /\ \A r \in Req : pc[r] = "register" => Pending(job[r]) \subseteq unregistered

LEMMA RegistryStep == TypeOK /\ LockIsHeld /\ StoreOK /\ RegistryOK /\ [Next]_vars => RegistryOK'
<1> SUFFICES ASSUME TypeOK, LockIsHeld, StoreOK, RegistryOK, [Next]_vars PROVE RegistryOK'
  OBVIOUS
<1>1. TypeOK /\ LockIsHeld /\ StoreOK /\ RegistryOK
  OBVIOUS
<1>2. QED
  <2>1. ASSUME NEW r \in Req, StartRefresh(r) PROVE RegistryOK'
    BY <1>1, <2>1
       DEF AssignedIsRegistered, Goto, Pending, RefreshLabel, RegistryOK, StartRefresh,
           TypeOK, caches, gate, store
  <2>2. ASSUME NEW r \in Req, StartGet(r) PROVE RegistryOK'
    BY <1>1, <2>2
       DEF AssignedIsRegistered, Goto, NoJob, Pending, RefreshLabel, RegistryOK, StartGet,
           TypeOK, caches, gate, store
  <2>3. ASSUME NEW r \in Req, Acquire(r) PROVE RegistryOK'
    BY <1>1, <2>3
       DEF Acquire, AssignedIsRegistered, Fetching, Finish, FreshJob, Goto, NoJob, Pending,
           RefreshLabel, RegistryOK, TypeOK, caches, gate, store
  <2>4. ASSUME NEW r \in Req, TryLock(r) PROVE RegistryOK'
    BY <1>1, <2>4
       DEF AssignedIsRegistered, Fetching, Finish, FreshJob, Goto, NoJob, Pending,
           RefreshLabel, RegistryOK, TryLock, TypeOK, caches, gate, store
  <2>5. ASSUME NEW r \in Req, FinishRefresh(r) PROVE RegistryOK'
    BY <1>1, <2>5
       DEF AssignedIsRegistered, FinishRefresh, Goto, Pending, RefreshLabel, RegistryOK,
           TypeOK, caches, gate, store
  <2>6. ASSUME NEW r \in Req, Release(r) PROVE RegistryOK'
    BY <1>1, <2>6
       DEF AssignedIsRegistered, Finish, Goto, NoJob, Pending, RefreshLabel, RegistryOK,
           Release, TypeOK, caches, gate, store
  <2>7. ASSUME NEW r \in Req, FetchFeeds(r) PROVE RegistryOK'
    BY <1>1, <2>7
       DEF AssignedIsRegistered, FetchFeeds, Goto, Pending, RefreshLabel, RegistryOK, TypeOK,
           caches, gate, store
  <2>8. ASSUME NEW r \in Req, Partition(r) PROVE RegistryOK'
    BY <1>1, <2>8
       DEF AssignedIsRegistered, Goto, Partition, Pending, RefreshLabel, RegistryOK, TypeOK,
           caches, gate, store
  <2>9. ASSUME NEW r \in Req, LoadActive(r) PROVE RegistryOK'
    BY <1>1, <2>9, ZenonT(40)
       DEF AssignedIsRegistered, Goto, LoadActive, NoJob, Pending, RefreshLabel, RegistryOK,
           Tagging, TypeOK, caches, gate, store
  <2>10. ASSUME NEW r \in Req, NEW taken \in SUBSET job[r].new, InsertGroup(r, taken)
      PROVE  RegistryOK'
    BY <1>1, <2>10
       DEF AssignedIsRegistered, Goto, InsertGroup, Joined, Pending, RefreshLabel, RegistryOK,
           TypeOK, caches, gate, store
  <2>11. ASSUME NEW r \in Req, NEW taken \in SUBSET job[r].new, NEW c \in Row, MergeGroup(r, c, taken)
      PROVE  RegistryOK'
    BY <1>1, <2>11
       DEF AssignedIsRegistered, Goto, Joined, MergeGroup, MergedRecords, Pending,
           RefreshLabel, RegistryOK, TypeOK, caches, gate, store
  <2>12. ASSUME NEW r \in Req, GroupsDone(r) PROVE RegistryOK'
    BY <1>1, <2>12
       DEF AssignedIsRegistered, Goto, GroupsDone, NoJob, Pending, RefreshLabel, RegistryOK,
           Tagging, TypeOK, caches, gate, store
  <2>13. ASSUME NEW r \in Req, StoreAssignments(r) PROVE RegistryOK'
    <3>1. pc[r] = "assign" /\ pc'[r] = "register" /\ job' = job /\ registry' = registry
            /\ \A q \in Req : q # r => pc'[q] = pc[q]
      BY <1>1, <2>13 DEF StoreAssignments, Goto, TypeOK
    <3>2. unregistered' = unregistered \cup Pending(job[r])
      BY <2>13 DEF StoreAssignments
    <3>3. \A x \in Record : assigned'[x] = IF x \in Pending(job[r]) THEN job[r].pending[x] ELSE assigned[x]
      BY <2>13 DEF StoreAssignments, Overwrite, Pending
    <3>4. \A x \in Pending(job[r]) : assigned[x] = 0
      BY <1>1, <3>1 DEF StoreOK, LocalsOK
    <3>5. AssignedIsRegistered'
      BY <1>1, <3>1, <3>2, <3>3, <3>4 DEF RegistryOK, AssignedIsRegistered
    <3>6. \A q \in Req : pc'[q] = "register" => Pending(job'[q]) \subseteq unregistered'
      BY <1>1, <3>1, <3>2 DEF RegistryOK
    <3> QED
      BY <3>5, <3>6 DEF RegistryOK, Pending
  <2>14. ASSUME NEW r \in Req, StoreRegistry(r) PROVE RegistryOK'
    <3>1. pc[r] = "register" /\ pc'[r] = "tag" /\ assigned' = assigned
            /\ \A q \in Req : q # r => pc'[q] = pc[q] /\ job'[q] = job[q] /\ pc[q] # "register"
      BY <1>1, <2>14, OneRefresh DEF StoreRegistry, Tagging, Goto, TypeOK, store, RefreshLabel
    <3>2. \A x \in Pending(job[r]) : assigned[x] = job[r].pending[x]
      BY <1>1, <3>1 DEF StoreOK, LocalsOK
    <3>3. AssignedIsRegistered'
      <4>1. CASE UNCHANGED <<registry, unregistered>>
        BY <1>1, <3>1, <4>1 DEF RegistryOK, AssignedIsRegistered
      <4>2. CASE registry' = Overwrite(registry, job[r].pending)
                 /\ unregistered' = unregistered \ Pending(job[r])
        <5>1. \A x \in Record : registry'[x] = IF x \in Pending(job[r]) THEN job[r].pending[x] ELSE registry[x]
          BY <4>2 DEF Overwrite, Pending
        <5> QED
          BY <1>1, <3>1, <3>2, <4>2, <5>1 DEF RegistryOK, AssignedIsRegistered
      <4> QED
        BY <2>14, <4>1, <4>2 DEF StoreRegistry
    <3> QED
      BY <3>1, <3>3 DEF RegistryOK
  <2>15. ASSUME NEW r \in Req, StoreFails(r) PROVE RegistryOK'
    BY <1>1, <2>15
       DEF AssignedIsRegistered, Goto, NoJob, Pending, RefreshLabel, RegistryOK, StoreFails,
           Tagging, TypeOK, caches, gate, store
  <2>16. ASSUME NEW r \in Req, TagFails(r) PROVE RegistryOK'
    BY <1>1, <2>16
       DEF AssignedIsRegistered, Goto, Pending, RefreshLabel, RegistryOK, TagFails, TypeOK,
           caches, gate, store
  <2>17. ASSUME NEW r \in Req, Publish(r) PROVE RegistryOK'
    BY <1>1, <2>17
       DEF AssignedIsRegistered, Goto, Pending, Publish, RefreshLabel, RegistryOK, TypeOK,
           caches, gate, store
  <2>18. ASSUME NEW r \in Req, Save(r) PROVE RegistryOK'
    BY <1>1, <2>18
       DEF AssignedIsRegistered, Goto, Pending, RefreshLabel, RegistryOK, Save, TypeOK,
           caches, gate, store
  <2>19. ASSUME NEW r \in Req, GetStored(r) PROVE RegistryOK'
    BY <1>1, <2>19
       DEF AssignedIsRegistered, Fallback, GetStored, Goto, Pending, RefreshLabel, RegistryOK,
           TypeOK, caches, gate, store
  <2>20. ASSUME NEW r \in Req, GetFails(r) PROVE RegistryOK'
    BY <1>1, <2>20
       DEF AssignedIsRegistered, GetFails, Goto, Pending, RefreshLabel, RegistryOK, TypeOK,
           caches, gate, store
  <2>21. ASSUME NEW r \in Req, GetServe(r) PROVE RegistryOK'
    BY <1>1, <2>21
       DEF AssignedIsRegistered, Finish, GetServe, Goto, NoJob, Pending, RefreshLabel,
           RegistryOK, TypeOK, caches, gate, store
  <2>22. CASE Archive
    BY <1>1, <2>22
       DEF Archive, AssignedIsRegistered, Goto, Pending, RefreshLabel, RegistryOK, TypeOK,
           caches, gate, store
  <2>23. CASE Restart
    BY <1>1, <2>23
       DEF AssignedIsRegistered, Goto, NoJob, Pending, RefreshLabel, RegistryOK, Restart,
           TypeOK, caches, gate, store
  <2>24. CASE UNCHANGED vars
    BY <1>1, <2>24
       DEF AssignedIsRegistered, Goto, Pending, RefreshLabel, RegistryOK, TypeOK, caches,
           gate, store, vars
  <2> QED
    BY <1>1, <2>1, <2>2, <2>3, <2>4, <2>5, <2>6, <2>7, <2>8, <2>9, <2>10, <2>11, <2>12, <2>13,
       <2>14, <2>15, <2>16, <2>17, <2>18, <2>19, <2>20, <2>21, <2>22, <2>23, <2>24
       DEF Next, Step, GateStep, StoreStep, GroupStep, PublishStep, GetStep

\* The registry names the cluster a headline is assigned to, and only a failed
\* or cut-off upsert leaves one out (refresh_clusters, upsert_headline_registry_seen).
THEOREM AssignedIsRegisteredAlways == Spec => []AssignedIsRegistered
<1>1. Init => StoreOK /\ RegistryOK
  <2> SUFFICES ASSUME Init PROVE StoreOK /\ RegistryOK
    OBVIOUS
  <2>1. \A r \in Req : LocalsOK(r) /\ pc[r] # "register"
    BY DEF Init, LocalsOK
  <2> QED
    BY <2>1 DEF Init, StoreOK, AssignedIsStored, RegistryOK, AssignedIsRegistered, Unassigned
<1>2. TypeOK /\ LockIsHeld /\ StoreOK /\ [Next]_vars => StoreOK'
  BY ClusterStep
<1>3. TypeOK /\ LockIsHeld /\ StoreOK /\ RegistryOK /\ [Next]_vars => RegistryOK'
  BY RegistryStep
<1>4. RegistryOK => AssignedIsRegistered
  BY DEF RegistryOK
<1> QED
  BY <1>1, <1>2, <1>3, <1>4, NewsTypeCorrect, LockIsHeldAlways, PTL DEF Spec

---------------------------------------------------------------------------
(* The payloads. *)

GetLabel == {"getStored", "getServe"}

\* Payloads are numbered in the order the refreshes hold the lock; once the
\* newest is persisted no reader holds or has shown a newer one.
PayloadsOK ==
    /\ hot <= started /\ stored <= started /\ shown <= started
    /\ \A r \in Req :
           /\ pc[r] \in RefreshLabel => job[r].n = started
           /\ pc[r] = "save" => hot = started
           /\ pc[r] \in GetLabel => job[r].n <= started /\ job[r].floor <= started
           /\ ~unsaved /\ pc[r] \in GetLabel => job[r].n <= stored /\ job[r].floor <= stored
    /\ ~unsaved => shown <= stored /\ (hot # 0 => hot = stored)

LEMMA PayloadStep == TypeOK /\ LockIsHeld /\ PayloadsOK /\ [Next]_vars => PayloadsOK'
<1> SUFFICES ASSUME TypeOK, LockIsHeld, PayloadsOK, [Next]_vars PROVE PayloadsOK'
  OBVIOUS
<1>1. TypeOK /\ LockIsHeld /\ PayloadsOK
  OBVIOUS
<1>2. QED
  <2>1. ASSUME NEW r \in Req, StartRefresh(r) PROVE PayloadsOK'
    BY <1>1, <2>1, OneRefresh, JobTypes
       DEF GetLabel, Goto, Payload, PayloadsOK, RefreshLabel, StartRefresh, TypeOK, caches,
           gate, store
  <2>2. ASSUME NEW r \in Req, StartGet(r) PROVE PayloadsOK'
    BY <1>1, <2>2, OneRefresh, JobTypes
       DEF GetLabel, Goto, NoJob, Payload, PayloadsOK, RefreshLabel, StartGet, TypeOK, caches,
           gate, store
  <2>3. ASSUME NEW r \in Req, Acquire(r) PROVE PayloadsOK'
    <3>1. /\ UNCHANGED <<hot, stored, unsaved, shown>>
          /\ \A q \in Req : q # r => pc'[q] = pc[q] /\ job'[q] = job[q]
      BY <1>1, <2>3 DEF Acquire, Fetching, Finish, Goto, TypeOK, caches
    <3>2. CASE lock' = r
      <4>1. \A q \in Req : pc[q] \notin RefreshLabel
        BY <1>1, <2>3, <3>2, NoReqIsNoReq DEF Acquire, Finish, Goto, LockIsHeld, RefreshLabel
      <4>2. started' = started + 1 /\ pc'[r] = "fetch" /\ job'[r].n = started + 1
        <5>1. lock # r /\ lock' # lock
          BY <1>1, <2>3, <3>2, <4>1, NoReqIsNoReq DEF Acquire, LockIsHeld, TypeOK, RefreshLabel
        <5>2. Fetching(r, TRUE)
          BY <2>3, <5>1 DEF Acquire
        <5>3. FreshJob(TRUE).n = started + 1
          BY DEF FreshJob, NoJob
        <5> QED
          BY <1>1, <5>2, <5>3 DEF Fetching, Goto, TypeOK
      <4>3. \A q \in Req : job[q].n \in Nat /\ job[q].floor \in Nat
        BY <1>1, JobTypes DEF TypeOK, Payload
      <4> QED
        BY <1>1, <3>1, <4>1, <4>2, <4>3 DEF PayloadsOK, RefreshLabel, GetLabel, TypeOK, Payload
    <3>3. CASE lock' # r
      <4>1. started' = started /\ pc'[r] \in {"idle", "wait"}
        BY <1>1, <2>3, <3>3 DEF Acquire, Fetching, Finish, Goto, TypeOK
      <4> QED
        BY <1>1, <3>1, <4>1 DEF PayloadsOK, RefreshLabel, GetLabel
    <3> QED
      BY <3>2, <3>3
  <2>4. ASSUME NEW r \in Req, TryLock(r) PROVE PayloadsOK'
    <3>1. /\ UNCHANGED <<hot, stored, unsaved, shown>>
          /\ \A q \in Req : q # r => pc'[q] = pc[q] /\ job'[q] = job[q]
      BY <1>1, <2>4 DEF TryLock, Fetching, Finish, Goto, TypeOK, caches
    <3>2. CASE lock' = r
      <4>1. \A q \in Req : pc[q] \notin RefreshLabel
        BY <1>1, <2>4, <3>2, NoReqIsNoReq DEF TryLock, Finish, Goto, LockIsHeld, RefreshLabel
      <4>2. started' = started + 1 /\ pc'[r] = "fetch" /\ job'[r].n = started + 1
        <5>1. lock # r /\ lock' # lock
          BY <1>1, <2>4, <3>2, <4>1, NoReqIsNoReq DEF TryLock, LockIsHeld, TypeOK, RefreshLabel
        <5>2. Fetching(r, FALSE)
          BY <2>4, <5>1 DEF TryLock
        <5>3. FreshJob(FALSE).n = started + 1
          BY DEF FreshJob, NoJob
        <5> QED
          BY <1>1, <5>2, <5>3 DEF Fetching, Goto, TypeOK
      <4>3. \A q \in Req : job[q].n \in Nat /\ job[q].floor \in Nat
        BY <1>1, JobTypes DEF TypeOK, Payload
      <4> QED
        BY <1>1, <3>1, <4>1, <4>2, <4>3 DEF PayloadsOK, RefreshLabel, GetLabel, TypeOK, Payload
    <3>3. CASE lock' # r
      <4>1. started' = started /\ pc'[r] \in {"idle", "wait"}
        BY <1>1, <2>4, <3>3 DEF TryLock, Fetching, Finish, Goto, TypeOK
      <4> QED
        BY <1>1, <3>1, <4>1 DEF PayloadsOK, RefreshLabel, GetLabel
    <3> QED
      BY <3>2, <3>3
  <2>5. ASSUME NEW r \in Req, FinishRefresh(r) PROVE PayloadsOK'
    BY <1>1, <2>5, OneRefresh, JobTypes
       DEF FinishRefresh, GetLabel, Goto, Payload, PayloadsOK, RefreshLabel, TypeOK, caches,
           gate, store
  <2>6. ASSUME NEW r \in Req, Release(r) PROVE PayloadsOK'
    BY <1>1, <2>6, OneRefresh, JobTypes
       DEF Finish, GetLabel, Goto, NoJob, Payload, PayloadsOK, RefreshLabel, Release, TypeOK,
           caches, gate, store
  <2>7. ASSUME NEW r \in Req, FetchFeeds(r) PROVE PayloadsOK'
    <3>1. job'[r].n = job[r].n
      BY <1>1, <2>7, JobTypes DEF FetchFeeds, TypeOK, Job
    <3>2. /\ UNCHANGED <<hot, stored, unsaved, shown, started>>
          /\ pc[r] \in RefreshLabel /\ pc'[r] \in RefreshLabel \ {"save"}
          /\ \A q \in Req : q # r => pc'[q] = pc[q] /\ job'[q] = job[q]
      BY <1>1, <2>7 DEF FetchFeeds, Tagging, Goto, TypeOK, RefreshLabel, caches
    <3> QED
      BY <1>1, <3>1, <3>2 DEF PayloadsOK, RefreshLabel, GetLabel
  <2>8. ASSUME NEW r \in Req, Partition(r) PROVE PayloadsOK'
    BY <1>1, <2>8, OneRefresh, JobTypes
       DEF GetLabel, Goto, Partition, Payload, PayloadsOK, RefreshLabel, TypeOK, caches, gate,
           store
  <2>9. ASSUME NEW r \in Req, LoadActive(r) PROVE PayloadsOK'
    <3>1. job'[r].n = job[r].n
      <4>1. CASE Tagging(r)
        BY <1>1, <4>1, InitialTypes DEF Tagging, TypeOK, Job
      <4>2. CASE ~Tagging(r)
        BY <1>1, <2>9, <4>2, ZenonT(40) DEF LoadActive, TypeOK, Job
      <4> QED
        BY <4>1, <4>2
    <3>2. /\ UNCHANGED <<hot, stored, unsaved, shown, started>>
          /\ pc[r] \in RefreshLabel /\ pc'[r] \in RefreshLabel \ {"save"}
          /\ \A q \in Req : q # r => pc'[q] = pc[q] /\ job'[q] = job[q]
      BY <1>1, <2>9 DEF LoadActive, Tagging, Goto, TypeOK, RefreshLabel, caches
    <3> QED
      BY <1>1, <3>1, <3>2 DEF PayloadsOK, RefreshLabel, GetLabel
  <2>10. ASSUME NEW r \in Req, NEW taken \in SUBSET job[r].new, InsertGroup(r, taken)
      PROVE  PayloadsOK'
    BY <1>1, <2>10, OneRefresh, JobTypes
       DEF GetLabel, Goto, InsertGroup, Joined, Payload, PayloadsOK, RefreshLabel, TypeOK,
           caches, gate, store
  <2>11. ASSUME NEW r \in Req, NEW taken \in SUBSET job[r].new, NEW c \in Row, MergeGroup(r, c, taken)
      PROVE  PayloadsOK'
    BY <1>1, <2>11, OneRefresh, JobTypes
       DEF GetLabel, Goto, Joined, MergeGroup, MergedRecords, Payload, PayloadsOK,
           RefreshLabel, TypeOK, caches, gate, store
  <2>12. ASSUME NEW r \in Req, GroupsDone(r) PROVE PayloadsOK'
    <3>1. job'[r].n = job[r].n
      <4>1. CASE Tagging(r)
        BY <1>1, <4>1, InitialTypes DEF Tagging, TypeOK, Job
      <4>2. CASE UNCHANGED job
        BY <4>2
      <4> QED
        BY <2>12, <4>1, <4>2 DEF GroupsDone
    <3>2. /\ UNCHANGED <<hot, stored, unsaved, shown, started>>
          /\ pc[r] \in RefreshLabel /\ pc'[r] \in RefreshLabel \ {"save"}
          /\ \A q \in Req : q # r => pc'[q] = pc[q] /\ job'[q] = job[q]
      BY <1>1, <2>12 DEF GroupsDone, Tagging, Goto, TypeOK, RefreshLabel, caches
    <3> QED
      BY <1>1, <3>1, <3>2 DEF PayloadsOK, RefreshLabel, GetLabel
  <2>13. ASSUME NEW r \in Req, StoreAssignments(r) PROVE PayloadsOK'
    BY <1>1, <2>13, OneRefresh, JobTypes
       DEF GetLabel, Goto, Overwrite, Payload, PayloadsOK, Pending, RefreshLabel,
           StoreAssignments, TypeOK, caches, gate, store
  <2>14. ASSUME NEW r \in Req, StoreRegistry(r) PROVE PayloadsOK'
    BY <1>1, <2>14, OneRefresh, JobTypes
       DEF GetLabel, Goto, NoJob, Overwrite, Payload, PayloadsOK, Pending, RefreshLabel,
           StoreRegistry, Tagging, TypeOK, caches, gate, store
  <2>15. ASSUME NEW r \in Req, StoreFails(r) PROVE PayloadsOK'
    BY <1>1, <2>15, OneRefresh, JobTypes
       DEF GetLabel, Goto, NoJob, Payload, PayloadsOK, RefreshLabel, StoreFails, Tagging,
           TypeOK, caches, gate, store
  <2>16. ASSUME NEW r \in Req, TagFails(r) PROVE PayloadsOK'
    BY <1>1, <2>16, OneRefresh, JobTypes
       DEF GetLabel, Goto, Payload, PayloadsOK, RefreshLabel, TagFails, TypeOK, caches, gate,
           store
  <2>17. ASSUME NEW r \in Req, Publish(r) PROVE PayloadsOK'
    BY <1>1, <2>17, OneRefresh, JobTypes
       DEF GetLabel, Goto, Payload, PayloadsOK, Publish, RefreshLabel, TypeOK, caches, gate,
           store
  <2>18. ASSUME NEW r \in Req, Save(r) PROVE PayloadsOK'
    BY <1>1, <2>18, OneRefresh, JobTypes
       DEF GetLabel, Goto, Payload, PayloadsOK, RefreshLabel, Save, TypeOK, caches, gate,
           store
  <2>19. ASSUME NEW r \in Req, GetStored(r) PROVE PayloadsOK'
    BY <1>1, <2>19, OneRefresh, JobTypes
       DEF Fallback, GetLabel, GetStored, Goto, Payload, PayloadsOK, RefreshLabel, TypeOK,
           caches, gate, store
  <2>20. ASSUME NEW r \in Req, GetFails(r) PROVE PayloadsOK'
    BY <1>1, <2>20, OneRefresh, JobTypes
       DEF GetFails, GetLabel, Goto, Payload, PayloadsOK, RefreshLabel, TypeOK, caches, gate,
           store
  <2>21. ASSUME NEW r \in Req, GetServe(r) PROVE PayloadsOK'
    BY <1>1, <2>21, OneRefresh, JobTypes
       DEF Finish, GetLabel, GetServe, Goto, NoJob, Payload, PayloadsOK, RefreshLabel, TypeOK,
           caches, gate, store
  <2>22. CASE Archive
    BY <1>1, <2>22, OneRefresh, JobTypes
       DEF Archive, GetLabel, Goto, Payload, PayloadsOK, RefreshLabel, TypeOK, caches, gate,
           store
  <2>23. CASE Restart
    BY <1>1, <2>23, OneRefresh, JobTypes
       DEF GetLabel, Goto, NoJob, Payload, PayloadsOK, RefreshLabel, Restart, TypeOK, caches,
           gate, store
  <2>24. CASE UNCHANGED vars
    BY <1>1, <2>24
       DEF GetLabel, Goto, Payload, PayloadsOK, RefreshLabel, TypeOK, caches, gate, store,
           vars
  <2> QED
    BY <1>1, <2>1, <2>2, <2>3, <2>4, <2>5, <2>6, <2>7, <2>8, <2>9, <2>10, <2>11, <2>12, <2>13,
       <2>14, <2>15, <2>16, <2>17, <2>18, <2>19, <2>20, <2>21, <2>22, <2>23, <2>24
       DEF Next, Step, GateStep, StoreStep, GroupStep, PublishStep, GetStep

\* Within a process the news goes back only while the newest payload is not
\* persisted or when the row cannot be read (_fetch_fresh_news, _read_news_cache_state).
THEOREM NewsGoesForwardAlways == Spec => NewsGoesForward
<1>1. Init => PayloadsOK
  <2> SUFFICES ASSUME Init PROVE PayloadsOK
    OBVIOUS
  <2>1. \A r \in Req : pc[r] = "idle"
    BY DEF Init
  <2> QED
    BY <2>1 DEF Init, PayloadsOK, RefreshLabel, GetLabel
<1>2. TypeOK /\ LockIsHeld /\ PayloadsOK /\ [Next]_vars => PayloadsOK'
  BY PayloadStep
<1>3. TypeOK /\ PayloadsOK /\ [Next]_vars =>
        [\A r \in Req : (StartGet(r) \/ GetStored(r)) /\ pc'[r] = "getServe" =>
             job'[r].n >= job'[r].floor \/ unsaved]_vars
  <2> SUFFICES ASSUME TypeOK, PayloadsOK, NEW r \in Req, StartGet(r) \/ GetStored(r),
                      pc'[r] = "getServe", ~unsaved
               PROVE  job'[r].n >= job'[r].floor
    OBVIOUS
  <2>1. job[r] \in Job /\ job \in [Req -> Job] /\ hot \in Nat /\ stored \in Nat /\ shown \in Nat
    BY DEF TypeOK, Payload
  <2>2. CASE StartGet(r)
    <3>1. job'[r].n = hot /\ job'[r].floor = shown /\ hot # 0
      BY <2>1, <2>2, InitialTypes DEF StartGet, Goto, TypeOK, Job
    <3> QED
      BY <2>1, <3>1 DEF PayloadsOK
  <2>3. CASE GetStored(r)
    <3>1. job'[r].n = Fallback(job[r]) /\ job'[r].floor = job[r].floor /\ pc[r] = "getStored"
      BY <2>1, <2>3 DEF GetStored, Job
    <3>2. job[r].floor \in Nat /\ job[r].n \in Nat
      BY <2>1, JobTypes DEF Payload
    <3> QED
      BY <2>1, <3>1, <3>2 DEF PayloadsOK, GetLabel, Fallback
  <2> QED
    BY <2>2, <2>3
<1> QED
  BY <1>1, <1>2, <1>3, NewsTypeCorrect, LockIsHeldAlways, PTL DEF Spec, NewsGoesForward

---------------------------------------------------------------------------
(* The placement of headlines. *)

\* Rows that have not been inserted yet hold nothing.
FreshRows == \A c \in Row : c > lastRow => clusters[c] = {}

\* A step leaves clusters, assignments and registry alone, or is one of these.
LEMMA StoreWriters ==
    ASSUME TypeOK, [Next]_vars
    PROVE  \/ /\ UNCHANGED <<clusters, lastRow, assigned, registry>>
              /\ \A q \in Req : /\ pc'[q] = "register" <=> pc[q] = "register"
                                /\ pc[q] = "register" => job'[q] = job[q]
           \/ \E r \in Req, taken \in SUBSET Record : InsertGroup(r, taken)
           \/ \E r \in Req, taken \in SUBSET Record, c \in Row : MergeGroup(r, c, taken)
           \/ \E r \in Req : StoreAssignments(r)
           \/ \E r \in Req : StoreRegistry(r)
           \/ Restart
<1> DEFINE Quiet == /\ UNCHANGED <<clusters, lastRow, assigned, registry>>
                    /\ \A q \in Req : /\ pc'[q] = "register" <=> pc[q] = "register"
                                      /\ pc[q] = "register" => job'[q] = job[q]
<1>1. ASSUME NEW r \in Req, StartRefresh(r) \/ StartGet(r) \/ Acquire(r) PROVE Quiet
  BY <1>1 DEF StartRefresh, StartGet, Acquire, Fetching, Finish, Goto, TypeOK, store
<1>2. ASSUME NEW r \in Req, GateStep(r) PROVE Quiet
  BY <1>2 DEF GateStep, TryLock, FinishRefresh, Release, Fetching, Finish, Goto, TypeOK, store
<1>3. ASSUME NEW r \in Req, FetchFeeds(r) \/ Partition(r) \/ LoadActive(r) PROVE Quiet
  <2>1. CASE FetchFeeds(r) \/ Partition(r)
    BY <2>1 DEF FetchFeeds, Partition, Goto, TypeOK, store
  <2>2. CASE LoadActive(r)
    <3>1. /\ UNCHANGED <<clusters, lastRow, assigned, registry>>
          /\ pc[r] = "active" /\ pc'[r] \in {"group", "tag"}
          /\ \A q \in Req : q # r => pc'[q] = pc[q] /\ job'[q] = job[q]
      BY <2>2 DEF LoadActive, Tagging, Goto, TypeOK, store
    <3> QED
      BY <3>1
  <2> QED
    BY <1>3, <2>1, <2>2
<1>4. ASSUME NEW r \in Req, GroupsDone(r) \/ StoreFails(r) PROVE Quiet
  BY <1>4 DEF GroupsDone, StoreFails, Tagging, Goto, TypeOK, store
<1>5. ASSUME NEW r \in Req, PublishStep(r) \/ GetStep(r) PROVE Quiet
  BY <1>5 DEF PublishStep, GetStep, TagFails, Publish, Save, GetStored, GetFails, GetServe,
              Finish, Goto, TypeOK, store
<1>6. CASE Archive \/ UNCHANGED vars
  BY <1>6 DEF Archive, vars, store
<1>7. ASSUME NEW r \in Req, GroupStep(r)
      PROVE  \/ \E taken \in SUBSET Record : InsertGroup(r, taken)
             \/ \E taken \in SUBSET Record, c \in Row : MergeGroup(r, c, taken)
             \/ Quiet
  <2>1. job[r].new \subseteq Record
    BY JobTypes DEF TypeOK
  <2> QED
    BY <1>4, <1>7, <2>1 DEF GroupStep
<1> HIDE DEF Quiet
<1>8. ASSUME NEW r \in Req, Step(r)
      PROVE  \/ Quiet
             \/ \E taken \in SUBSET Record : InsertGroup(r, taken)
             \/ \E taken \in SUBSET Record, c \in Row : MergeGroup(r, c, taken)
             \/ StoreAssignments(r) \/ StoreRegistry(r)
  BY <1>2, <1>3, <1>4, <1>5, <1>7, <1>8 DEF Step, StoreStep
<1> QED
  BY <1>1, <1>6, <1>8 DEF Next, Quiet

LEMMA FreshRowsStep == TypeOK /\ StoreOK /\ FreshRows /\ [Next]_vars => FreshRows'
<1> SUFFICES ASSUME TypeOK, StoreOK, FreshRows, [Next]_vars PROVE FreshRows'
  OBVIOUS
<1>1. CASE UNCHANGED <<clusters, lastRow>>
  BY <1>1 DEF FreshRows
<1>2. ASSUME NEW r \in Req, NEW taken \in SUBSET Record, InsertGroup(r, taken) PROVE FreshRows'
  BY <1>2, NewsBounds DEF FreshRows, InsertGroup, TypeOK, Row
<1>3. ASSUME NEW r \in Req, NEW taken \in SUBSET Record, NEW c \in Row, MergeGroup(r, c, taken)
      PROVE  FreshRows'
  <2>1. c <= lastRow
    BY <1>3 DEF MergeGroup, StoreOK, LocalsOK
  <2> QED
    BY <1>3, <2>1, NewsBounds DEF FreshRows, MergeGroup, TypeOK, Row
<1>4. ASSUME \/ \E r \in Req : StoreAssignments(r) \/ StoreRegistry(r)
             \/ Restart
      PROVE  UNCHANGED <<clusters, lastRow>>
  BY <1>4 DEF StoreAssignments, StoreRegistry, Restart, store
<1> QED
  BY <1>1, <1>2, <1>3, <1>4, StoreWriters

LEMMA SameRegistering ==
    ASSUME \A q \in Req : /\ pc'[q] = "register" <=> pc[q] = "register"
                          /\ pc[q] = "register" => job'[q] = job[q]
    PROVE  Registering' = Registering
<1>1. {q \in Req : pc'[q] = "register"} = {q \in Req : pc[q] = "register"}
  OBVIOUS
<1>2. \A q \in {p \in Req : pc[p] = "register"} : Pending(job'[q]) = Pending(job[q])
  OBVIOUS
<1> QED
  BY <1>1, <1>2 DEF Registering, Pending

\* The refresh that holds the lock is the only one with a batch to register.
LEMMA NoBatch ==
    ASSUME \A q \in Req : pc[q] # "register"
    PROVE  Registering = {}
  BY DEF Registering

LEMMA OneBatch ==
    ASSUME NEW r \in Req, pc[r] = "register", \A q \in Req : pc[q] = "register" => q = r
    PROVE  Registering = Pending(job[r])
<1>1. {q \in Req : pc[q] = "register"} = {r}
  OBVIOUS
<1> QED
  BY <1>1 DEF Registering

LEMMA InsertGathers ==
    ASSUME TypeOK, FreshRows, NEW r \in Req, NEW taken \in SUBSET Record, InsertGroup(r, taken)
    PROVE  \E c \in Row : Placement!Gather(c, taken)
<1> DEFINE c == lastRow + 1
<1>1. c \in Row /\ c > lastRow /\ pc[r] = "group" /\ pc' = pc
  BY NewsBounds DEF InsertGroup, TypeOK, Row
<1>2. clusters[c] = {}
  BY <1>1 DEF FreshRows
<1>3. clusters' = [clusters EXCEPT ![c] = clusters[c] \cup taken]
  BY <1>2 DEF InsertGroup
<1>4. \A q \in Req : pc[q] = "register" => job'[q] = job[q]
  BY <1>1 DEF InsertGroup, TypeOK
<1>5. Registering' = Registering
  BY <1>1, <1>4, SameRegistering
<1> QED
  BY <1>1, <1>3, <1>5 DEF Placement!Gather, InsertGroup

LEMMA MergeGathers ==
    ASSUME TypeOK, StoreOK, NEW r \in Req, NEW taken \in SUBSET Record, NEW c \in Row,
           MergeGroup(r, c, taken)
    PROVE  Placement!Gather(c, taken)
<1>1. pc[r] = "group" /\ pc' = pc
  BY DEF MergeGroup
<1>2. job[r].active[c] = clusters[c]
  BY <1>1 DEF MergeGroup, StoreOK, LocalsOK
<1>3. clusters' = [clusters EXCEPT ![c] = clusters[c] \cup taken]
  BY <1>2 DEF MergeGroup, MergedRecords
<1>4. \A q \in Req : pc[q] = "register" => job'[q] = job[q]
  BY <1>1 DEF MergeGroup, TypeOK
<1>5. Registering' = Registering
  BY <1>1, <1>4, SameRegistering
<1> QED
  BY <1>3, <1>5 DEF Placement!Gather, MergeGroup

LEMMA AssignPlaces ==
    ASSUME TypeOK, LockIsHeld, StoreOK, NEW r \in Req, StoreAssignments(r)
    PROVE  Placement!Place \/ UNCHANGED Placement!vars
<1> DEFINE headlines == Pending(job[r])
<1>1. /\ pc[r] = "assign" /\ pc' = [pc EXCEPT ![r] = "register"]
      /\ UNCHANGED <<job, clusters, lastRow, registry>>
  BY DEF StoreAssignments, Goto
<1>2. \A q \in Req : pc[q] \in RefreshLabel => q = r
  BY <1>1, OneRefresh DEF RefreshLabel
<1>3. Registering = {}
  BY <1>1, <1>2, NoBatch DEF RefreshLabel
<1>4. Registering' = headlines
  <2>1. pc'[r] = "register" /\ \A q \in Req : pc'[q] = "register" => q = r
    BY <1>1, <1>2 DEF TypeOK, RefreshLabel
  <2>2. {q \in Req : pc'[q] = "register"} = {r}
    BY <2>1
  <2> QED
    BY <1>1, <2>2 DEF Registering, Pending
<1>5. \A x \in headlines : /\ assigned[x] = 0 /\ job[r].pending[x] \in Row
                           /\ x \in clusters[job[r].pending[x]]
  <2>1. \A x \in headlines : assigned[x] = 0 /\ x \in clusters[job[r].pending[x]]
    BY <1>1 DEF StoreOK, LocalsOK
  <2>2. job[r].pending \in [Record -> 0..MaxCluster]
    BY JobTypes DEF TypeOK
  <2> QED
    BY <2>1, <2>2, NewsBounds DEF Pending, Row
<1>6. assigned' = [x \in Record |-> IF x \in headlines THEN job[r].pending[x] ELSE assigned[x]]
  BY DEF StoreAssignments, Overwrite, Pending
<1>7. headlines \subseteq Record
  BY DEF Pending
<1> HIDE DEF headlines
<1>8. \A x \in headlines : assigned'[x] = job[r].pending[x]
  BY <1>6, <1>7
<1>9. assigned' = [x \in Record |-> IF x \in headlines THEN assigned'[x] ELSE assigned[x]]
  BY <1>6, <1>8
<1>10. CASE headlines # {}
  BY <1>1, <1>3, <1>4, <1>5, <1>7, <1>8, <1>9, <1>10 DEF Placement!Place
<1>11. CASE headlines = {}
  <2>1. assigned' = assigned
    BY <1>6, <1>11 DEF TypeOK
  <2> QED
    BY <1>1, <1>3, <1>4, <1>11, <2>1 DEF Placement!vars
<1> QED
  BY <1>10, <1>11

LEMMA RegisterLists ==
    ASSUME TypeOK, LockIsHeld, StoreOK, NEW r \in Req, StoreRegistry(r)
    PROVE  Placement!List \/ Placement!GiveUp
<1>1. /\ pc[r] = "register" /\ pc' = [pc EXCEPT ![r] = "tag"]
      /\ UNCHANGED <<clusters, assigned>>
  BY DEF StoreRegistry, Tagging, Goto, store
<1>2. \A q \in Req : pc[q] = "register" => q = r
  BY <1>1, OneRefresh DEF RefreshLabel
<1>3. Registering = Pending(job[r])
  BY <1>1, <1>2, OneBatch
<1>4. Registering' = {}
  BY <1>1, <1>2 DEF Registering, TypeOK
<1>5. \A x \in Pending(job[r]) : assigned[x] = job[r].pending[x]
  BY <1>1 DEF StoreOK, LocalsOK
<1>6. CASE UNCHANGED registry
  BY <1>1, <1>4, <1>6 DEF Placement!GiveUp
<1>7. CASE registry' = Overwrite(registry, job[r].pending)
  <2>1. registry' = [x \in Record |-> IF x \in Pending(job[r]) THEN assigned[x] ELSE registry[x]]
    BY <1>5, <1>7 DEF Overwrite, Pending
  <2> QED
    BY <1>1, <1>3, <1>4, <2>1 DEF Placement!List
<1> QED
  BY <1>6, <1>7 DEF StoreRegistry

LEMMA StepIsPlacement ==
    ASSUME TypeOK, LockIsHeld, StoreOK, FreshRows, [Next]_vars
    PROVE  [Placement!Next]_(Placement!vars)
<1>1. CASE /\ UNCHANGED <<clusters, lastRow, assigned, registry>>
           /\ \A q \in Req : /\ pc'[q] = "register" <=> pc[q] = "register"
                             /\ pc[q] = "register" => job'[q] = job[q]
  BY <1>1, SameRegistering DEF Placement!vars
<1>2. ASSUME NEW r \in Req, NEW taken \in SUBSET Record, InsertGroup(r, taken)
      PROVE  Placement!Next
  BY <1>2, InsertGathers DEF Placement!Next
<1>3. ASSUME NEW r \in Req, NEW taken \in SUBSET Record, NEW c \in Row, MergeGroup(r, c, taken)
      PROVE  Placement!Next
  BY <1>3, MergeGathers DEF Placement!Next
<1>4. ASSUME NEW r \in Req, StoreAssignments(r) PROVE [Placement!Next]_(Placement!vars)
  BY <1>4, AssignPlaces DEF Placement!Next
<1>5. ASSUME NEW r \in Req, StoreRegistry(r) PROVE Placement!Next
  BY <1>5, RegisterLists DEF Placement!Next
<1>6. CASE Restart
  <2>1. \A q \in Req : pc'[q] # "register"
    BY <1>6 DEF Restart
  <2>2. Registering' = {}
    BY <2>1 DEF Registering
  <2> QED
    BY <1>6, <2>2 DEF Restart, store, Placement!Next, Placement!GiveUp
<1> QED
  BY <1>1, <1>2, <1>3, <1>4, <1>5, <1>6, StoreWriters

\* Through every handler, failure and restart, rows only gain headlines, a
\* headline is placed once and in a row that has it, and a batch is listed or
\* given up before the next one is placed (refresh_clusters, news_refresh).
THEOREM PlacementIsImplemented == Spec => ImplementsHeadlinePlacement
<1>1. Init => StoreOK /\ FreshRows /\ Placement!Init
  <2> SUFFICES ASSUME Init PROVE StoreOK /\ FreshRows /\ Placement!Init
    OBVIOUS
  <2>1. \A r \in Req : LocalsOK(r) /\ pc[r] # "register"
    BY DEF Init, LocalsOK
  <2>2. Registering = {}
    BY <2>1, NoBatch
  <2> QED
    BY <2>1, <2>2 DEF Init, StoreOK, AssignedIsStored, FreshRows, Unassigned, NoRows,
                      Placement!Init, Placement!Nowhere
<1>2. TypeOK /\ LockIsHeld /\ StoreOK /\ [Next]_vars => StoreOK'
  BY ClusterStep
<1>3. TypeOK /\ StoreOK /\ FreshRows /\ [Next]_vars => FreshRows'
  BY FreshRowsStep
<1>4. TypeOK /\ LockIsHeld /\ StoreOK /\ FreshRows /\ [Next]_vars
      => [Placement!Next]_(Placement!vars)
  BY StepIsPlacement
<1> QED
  BY <1>1, <1>2, <1>3, <1>4, NewsTypeCorrect, LockIsHeldAlways, PTL
     DEF Spec, ImplementsHeadlinePlacement, Placement!Spec
=============================================================================
