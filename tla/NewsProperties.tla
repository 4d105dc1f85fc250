--------------------------- MODULE NewsProperties ---------------------------
(* What the news refresh promises.                                          *)
EXTENDS NewsRefresh

TypeOK ==
    /\ clusters \in [Row -> SUBSET Record]
    /\ live \subseteq Row
    /\ lastRow \in 0..MaxCluster
    /\ assigned \in [Record -> 0..MaxCluster]
    /\ registry \in [Record -> 0..MaxCluster]
    /\ unregistered \subseteq Record
    /\ hot \in Payload
    /\ stored \in Payload
    /\ unsaved \in BOOLEAN
    /\ shown \in Payload
    /\ lock \in Req \cup {NoReq}
    /\ last \in BOOLEAN
    /\ started \in Payload
    /\ pc \in [Req -> Label]
    /\ job \in [Req -> Job]

(* The lock is held exactly by the handler that is between the feeds and    *)
(* its release: two refreshes never overlap, and no failure on the way, nor *)
(* a handler that waited, leaves the lock behind (routes/news.news_refresh).*)
LockIsHeld ==
    \A r \in Req : pc[r] \in RefreshLabel <=> lock = r

(* A headline that will never be clustered again is in the cluster it was   *)
(* assigned to: no crash, failed session or concurrent rewrite of the row   *)
(* loses it.  The row is rewritten from a copy loaded at the start of the   *)
(* refresh, so this rests on the lock (refresh_clusters, update_news_cluster).*)
AssignedIsStored ==
    \A x \in Record : assigned[x] # 0 =>
        assigned[x] <= lastRow /\ x \in clusters[assigned[x]]

(* The registry names the cluster a headline is assigned to, and only a     *)
(* failed or cut-off registry upsert leaves an assigned headline without a  *)
(* row (refresh_clusters, upsert_headline_registry_seen).                   *)
AssignedIsRegistered ==
    \A x \in Record :
        /\ registry[x] # 0 => registry[x] = assigned[x]
        /\ x \notin unregistered => registry[x] = assigned[x]

(* Between two GETs of one process, the second begun after the first ended, *)
(* the news goes back only while the newest payload is not persisted (its   *)
(* save is under way or failed) or when the row cannot be read              *)
(* (_fetch_fresh_news, _read_news_cache_state).                             *)
NewsGoesForward ==
    [][\A r \in Req : (StartGet(r) \/ GetStored(r)) /\ pc'[r] = "getServe" =>
           job'[r].n >= job'[r].floor \/ unsaved]_vars

\* Placed headlines whose registry upsert is still to come.
Registering == UNION {Pending(job[r]) : r \in {q \in Req : pc[q] = "register"}}

Placement == INSTANCE HeadlinePlacement
    WITH members <- clusters, placed <- assigned, listed <- registry, batch <- Registering

(* Handlers, the lock, sessions of their own for clusters, assignments and  *)
(* registry, failures and restarts together implement: rows only gain       *)
(* headlines; each headline is placed once, in a row that has it, its batch *)
(* as a whole; and each batch is listed or given up before the next one is  *)
(* placed (refresh_clusters, news_refresh).                                 *)
ImplementsHeadlinePlacement == Placement!Spec
=============================================================================
