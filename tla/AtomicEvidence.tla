--------------------------- MODULE AtomicEvidence ---------------------------
(***************************************************************************)
(* What the writers of the market evidence promise each other (db.py,      *)
(* update_event_market_refresh and append_revisit_snapshot), without       *)
(* calls, threads, transactions or locks: every write takes effect at once.*)
(* A check replaces the tickers, their stamp and the verdict and leaves the*)
(* rest of the row as it is, the snapshots above all; a capture replaces   *)
(* the snapshot of one day and leaves the tickers and the verdict as they  *)
(* are; nothing brings back an erased event, and no write is stamped with, *)
(* or captures, a time still to come.  Nothing is promised of the list a   *)
(* check writes: it may be one its caller read before another check wrote, *)
(* and then takes that check's tickers and stamp back.                     *)
(***************************************************************************)
EXTENDS EventEvidence

CONSTANT MaxEvent   \* ids that can be handed out

VARIABLES rows, lastId, now

Event == 1..MaxEvent

Init ==
    /\ rows = [e \in Event |-> NoRow]
    /\ lastId = 0
    /\ now \in Nat

\* The row of event e becomes what rows'[e] is, and nothing else changes.
Writes(e) ==
    /\ rows' = [rows EXCEPT ![e] = rows'[e]]
    /\ UNCHANGED now

\* A new event has the verdict of its tickers and no snapshot.
Save(e) ==
    /\ e = lastId + 1
    /\ rows'[e] \in Row
    /\ rows'[e].saved = now
    /\ rows'[e].snaps = [d \in Days |-> NoSnap]
    /\ rows'[e].verdict = Label(rows'[e].tickers)
    /\ Writes(e)
    /\ lastId' = e

Erase(e) ==
    /\ rows'[e] = NoRow
    /\ Writes(e)
    /\ UNCHANGED lastId

\* The caller of a check brings the list and the stamp, which may be older than
\* those of the row (market_check_freshness.py writes back what it had loaded).
Check(e) ==
    LET tickers == rows'[e].tickers
        at == rows'[e].checked
    IN
    /\ rows[e] # NoRow /\ rows'[e] # NoRow
    /\ tickers \in Tickers
    /\ at \in 0..now
    /\ rows'[e] = [rows[e] EXCEPT !.tickers = tickers, !.checked = at, !.verdict = Label(tickers)]
    /\ Writes(e)
    /\ UNCHANGED lastId

\* A day can be captured once it has come.
Capture(e, day) ==
    /\ rows[e] # NoRow
    /\ AnchorDate(rows[e]) + day <= now
    /\ \E snap \in Snapshot : rows'[e] = [rows[e] EXCEPT !.snaps[day] = snap]
    /\ Writes(e)
    /\ UNCHANGED lastId

Wait ==
    /\ now' = now + 1
    /\ UNCHANGED <<rows, lastId>>

Next ==
    \/ \E e \in Event :
        \/ Save(e) \/ Erase(e) \/ Check(e)
        \/ \E day \in Days : Capture(e, day)
    \/ Wait

Spec == Init /\ [][Next]_<<rows, lastId, now>>
===========================================================================
