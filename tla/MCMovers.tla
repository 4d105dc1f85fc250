------------------------------ MODULE MCMovers ------------------------------
(* Finite instances of the movers caches for TLC.                          *)
EXTENDS MoversProperties, TLC

TTLs == [s \in Slice |-> 0]
Symmetry == Permutations(Req)

(* The persisted slices and the list of the day share the events and        *)
(* nothing else: a behaviour goes on with one of them filled or read at a   *)
(* time.                                                                    *)
OneSurface ==
    \/ /\ \A s \in Slice : cache[s] = NoEntry
       /\ \A r \in Req : pc[r] \notin SliceLabel
    \/ /\ today.data = NoData
       /\ \A r \in Req : pc[r] \notin TodayLabel
=============================================================================
