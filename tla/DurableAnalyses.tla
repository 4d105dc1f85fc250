-------------------------- MODULE DurableAnalyses --------------------------
(***************************************************************************)
(* What the durable request cache promises (db.py, analysis_request_cache: *)
(* "an unchanged request reuses forever and a changed one can never be     *)
(* served an old result"), without tables, transactions or handlers.       *)
(*                                                                         *)
(* An analysis is saved in one step, under an id and for a request nobody  *)
(* used before; it is never changed.  Erasing it only hides it.  A request *)
(* answered from the cache is answered with the analysis saved for exactly *)
(* that request.                                                           *)
(***************************************************************************)
EXTENDS Naturals

CONSTANTS Request, Asker

VARIABLES
    analyses,   \* set of [id, by]: every analysis ever saved
    erased,     \* ids that were deleted
    answer      \* [Asker -> set of the analyses it was last answered with]

Nothing == [a \in Asker |-> {}]

Init == analyses = {} /\ erased = {} /\ answer = Nothing

\* The id is any number above the ids used before.
Save ==
    \E a \in analyses' :
        /\ a.id \in Nat /\ a.by \in Request
        /\ \A b \in analyses : b.id < a.id /\ b.by # a.by
        /\ analyses' = analyses \cup {a}
        /\ UNCHANGED <<erased, answer>>

Erase(a) ==
    /\ erased' = erased \cup {a.id}
    /\ UNCHANGED <<analyses, answer>>

Answer(asker, request) ==
    /\ answer[asker] = {}
    /\ \E a \in analyses :
        /\ a.by = request
        /\ a.id \notin erased
        /\ answer' = [answer EXCEPT ![asker] = {a}]
    /\ UNCHANGED <<analyses, erased>>

Forget ==
    /\ \E askers \in SUBSET Asker :
        answer' = [a \in Asker |-> IF a \in askers THEN {} ELSE answer[a]]
    /\ UNCHANGED <<analyses, erased>>

Next ==
    \/ Save
    \/ \E a \in analyses : Erase(a)
    \/ \E asker \in Asker, request \in Request : Answer(asker, request)
    \/ Forget

Spec == Init /\ [][Next]_<<analyses, erased, answer>>
===========================================================================
