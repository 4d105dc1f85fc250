----------------------------- MODULE MCAnalyze -----------------------------
(* Finite instances of the analyze pipeline for TLC.                       *)
EXTENDS AnalyzeProperties, TLC

\* Slots, backdrops and sources are interchangeable.
Symmetry == Permutations(Req) \cup Permutations(Macro)
LinkSymmetry == Permutations(Req) \cup Permutations(Macro) \cup Permutations(Source)

\* Bound for the link run: requests that end before the save are cut.
OnlyLinkingRuns ==
    \A r \in Req : pc[r] = "idle" \/ (/\ req[r].confirm
                                     /\ req[r].eventId = NoId
                                     /\ run[r].kind \in {"none", "fresh"})
===========================================================================
