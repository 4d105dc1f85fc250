------------------------------ MODULE MCPrices ------------------------------
(* Finite instances of the price cache for TLC.                             *)
EXTENDS PriceProperties, TLC

Symmetry == Permutations(Req)

\* At most one day at a time that an answer left without a close, or is about
\* to, or wrote late.
OneAccident ==
    Cardinality(late \cup omitted \cup UNION {
        DaysOf(SeriesOf(job[r].key), Head(job[r].gaps) \ Closed(job[r].frame)) :
            r \in {q \in Req : pc[q] = "write"}}) <= 1
=============================================================================
