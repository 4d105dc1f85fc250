------------------------------- MODULE MCNews -------------------------------
(* Finite instances of the news refresh for TLC.                            *)
EXTENDS NewsProperties, TLC

Symmetry == Permutations(Record) \cup Permutations(Req)
=============================================================================
