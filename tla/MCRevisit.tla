----------------------------- MODULE MCRevisit -----------------------------
(* Finite instances of the evidence writers for TLC.                       *)
EXTENDS RevisitProperties, TLC
===========================================================================
